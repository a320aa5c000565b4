--------------------------- MODULE CatalogProofs ----------------------------
(***************************************************************************)
(* Proofs about Catalog, for any number of products, rows of a file and    *)
(* requests.                                                               *)
(***************************************************************************)
EXTENDS Catalog, FiniteSetTheorems, TLAPS

\* A request that looked at a limit looked at one the shop has had; one that writes
\* a row back has a row.
WellFilled ==
    \A r \in Requests :
        /\ At(r, "count") => req[r].limit \in Limits /\ req[r].limit \in given
        /\ At(r, "save") => req[r].copy # NoRow

\* An update that was not overtaken writes what it asks for over the row as it is.
NothingUndone ==
    \A r \in Requests : At(r, "save") /\ ~req[r].late =>
        req[r].copy = Overlay(row[req[r].product], req[r].edit)

\* Imports under way whose next row is after j, and not after k.
Between(j, k) == {r \in Requests : At(r, "rows") /\ j < req[r].next /\ req[r].next <= k}
Beyond(k) == {r \in Requests : At(r, "rows") /\ k < req[r].next}
UpTo(k) == {r \in Requests : At(r, "rows") /\ req[r].next <= k}

\* An import has put in the rows before its next one, and no others.
RowsAreCounted ==
    \A k \in 1 .. FileRows :
        /\ whole + Cardinality(Beyond(k)) <= copies[k]
        /\ copies[k] + Cardinality(UpTo(k)) <= tries
        /\ \A j \in 1 .. k : copies[k] + Cardinality(Between(j, k)) <= copies[j]

IInv ==
    /\ TypeOK
    /\ WellFilled
    /\ NothingUndone
    /\ ProductsWithinPlan
    /\ AsAsked
    /\ RowsAreCounted
----------------------------------------------------------------------------
(* Rows and slots. *)

LEMMA RowShape ==
  ASSUME NEW c \in Row
  PROVE  /\ c # NoRow => c.sale \in {"on", "off"} /\ c.price \in Prices
         /\ c = NoRow => c.sale = "none"
  BY DEF Row, NoRow

LEMMA NewRow ==
  ASSUME NEW s \in {"on", "off"}, NEW c \in Prices
  PROVE  [sale |-> s, price |-> c] \in Row /\ [sale |-> s, price |-> c] # NoRow
  BY DEF Row, NoRow

LEMMA OverlayShape ==
  ASSUME NEW c \in Row, c # NoRow, NEW e \in Edit
  PROVE  /\ Overlay(c, e) \in Row /\ Overlay(c, e) # NoRow
         /\ Overlay(c, e).sale = IF e.sale = None THEN c.sale ELSE e.sale
  <1> DEFINE s == IF e.sale = None THEN c.sale ELSE e.sale
             p == IF e.price = None THEN c.price ELSE e.price
  <1>1. s \in {"on", "off"} /\ p \in Prices
    BY RowShape DEF Edit
  <1>2. Overlay(c, e) = [sale |-> s, price |-> p]
    BY DEF Overlay
  <1> HIDE DEF s, p
  <1>3. Overlay(c, e) \in Row /\ Overlay(c, e) # NoRow /\ Overlay(c, e).sale = s
    BY <1>1, <1>2, NewRow
  <1> QED
    BY <1>3 DEF s

LEMMA SlotShape ==
  ASSUME NEW pc \in Points, NEW m \in AnyLimit, NEW p \in Products \cup {None}, NEW c \in Row,
         NEW e \in Edit
  PROVE  LET x == Slot(pc, m, p, c, e, 1) IN
         /\ x \in Request /\ x.pc = pc /\ x.limit = m /\ x.product = p /\ x.copy = c
         /\ x.edit = e /\ x.late = FALSE /\ x.next = 1
  BY CatalogAssumption DEF Slot, Request

LEMMA EmptySlot ==
  NoRow \in Row /\ NoEdit \in Edit /\ NoLimit \in AnyLimit /\ Idle \in Request /\ Idle.pc = "idle"
  BY CatalogAssumption DEF NoRow, Row, NoEdit, Edit, AnyLimit, Idle, Slot, Request, Points

\* A request goes to another point.
LEMMA GoStep ==
  ASSUME TypeOK, NEW r \in Requests, NEW pc \in Points, NEW m \in AnyLimit, Go(r, pc, m)
  PROVE  /\ req' \in [Requests -> Request] /\ req'[r].pc = pc /\ req'[r].limit = m
         /\ req'[r].next = 1 /\ \A s \in Requests : s # r => req'[s] = req[s]
  <1>1. Slot(pc, m, None, NoRow, NoEdit, 1) \in Request
    BY EmptySlot, SlotShape
  <1> QED
    BY <1>1 DEF Go, TypeOK, Slot

LEMMA EndStep ==
  ASSUME TypeOK, NEW r \in Requests, End(r)
  PROVE  /\ req' \in [Requests -> Request] /\ req'[r].pc = "idle"
         /\ \A s \in Requests : s # r => req'[s] = req[s]
  BY EmptySlot, GoStep DEF End, Points

\* What the write of a row does to the other requests.
LEMMA LateShape ==
  ASSUME TypeOK, NEW s \in Requests, NEW p
  PROVE  /\ Late(s, p) \in Request /\ Late(s, p).pc = req[s].pc
         /\ Late(s, p).limit = req[s].limit /\ Late(s, p).product = req[s].product
         /\ Late(s, p).copy = req[s].copy /\ Late(s, p).next = req[s].next
         /\ req[s].pc = "save" /\ req[s].product = p => Late(s, p).late
         /\ ~(req[s].pc = "save" /\ req[s].product = p) => Late(s, p) = req[s]
  <1>1. req[s] \in Request
    BY DEF TypeOK
  <1>2. CASE Overtaken(s, p)
    <2> DEFINE x == [req[s] EXCEPT !.late = TRUE, !.edit = NoEdit]
    <2>1. /\ x \in Request /\ x.pc = req[s].pc /\ x.limit = req[s].limit
          /\ x.product = req[s].product /\ x.copy = req[s].copy /\ x.next = req[s].next /\ x.late
      BY <1>1, EmptySlot DEF Request
    <2>2. Late(s, p) = x
      BY <1>2 DEF Late
    <2> HIDE DEF x
    <2> QED
      BY <1>2, <2>1, <2>2 DEF Overtaken, At
  <1>3. CASE ~Overtaken(s, p)
    BY <1>1, <1>3 DEF Late, Overtaken, At
  <1> QED
    BY <1>2, <1>3

\* The next row of the file.
LEMMA NextRow ==
  ASSUME TypeOK, NEW r \in Requests, req[r].next <= FileRows,
         req' = [req EXCEPT ![r].next = req[r].next + 1]
  PROVE  /\ req' \in [Requests -> Request] /\ req'[r].pc = req[r].pc
         /\ req'[r].limit = req[r].limit /\ req'[r].next = req[r].next + 1
         /\ \A s \in Requests : s # r => req'[s] = req[s]
  <1>1. req[r] \in Request /\ req[r].next \in 1 .. FileRows + 1 /\ FileRows \in Nat
    BY CatalogAssumption DEF TypeOK, Request
  <1>2. req[r].next + 1 \in 1 .. FileRows + 1
    BY <1>1
  <1> QED
    BY <1>1, <1>2 DEF TypeOK, Request
----------------------------------------------------------------------------
LEMMA InitInv == Init => IInv
  <1> SUFFICES ASSUME Init PROVE IInv
    OBVIOUS
  <1> USE CatalogAssumption
  <1>1. TypeOK
    BY EmptySlot DEF Init, TypeOK, At, NoRow, Row
  <1>2. WellFilled /\ NothingUndone /\ AsAsked
    BY EmptySlot DEF Init, WellFilled, NothingUndone, AsAsked, At
  <1>3. ProductsWithinPlan
    <2>1. OnSale \ unseen = {} /\ Admitted = {}
      BY EmptySlot DEF Init, OnSale, Admitted, At, NoRow
    <2>2. Cardinality(Requests) \in Nat /\ Cardinality(Requests) >= 1
      BY FS_CardinalityType, FS_EmptySet
    <2>3. CASE limit \in Nat
      <3>1. Cardinality(OnSale \ unseen) = 0 /\ Cardinality(Admitted) = 0
        BY <2>1, FS_EmptySet
      <3>2. limit \in given /\ 0 + 0 + 1 <= limit + Cardinality(Requests)
        BY <2>2, <2>3 DEF Init
      <3> QED
        BY <3>1, <3>2 DEF ProductsWithinPlan
    <2> QED
      BY <2>3 DEF Init, AnyLimit, ProductsWithinPlan
  <1>4. RowsAreCounted
    <2>1. \A j, k \in 1 .. FileRows : Beyond(k) = {} /\ UpTo(k) = {} /\ Between(j, k) = {}
      BY EmptySlot DEF Init, Beyond, UpTo, Between, At
    <2> QED
      <3>1. \A j, k \in 1 .. FileRows :
               Cardinality(Beyond(k)) = 0 /\ Cardinality(UpTo(k)) = 0
                 /\ Cardinality(Between(j, k)) = 0
        BY <2>1, FS_EmptySet
      <3>2. whole = 0 /\ tries = 0 /\ \A k \in 1 .. FileRows : copies[k] = 0
        BY DEF Init
      <3>3. \A k \in 1 .. FileRows : \A j \in 1 .. k : j \in 1 .. FileRows
        OBVIOUS
      <3> QED
        BY <3>1, <3>2, <3>3 DEF RowsAreCounted
  <1> QED
    BY <1>1, <1>2, <1>3, <1>4 DEF IInv
----------------------------------------------------------------------------
(* Type correctness, and what slots hold. *)

\* An update under way has a product that is there.
Pointed(r) == At(r, "save") => req[r].product \in Products /\ row[req[r].product] # NoRow

\* A slot of WellFilled.
Filled(r) ==
    /\ At(r, "count") => req[r].limit \in Limits /\ req[r].limit \in given
    /\ At(r, "save") => req[r].copy # NoRow

\* A product is added.
LEMMA AddedRow ==
  ASSUME TypeOK, AsAsked, NEW p \in Products, NEW c \in Prices, Added(p, c)
  PROVE  /\ row' \in [Products -> Row] /\ asked' = row' /\ row[p] = NoRow
         /\ row'[p].sale = "on" /\ \A x \in Products : x # p => row'[x] = row[x]
         /\ \A x \in Products : row[x] # NoRow => row'[x] = row[x]
  <1> DEFINE d == [sale |-> "on", price |-> c]
  <1>1. d \in Row
    BY NewRow
  <1> QED
    BY <1>1 DEF Added, TypeOK, AsAsked

\* The step of one request that changes no row.
LEMMA OneMoves ==
  ASSUME TypeOK, WellFilled, NEW r \in Requests, req' \in [Requests -> Request],
         \A s \in Requests : s # r => req'[s] = req[s],
         Pointed(r)', Filled(r)', \A x \in Products : row[x] # NoRow => row'[x] # NoRow,
         given \subseteq given'
  PROVE  (\A s \in Requests : Pointed(s)') /\ WellFilled'
  BY DEF TypeOK, WellFilled, Pointed, Filled, At

LEMMA TypeInv == IInv /\ [Next]_vars => TypeOK' /\ WellFilled'
  <1> SUFFICES ASSUME IInv, [Next]_vars PROVE TypeOK' /\ WellFilled'
    OBVIOUS
  <1> USE CatalogAssumption
  <1>0. TypeOK /\ WellFilled /\ AsAsked
    BY DEF IInv
  <1>1. ASSUME NEW r \in Requests, NEW pc \in Points \ {"save"}, NEW m \in AnyLimit, Go(r, pc, m),
               pc = "count" => m \in Limits /\ m \in given,
               \A x \in Products : row[x] # NoRow => row'[x] # NoRow, given' = given
        PROVE  req' \in [Requests -> Request] /\ (\A s \in Requests : Pointed(s)') /\ WellFilled'
    <2>1. /\ req' \in [Requests -> Request] /\ req'[r].pc = pc /\ req'[r].limit = m
          /\ \A s \in Requests : s # r => req'[s] = req[s]
      BY <1>0, <1>1, GoStep
    <2>2. Pointed(r)' /\ Filled(r)'
      BY <1>1, <2>1 DEF Pointed, Filled, At
    <2> QED
      BY <1>0, <1>1, <2>1, <2>2, OneMoves
  <1>2. ASSUME NEW r \in Requests, End(r), given' = given,
               \A x \in Products : row[x] # NoRow => row'[x] # NoRow
        PROVE  req' \in [Requests -> Request] /\ (\A s \in Requests : Pointed(s)') /\ WellFilled'
    BY <1>1, <1>2, EmptySlot DEF End, Points
  <1>3. ASSUME NEW m \in AnyLimit, ChangeLimit(m) PROVE TypeOK' /\ WellFilled'
    BY <1>0, <1>3 DEF ChangeLimit, TypeOK, WellFilled, At
  <1>4. ASSUME NEW r \in Requests, ReadLimit(r) PROVE TypeOK' /\ WellFilled'
    <2>1. limit \in AnyLimit /\ limit \in given
      BY <1>0 DEF TypeOK
    <2>2. PICK pc \in {"insert", "count", "blind"}, m \in AnyLimit :
             Go(r, pc, m) /\ (pc = "count" => m \in Limits /\ m \in given)
      BY <1>4, <2>1, EmptySlot DEF ReadLimit, AnyLimit
    <2> QED
      BY <1>0, <1>1, <1>4, <2>2 DEF ReadLimit, TypeOK, Points, Pointed
  <1>5. ASSUME NEW r \in Requests, Count(r) PROVE TypeOK' /\ WellFilled'
    <2>1. PICK pc \in {"insert", "idle", "blind"} : Go(r, pc, NoLimit)
      BY <1>5 DEF Count, End
    <2> QED
      BY <1>0, <1>1, <1>5, <2>1, EmptySlot DEF Count, TypeOK, Points, Pointed
  <1>6. ASSUME NEW r \in Requests, NEW p \in Products, NEW c \in Prices, Insert(r, p, c)
        PROVE  TypeOK' /\ WellFilled'
    <2>1. row' \in [Products -> Row] /\ asked' = row'
            /\ \A x \in Products : row[x] # NoRow => row'[x] = row[x]
      BY <1>0, <1>6, AddedRow DEF Insert
    <2> QED
      BY <1>0, <1>2, <1>6, <2>1 DEF Insert, TypeOK, Pointed
  <1>7. ASSUME NEW r \in Requests, Fails(r) PROVE TypeOK' /\ WellFilled'
    BY <1>0, <1>2, <1>7 DEF Fails, TypeOK, Pointed
  <1>8. ASSUME NEW r \in Requests, NEW p \in Products, NEW e \in Edit, ReadRow(r, p, e)
        PROVE  TypeOK' /\ WellFilled'
    <2> DEFINE c == Overlay(row[p], e)
    <2>1. c \in Row /\ c # NoRow
      BY <1>0, <1>8, OverlayShape DEF ReadRow, Found, TypeOK
    <2> HIDE DEF c
    <2>2. req' = [req EXCEPT ![r] = Slot("save", NoLimit, p, c, e, 1)]
      BY <1>8 DEF ReadRow, c
    <2>3. LET x == Slot("save", NoLimit, p, c, e, 1) IN
          x \in Request /\ x.pc = "save" /\ x.product = p /\ x.copy = c
      <3>1. "save" \in Points /\ p \in Products \cup {None}
        BY DEF Points
      <3> QED
        BY <2>1, <3>1, EmptySlot, CatalogAssumption DEF Slot, Request
    <2>4. /\ req' \in [Requests -> Request] /\ req'[r].pc = "save" /\ req'[r].product = p
          /\ req'[r].copy = c /\ \A s \in Requests : s # r => req'[s] = req[s]
      BY <1>0, <2>2, <2>3 DEF TypeOK
    <2>5. Pointed(r)' /\ Filled(r)'
      BY <1>8, <2>1, <2>4 DEF Pointed, Filled, At, ReadRow, Found
    <2> QED
      BY <1>0, <1>8, <2>4, <2>5, OneMoves DEF ReadRow, TypeOK, Pointed
  <1>9. ASSUME NEW r \in Requests, SaveRow(r) PROVE TypeOK' /\ WellFilled'
    <2> DEFINE p == req[r].product
               c == req[r].copy
    <2>1. p \in Products /\ c \in Row /\ c # NoRow /\ req[r].edit \in Edit
      BY <1>0, <1>9 DEF SaveRow, TypeOK, WellFilled, Request, At
    <2>2. asked[p] \in Row /\ asked[p] # NoRow
      BY <1>0, <1>9 DEF SaveRow, TypeOK, AsAsked
    <2>3. Overlay(asked[p], req[r].edit) \in Row
      BY <2>1, <2>2, OverlayShape
    <2>4. row' = [row EXCEPT ![p] = c] /\ asked' \in [Products -> Row]
      BY <1>0, <1>9, <2>1, <2>3 DEF SaveRow, Saved, TypeOK
    <2>5. /\ req' \in [Requests -> Request] /\ req'[r].pc = "idle"
          /\ \A s \in Requests : s # r =>
                /\ req'[s].pc = req[s].pc /\ req'[s].limit = req[s].limit
                /\ req'[s].product = req[s].product /\ req'[s].copy = req[s].copy
      BY <1>0, <1>9, EmptySlot, LateShape DEF SaveRow
    <2>6. unseen' \subseteq Products
      BY <1>0, <1>9, <2>1 DEF SaveRow, TypeOK
    <2>7. row' \in [Products -> Row] /\ \A x \in Products : row[x] # NoRow => row'[x] # NoRow
      BY <1>0, <2>1, <2>4 DEF TypeOK
    <2> HIDE DEF p, c
    <2>8. (\A s \in Requests : Pointed(s)') /\ WellFilled'
      BY <1>0, <1>9, <2>5, <2>7 DEF SaveRow, TypeOK, WellFilled, Pointed, At
    <2> QED
      BY <1>0, <1>9, <2>4, <2>5, <2>6, <2>7, <2>8 DEF SaveRow, TypeOK, Pointed
  <1>10. ASSUME NEW p \in Products, DeleteProduct(p) PROVE TypeOK' /\ WellFilled'
    <2> DEFINE c == [row[p] EXCEPT !.sale = "off"]
    <2>1. c \in Row /\ c # NoRow
      <3>1. row[p] \in Row /\ row[p] # NoRow
        BY <1>0, <1>10 DEF DeleteProduct, Found, TypeOK
      <3>2. row[p].price \in Prices /\ c = [sale |-> "off", price |-> row[p].price]
        BY <3>1 DEF Row, NoRow
      <3> QED
        BY <3>2, NewRow
    <2>2. row' = [row EXCEPT ![p] = c] /\ asked' = [asked EXCEPT ![p] = c]
      BY <1>0, <1>10 DEF DeleteProduct, Deleted, AsAsked
    <2> HIDE DEF c
    <2>3. /\ row' \in [Products -> Row] /\ asked' \in [Products -> Row]
          /\ \A x \in Products : row[x] # NoRow => row'[x] # NoRow
      BY <1>0, <2>1, <2>2 DEF TypeOK
    <2>4. /\ req' \in [Requests -> Request]
          /\ \A s \in Requests :
                /\ req'[s].pc = req[s].pc /\ req'[s].limit = req[s].limit
                /\ req'[s].product = req[s].product /\ req'[s].copy = req[s].copy
      BY <1>0, <1>10, LateShape DEF DeleteProduct
    <2>5. (\A s \in Requests : Pointed(s)') /\ WellFilled'
      BY <1>0, <1>10, <2>3, <2>4 DEF DeleteProduct, TypeOK, WellFilled, Pointed, At
    <2> QED
      BY <1>0, <1>10, <2>3, <2>4, <2>5 DEF DeleteProduct, TypeOK, Pointed
  <1>11. ASSUME NEW r \in Requests, Upload(r) PROVE TypeOK' /\ WellFilled'
    BY <1>0, <1>1, <1>11, EmptySlot DEF Upload, TypeOK, Points, Pointed
  <1>12. ASSUME NEW r \in Requests, NEW p \in Products, NEW c \in Prices, ImportRow(r, p, c)
         PROVE  TypeOK' /\ WellFilled'
    <2>1. /\ row' \in [Products -> Row] /\ asked' = row'
          /\ \A x \in Products : row[x] # NoRow => row'[x] = row[x]
      BY <1>0, <1>12, AddedRow DEF ImportRow
    <2>2. /\ req' \in [Requests -> Request] /\ req'[r].pc = req[r].pc
          /\ \A s \in Requests : s # r => req'[s] = req[s]
      BY <1>0, <1>12, NextRow DEF ImportRow
    <2>3. Pointed(r)' /\ Filled(r)'
      BY <1>12, <2>2 DEF ImportRow, Pointed, Filled, At
    <2>4. (\A s \in Requests : Pointed(s)') /\ WellFilled'
      BY <1>0, <1>12, <2>1, <2>2, <2>3, OneMoves DEF ImportRow
    <2>5. copies' \in [1 .. FileRows -> Nat]
      <3>1. req[r].next \in 1 .. FileRows /\ FileRows \in Nat
        BY <1>0, <1>12 DEF ImportRow, TypeOK, Request
      <3> QED
        BY <1>0, <1>12, <3>1 DEF ImportRow, TypeOK
    <2> QED
      BY <1>0, <1>12, <2>1, <2>2, <2>4, <2>5 DEF ImportRow, TypeOK, Pointed
  <1>13. ASSUME NEW r \in Requests, Imported(r) PROVE TypeOK' /\ WellFilled'
    BY <1>0, <1>2, <1>13 DEF Imported, TypeOK, Pointed
  <1>14. CASE Crash
    BY <1>0, <1>14, EmptySlot DEF Crash, TypeOK, WellFilled, At
  <1>15. CASE UNCHANGED vars
    BY <1>0, <1>15 DEF vars, TypeOK, WellFilled, At
  <1> QED
    BY <1>3, <1>4, <1>5, <1>6, <1>7, <1>8, <1>9, <1>10, <1>11, <1>12, <1>13, <1>14, <1>15 DEF Next
----------------------------------------------------------------------------
(* Every product is as it was asked to be. *)

LEMMA AsAskedInv == IInv /\ TypeOK' /\ [Next]_vars => AsAsked' /\ NothingUndone'
  <1> SUFFICES ASSUME IInv, TypeOK', [Next]_vars PROVE AsAsked' /\ NothingUndone'
    OBVIOUS
  <1> USE CatalogAssumption
  <1>0. TypeOK /\ AsAsked /\ NothingUndone
    BY DEF IInv
  <1>1. ASSUME NEW r \in Requests, req'[r].pc # "save",
               \A s \in Requests : s # r => req'[s] = req[s],
               \A x \in Products : row[x] # NoRow => row'[x] = row[x]
        PROVE  NothingUndone'
    BY <1>0, <1>1 DEF NothingUndone, TypeOK, At
  <1>2. CASE UNCHANGED <<row, req, asked>>
    BY <1>0, <1>2 DEF AsAsked, NothingUndone, At
  <1>3. ASSUME NEW r \in Requests, ReadLimit(r) PROVE AsAsked' /\ NothingUndone'
    <2>1. PICK pc \in {"insert", "count", "blind"}, m \in AnyLimit : Go(r, pc, m)
      BY <1>0, <1>3, EmptySlot DEF ReadLimit, TypeOK
    <2>2. req'[r].pc # "save" /\ \A s \in Requests : s # r => req'[s] = req[s]
      BY <1>0, <2>1, GoStep DEF Points
    <2> QED
      BY <1>0, <1>1, <1>3, <2>2 DEF ReadLimit, AsAsked
  <1>4. ASSUME NEW r \in Requests, Count(r) PROVE AsAsked' /\ NothingUndone'
    <2>1. PICK pc \in {"insert", "idle", "blind"} : Go(r, pc, NoLimit)
      BY <1>4 DEF Count, End
    <2>2. req'[r].pc # "save" /\ \A s \in Requests : s # r => req'[s] = req[s]
      BY <1>0, <2>1, GoStep, EmptySlot DEF Points
    <2> QED
      BY <1>0, <1>1, <1>4, <2>2 DEF Count, AsAsked
  <1>5. ASSUME NEW r \in Requests, NEW p \in Products, NEW c \in Prices, Insert(r, p, c)
        PROVE  AsAsked' /\ NothingUndone'
    <2>1. asked' = row' /\ \A x \in Products : row[x] # NoRow => row'[x] = row[x]
      BY <1>0, <1>5, AddedRow DEF Insert
    <2>2. req'[r].pc # "save" /\ \A s \in Requests : s # r => req'[s] = req[s]
      BY <1>0, <1>5, EndStep DEF Insert
    <2> QED
      BY <1>1, <2>1, <2>2 DEF AsAsked
  <1>6. ASSUME NEW r \in Requests, Fails(r) \/ Imported(r) PROVE AsAsked' /\ NothingUndone'
    <2>1. req'[r].pc # "save" /\ \A s \in Requests : s # r => req'[s] = req[s]
      BY <1>0, <1>6, EndStep DEF Fails, Imported
    <2> QED
      BY <1>0, <1>1, <1>6, <2>1 DEF Fails, Imported, AsAsked
  <1>7. ASSUME NEW r \in Requests, NEW p \in Products, NEW e \in Edit, ReadRow(r, p, e)
        PROVE  AsAsked' /\ NothingUndone'
    <2>1. /\ req'[r].product = p /\ req'[r].copy = Overlay(row[p], e) /\ req'[r].edit = e
          /\ \A s \in Requests : s # r => req'[s] = req[s]
      BY <1>0, <1>7 DEF ReadRow, TypeOK, Slot
    <2>2. NothingUndone'
      <3> SUFFICES ASSUME NEW s \in Requests, At(s, "save")', ~req'[s].late
                   PROVE  req'[s].copy = Overlay(row[req'[s].product], req'[s].edit)
        BY <1>7 DEF ReadRow, NothingUndone, Overlay
      <3>1. CASE s = r
        BY <2>1, <3>1
      <3>2. CASE s # r
        BY <1>0, <2>1, <3>2 DEF NothingUndone, At
      <3> QED
        BY <3>1, <3>2
    <2> QED
      BY <1>0, <1>7, <2>2 DEF ReadRow, AsAsked
  <1>8. ASSUME NEW p \in Products, \A x \in Products : x # p => row'[x] = row[x],
               \A s \in Requests : req'[s].pc # "idle" => req'[s] = Late(s, p)
        PROVE  NothingUndone'
    <2> SUFFICES ASSUME NEW s \in Requests, req'[s].pc = "save", ~req'[s].late
                 PROVE  req'[s].copy = Overlay(row'[req'[s].product], req'[s].edit)
      BY DEF NothingUndone, At, Overlay
    <2>1. req'[s] = Late(s, p)
      BY <1>8
    <2>2. ~(req[s].pc = "save" /\ req[s].product = p) /\ req'[s] = req[s]
      BY <1>0, <2>1, LateShape
    <2>3. req[s].product \in Products /\ req[s].product # p
      BY <1>0, <2>2 DEF TypeOK, At
    <2> QED
      BY <1>0, <1>8, <2>2, <2>3 DEF NothingUndone, At
  <1>9. ASSUME NEW r \in Requests, SaveRow(r) PROVE AsAsked' /\ NothingUndone'
    <2>1. req[r].product \in Products
      BY <1>0, <1>9 DEF SaveRow, TypeOK
    <2>2. asked' = row'
      BY <1>0, <1>9, <2>1 DEF SaveRow, Saved, AsAsked, NothingUndone, TypeOK
    <2>3. \A s \in Requests : req'[s].pc # "idle" => req'[s] = Late(s, req[r].product)
      BY <1>9, EmptySlot DEF SaveRow
    <2>4. \A x \in Products : x # req[r].product => row'[x] = row[x]
      BY <1>0, <1>9 DEF SaveRow, TypeOK
    <2> QED
      BY <1>8, <2>1, <2>2, <2>3, <2>4 DEF AsAsked
  <1>10. ASSUME NEW p \in Products, DeleteProduct(p) PROVE AsAsked' /\ NothingUndone'
    <2>1. asked' = row'
      BY <1>0, <1>10 DEF DeleteProduct, Deleted, AsAsked
    <2>2. /\ \A s \in Requests : req'[s] = Late(s, p)
          /\ \A x \in Products : x # p => row'[x] = row[x]
      BY <1>0, <1>10 DEF DeleteProduct, Deleted, TypeOK
    <2> QED
      BY <1>8, <2>1, <2>2 DEF AsAsked
  <1>11. ASSUME NEW r \in Requests, Upload(r) PROVE AsAsked' /\ NothingUndone'
    <2>1. req'[r].pc # "save" /\ \A s \in Requests : s # r => req'[s] = req[s]
      BY <1>0, <1>11, GoStep, EmptySlot DEF Upload, Points
    <2> QED
      BY <1>0, <1>1, <1>11, <2>1 DEF Upload, AsAsked
  <1>12. ASSUME NEW r \in Requests, NEW p \in Products, NEW c \in Prices, ImportRow(r, p, c)
         PROVE  AsAsked' /\ NothingUndone'
    <2>1. asked' = row' /\ \A x \in Products : row[x] # NoRow => row'[x] = row[x]
      BY <1>0, <1>12, AddedRow DEF ImportRow
    <2>2. req'[r].pc # "save" /\ \A s \in Requests : s # r => req'[s] = req[s]
      BY <1>0, <1>12, NextRow DEF ImportRow, At
    <2> QED
      BY <1>1, <2>1, <2>2 DEF AsAsked
  <1>13. CASE Crash
    BY <1>0, <1>13, EmptySlot DEF Crash, AsAsked, NothingUndone, At
  <1> QED
    BY <1>2, <1>3, <1>4, <1>5, <1>6, <1>7, <1>9, <1>10, <1>11, <1>12, <1>13
    DEF Next, ChangeLimit, vars
----------------------------------------------------------------------------
(* The limit of products. *)

Seen == OnSale \ unseen

LEMMA Sizes ==
  /\ IsFiniteSet(Seen) /\ Cardinality(Seen) \in Nat
  /\ IsFiniteSet(OnSale) /\ Cardinality(OnSale) \in Nat /\ Cardinality(Seen) <= Cardinality(OnSale)
  /\ IsFiniteSet(Admitted) /\ Cardinality(Admitted) \in Nat
  /\ Cardinality(Admitted) <= Cardinality(Requests) /\ Cardinality(Requests) \in Nat
  <1>1. OnSale \subseteq Products /\ Seen \subseteq OnSale /\ Admitted \subseteq Requests
    BY DEF OnSale, Seen, Admitted
  <1>2. IsFiniteSet(OnSale) /\ IsFiniteSet(Admitted)
          /\ Cardinality(Admitted) <= Cardinality(Requests)
    BY <1>1, FS_Subset, CatalogAssumption
  <1> QED
    BY <1>1, <1>2, FS_Subset, FS_CardinalityType, CatalogAssumption

LEMMA SizesNext ==
  /\ IsFiniteSet(Seen') /\ Cardinality(Seen') \in Nat
  /\ IsFiniteSet(Admitted') /\ Cardinality(Admitted') \in Nat
  /\ Cardinality(Admitted') <= Cardinality(Requests)
  <1>1. Seen' \subseteq Products /\ Admitted' \subseteq Requests
    BY DEF OnSale, Seen, Admitted
  <1> QED
    BY <1>1, FS_Subset, FS_CardinalityType, CatalogAssumption

\* A step that does not add to the products that were looked at, and to those
\* that may yet be, keeps the shop within its plan.
LEMMA KeepsWithin ==
  ASSUME TypeOK, ProductsWithinPlan, given \subseteq given',
         Cardinality(Seen') + Cardinality(Admitted') <= Cardinality(Seen) + Cardinality(Admitted)
  PROVE  ProductsWithinPlan'
  <1>1. CASE NoLimit \in given
    BY <1>1 DEF ProductsWithinPlan
  <1>2. CASE NoLimit \notin given
    <2>1. PICK m \in given :
             Cardinality(Seen) + Cardinality(Admitted) + 1 <= m + Cardinality(Requests)
      BY <1>2 DEF ProductsWithinPlan, Seen
    <2>2. m \in Nat
      BY <1>2, <2>1, CatalogAssumption DEF TypeOK, AnyLimit
    <2>3. Cardinality(Seen') + Cardinality(Admitted') + 1 <= m + Cardinality(Requests)
      BY <2>1, <2>2, Sizes, SizesNext
    <2> QED
      BY <2>1, <2>3 DEF ProductsWithinPlan, Seen
  <1> QED
    BY <1>1, <1>2

LEMMA FewerWithin ==
  ASSUME TypeOK, ProductsWithinPlan, given \subseteq given', Seen' \subseteq Seen,
         Admitted' \subseteq Admitted
  PROVE  ProductsWithinPlan'
  <1>1. Cardinality(Seen') <= Cardinality(Seen) /\ Cardinality(Admitted') <= Cardinality(Admitted)
    BY Sizes, FS_Subset
  <1> QED
    BY <1>1, Sizes, SizesNext, KeepsWithin

LEMMA WithinInv == IInv /\ TypeOK' /\ [Next]_vars => ProductsWithinPlan'
  <1> SUFFICES ASSUME IInv, TypeOK', [Next]_vars PROVE ProductsWithinPlan'
    OBVIOUS
  <1> USE CatalogAssumption
  <1>0. TypeOK /\ WellFilled /\ AsAsked /\ ProductsWithinPlan
    BY DEF IInv
  <1>1. ASSUME NEW r \in Requests, req'[r].pc # "insert",
               \A s \in Requests : s # r => req'[s] = req[s]
        PROVE  Admitted' \subseteq Admitted
    BY <1>1 DEF Admitted, At
  <1>2. UNCHANGED <<row, unseen>> => Seen' \subseteq Seen
    BY DEF Seen, OnSale
  <1>3. CASE UNCHANGED <<row, req, unseen>> /\ given \subseteq given'
    <2>1. Admitted' \subseteq Admitted
      BY <1>3 DEF Admitted, At
    <2> QED
      BY <1>0, <1>2, <1>3, <2>1, FewerWithin
  <1>4. ASSUME NEW r \in Requests, NEW pc \in Points \ {"insert"}, NEW m \in AnyLimit, Go(r, pc, m),
               UNCHANGED <<row, unseen, given>>
        PROVE  ProductsWithinPlan'
    <2>1. Admitted' \subseteq Admitted
      BY <1>0, <1>1, <1>4, GoStep
    <2> QED
      BY <1>0, <1>2, <1>4, <2>1, FewerWithin
  <1>5. ASSUME NEW r \in Requests, ReadLimit(r) PROVE ProductsWithinPlan'
    <2>1. CASE limit = NoLimit
      BY <1>0, <1>5, <2>1 DEF ReadLimit, TypeOK, ProductsWithinPlan
    <2>2. CASE limit # NoLimit
      <3>1. PICK pc \in {"count", "blind"}, m \in AnyLimit : Go(r, pc, m)
        BY <1>0, <1>5, <2>2, EmptySlot DEF ReadLimit, TypeOK
      <3> QED
        BY <1>4, <1>5, <3>1 DEF ReadLimit, Points
    <2> QED
      BY <2>1, <2>2
  <1>6. ASSUME NEW r \in Requests, Count(r) PROVE ProductsWithinPlan'
    <2>1. CASE Room(r)
      <3> DEFINE m == req[r].limit
      <3>1. m \in given /\ m \in Nat /\ Cardinality(OnSale) < m
        BY <1>0, <1>6, <2>1 DEF Count, WellFilled, Room
      <3>2. Seen' = Seen /\ given' = given
        BY <1>6 DEF Count, Seen, OnSale
      <3> HIDE DEF m
      <3>3. Cardinality(Seen') + Cardinality(Admitted') + 1 <= m + Cardinality(Requests)
        BY <3>1, <3>2, Sizes, SizesNext
      <3> QED
        BY <3>1, <3>2, <3>3 DEF ProductsWithinPlan, Seen
    <2>2. CASE ~Room(r)
      <3>1. PICK pc \in {"idle", "blind"} : Go(r, pc, NoLimit)
        BY <1>6, <2>2 DEF Count, End
      <3> QED
        BY <1>4, <1>6, <3>1, EmptySlot DEF Count, Points
    <2> QED
      BY <2>1, <2>2
  <1>7. ASSUME NEW r \in Requests, NEW p \in Products, NEW c \in Prices, Insert(r, p, c)
        PROVE  ProductsWithinPlan'
    <2>1. req'[r].pc = "idle" /\ \A s \in Requests : s # r => req'[s] = req[s]
      BY <1>0, <1>7, EndStep DEF Insert
    <2>2. OnSale' \subseteq OnSale \cup {p}
      BY <1>0, <1>7, AddedRow DEF Insert, OnSale
    <2>3. CASE At(r, "blind")
      <3>1. Seen' \subseteq Seen
        BY <1>7, <2>2, <2>3 DEF Insert, Seen
      <3> QED
        BY <1>0, <1>1, <1>7, <2>1, <3>1, FewerWithin DEF Insert
    <2>4. CASE At(r, "insert")
      <3>1. Seen' \subseteq Seen \cup {p}
        BY <1>7, <2>2, <2>4 DEF Insert, Seen, At
      <3>2. Cardinality(Seen') <= Cardinality(Seen) + 1
        <4>1. /\ IsFiniteSet(Seen \cup {p})
              /\ \/ Cardinality(Seen \cup {p}) = Cardinality(Seen)
                 \/ Cardinality(Seen \cup {p}) = Cardinality(Seen) + 1
          BY Sizes, FS_AddElement
        <4>2. Cardinality(Seen') <= Cardinality(Seen \cup {p})
          BY <3>1, <4>1, FS_Subset
        <4> QED
          BY <4>1, <4>2, Sizes, SizesNext
      <3>3. r \in Admitted /\ Admitted' \subseteq Admitted \ {r}
        BY <2>1, <2>4 DEF Admitted, At
      <3>4. Cardinality(Admitted') <= Cardinality(Admitted) - 1
        <4>1. Cardinality(Admitted \ {r}) = Cardinality(Admitted) - 1 /\ IsFiniteSet(Admitted \ {r})
          BY <3>3, Sizes, FS_RemoveElement
        <4> QED
          BY <3>3, <4>1, FS_Subset
      <3>5. Cardinality(Seen') + Cardinality(Admitted') <= Cardinality(Seen) + Cardinality(Admitted)
        BY <3>2, <3>4, Sizes, SizesNext
      <3> QED
        BY <1>0, <1>7, <3>5, KeepsWithin DEF Insert
    <2> QED
      BY <1>7, <2>3, <2>4 DEF Insert
  <1>8. ASSUME NEW r \in Requests, Fails(r) \/ Imported(r) \/ Upload(r) PROVE ProductsWithinPlan'
    BY <1>4, <1>8, EmptySlot DEF Fails, Imported, Upload, End, Points
  <1>9. ASSUME NEW r \in Requests, NEW p \in Products, NEW e \in Edit, ReadRow(r, p, e)
        PROVE  ProductsWithinPlan'
    <2>1. req'[r].pc # "insert" /\ \A s \in Requests : s # r => req'[s] = req[s]
      BY <1>0, <1>9 DEF ReadRow, TypeOK, Slot
    <2> QED
      BY <1>0, <1>1, <1>2, <1>9, <2>1, FewerWithin DEF ReadRow
  <1>10. ASSUME NEW r \in Requests, SaveRow(r) PROVE ProductsWithinPlan'
    <2> DEFINE p == req[r].product
               c == req[r].copy
    <2>1. /\ p \in Products /\ c.sale \in {"on", "off"} /\ row[p].sale \in {"on", "off"}
      BY <1>0, <1>10, RowShape DEF SaveRow, TypeOK, WellFilled, Request, At
    <2>2. row' = [row EXCEPT ![p] = c] /\ given' = given
      BY <1>10 DEF SaveRow, Saved
    <2>3. row'[p] = c /\ \A x \in Products : x # p => row'[x] = row[x]
      BY <1>0, <2>1, <2>2 DEF TypeOK
    <2>4. /\ c.sale = "off" => unseen' = unseen \ {p}
          /\ row[p].sale = "off" /\ c.sale = "on" => unseen' = unseen \cup {p}
          /\ row[p].sale = "on" /\ c.sale = "on" => unseen' = unseen
      BY <1>10 DEF SaveRow
    <2> HIDE DEF p, c
    <2>5. Seen' \subseteq Seen
      BY <2>1, <2>3, <2>4 DEF Seen, OnSale
    <2>6. Admitted' \subseteq Admitted
      BY <1>0, <1>10, EmptySlot, LateShape DEF SaveRow, Admitted, At
    <2> QED
      BY <1>0, <2>2, <2>5, <2>6, FewerWithin
  <1>11. ASSUME NEW p \in Products, DeleteProduct(p) PROVE ProductsWithinPlan'
    <2>1. row'[p].sale = "off" /\ \A x \in Products : x # p => row'[x] = row[x]
      BY <1>0, <1>11, RowShape DEF DeleteProduct, Deleted, Found, TypeOK, Row
    <2>2. Seen' \subseteq Seen
      BY <1>11, <2>1 DEF DeleteProduct, Seen, OnSale
    <2>3. Admitted' \subseteq Admitted
      BY <1>0, <1>11, LateShape DEF DeleteProduct, Admitted, At
    <2> QED
      BY <1>0, <1>11, <2>2, <2>3, FewerWithin DEF DeleteProduct
  <1>12. ASSUME NEW r \in Requests, NEW p \in Products, NEW c \in Prices, ImportRow(r, p, c)
         PROVE  ProductsWithinPlan'
    <2>1. OnSale' \subseteq OnSale \cup {p} /\ unseen' = unseen \cup {p}
      BY <1>0, <1>12, AddedRow DEF ImportRow, OnSale
    <2>2. Seen' \subseteq Seen
      BY <2>1 DEF Seen
    <2>3. req'[r].pc # "insert" /\ \A s \in Requests : s # r => req'[s] = req[s]
      BY <1>0, <1>12, NextRow DEF ImportRow, At
    <2> QED
      BY <1>0, <1>1, <1>12, <2>2, <2>3, FewerWithin DEF ImportRow
  <1>13. CASE Crash
    <2>1. Admitted' \subseteq Admitted
      BY <1>13, EmptySlot DEF Crash, Admitted, At
    <2> QED
      BY <1>0, <1>2, <1>13, <2>1, FewerWithin DEF Crash
  <1> QED
    BY <1>3, <1>5, <1>6, <1>7, <1>8, <1>9, <1>10, <1>11, <1>12, <1>13 DEF Next, ChangeLimit, vars
----------------------------------------------------------------------------
(* The rows of the file. *)

LEMMA RowSizes ==
  ASSUME NEW j, NEW k
  PROVE  /\ IsFiniteSet(Beyond(k)) /\ Cardinality(Beyond(k)) \in Nat
         /\ IsFiniteSet(UpTo(k)) /\ Cardinality(UpTo(k)) \in Nat
         /\ IsFiniteSet(Between(j, k)) /\ Cardinality(Between(j, k)) \in Nat
  <1>1. Beyond(k) \subseteq Requests /\ UpTo(k) \subseteq Requests
          /\ Between(j, k) \subseteq Requests
    BY DEF Beyond, UpTo, Between
  <1> QED
    BY <1>1, FS_Subset, FS_CardinalityType, CatalogAssumption

LEMMA RowSizesNext ==
  ASSUME NEW j, NEW k
  PROVE  /\ Cardinality(Beyond(k)') \in Nat /\ Cardinality(UpTo(k)') \in Nat
         /\ Cardinality(Between(j, k)') \in Nat
  <1>1. Beyond(k)' \subseteq Requests /\ UpTo(k)' \subseteq Requests
          /\ Between(j, k)' \subseteq Requests
    BY DEF Beyond, UpTo, Between
  <1> QED
    BY <1>1, FS_Subset, FS_CardinalityType, CatalogAssumption

\* A set that one request joins, or leaves.
LEMMA Joined ==
  ASSUME NEW S, IsFiniteSet(S), NEW r, NEW T, T \subseteq S \cup {r}
  PROVE  Cardinality(T) <= Cardinality(S) + 1
  <1>1. /\ IsFiniteSet(S \cup {r})
        /\ \/ Cardinality(S \cup {r}) = Cardinality(S)
           \/ Cardinality(S \cup {r}) = Cardinality(S) + 1
    BY FS_AddElement
  <1>2. Cardinality(T) <= Cardinality(S \cup {r}) /\ Cardinality(T) \in Nat
    BY <1>1, FS_Subset, FS_CardinalityType
  <1>3. Cardinality(S) \in Nat
    BY FS_CardinalityType
  <1> QED
    BY <1>1, <1>2, <1>3

LEMMA LeftSet ==
  ASSUME NEW S, IsFiniteSet(S), NEW r \in S, NEW T, T \subseteq S \ {r}
  PROVE  Cardinality(T) + 1 <= Cardinality(S)
  <1>1. IsFiniteSet(S \ {r}) /\ Cardinality(S \ {r}) = Cardinality(S) - 1
    BY FS_RemoveElement
  <1>2. Cardinality(T) <= Cardinality(S \ {r}) /\ Cardinality(T) \in Nat
    BY <1>1, FS_Subset, FS_CardinalityType
  <1>3. Cardinality(S) \in Nat
    BY FS_CardinalityType
  <1> QED
    BY <1>1, <1>2, <1>3

LEMMA RowsInv == IInv /\ TypeOK' /\ [Next]_vars => RowsAreCounted'
  <1> SUFFICES ASSUME IInv, TypeOK', [Next]_vars,
                      NEW k \in 1 .. FileRows, NEW j \in 1 .. k
               PROVE  /\ whole' + Cardinality(Beyond(k)') <= copies'[k]
                      /\ copies'[k] + Cardinality(UpTo(k)') <= tries'
                      /\ copies'[k] + Cardinality(Between(j, k)') <= copies'[j]
    <2>1. \A k \in 1 .. FileRows : k \in 1 .. k
      BY CatalogAssumption
    <2> QED
      BY <2>1 DEF RowsAreCounted, Beyond, UpTo, Between, At
  <1> USE CatalogAssumption
  <1> DEFINE Goal == /\ whole' + Cardinality(Beyond(k)') <= copies'[k]
                     /\ copies'[k] + Cardinality(UpTo(k)') <= tries'
                     /\ copies'[k] + Cardinality(Between(j, k)') <= copies'[j]
  <1>0. /\ TypeOK /\ j \in 1 .. FileRows /\ j <= k /\ j \in Nat /\ k \in Nat
        /\ whole \in Nat /\ tries \in Nat /\ copies[k] \in Nat /\ copies[j] \in Nat
        /\ whole' \in Nat /\ tries' \in Nat /\ copies'[k] \in Nat /\ copies'[j] \in Nat
    BY DEF IInv, TypeOK
  <1>1. /\ whole + Cardinality(Beyond(k)) <= copies[k]
        /\ copies[k] + Cardinality(UpTo(k)) <= tries
        /\ copies[k] + Cardinality(Between(j, k)) <= copies[j]
    BY <1>0 DEF IInv, RowsAreCounted
  <1>2. ASSUME UNCHANGED <<whole, copies, tries>>,
               \A s \in Requests : req'[s].pc = "rows" =>
                   req[s].pc = "rows" /\ req'[s].next = req[s].next
        PROVE  Goal
    <2>1. /\ Beyond(k)' \subseteq Beyond(k) /\ UpTo(k)' \subseteq UpTo(k)
          /\ Between(j, k)' \subseteq Between(j, k)
      BY <1>2 DEF Beyond, UpTo, Between, At
    <2>2. /\ Cardinality(Beyond(k)') <= Cardinality(Beyond(k))
          /\ Cardinality(UpTo(k)') <= Cardinality(UpTo(k))
          /\ Cardinality(Between(j, k)') <= Cardinality(Between(j, k))
      BY <2>1, RowSizes, FS_Subset
    <2> QED
      BY <1>0, <1>1, <1>2, <2>2, RowSizes, RowSizesNext
  <1>3. ASSUME NEW r \in Requests, req'[r].pc # "rows",
               \A s \in Requests : s # r => req'[s] = req[s],
               UNCHANGED <<whole, copies, tries>>
        PROVE  Goal
    BY <1>2, <1>3
  <1>4. ASSUME NEW r \in Requests, NEW pc \in Points \ {"rows"}, NEW m \in AnyLimit, Go(r, pc, m),
               UNCHANGED <<whole, copies, tries>>
        PROVE  Goal
    BY <1>0, <1>3, <1>4, GoStep
  <1>5. ASSUME NEW r \in Requests, ReadLimit(r) PROVE Goal
    <2>1. PICK pc \in {"insert", "count", "blind"}, m \in AnyLimit : Go(r, pc, m)
      BY <1>0, <1>5, EmptySlot DEF ReadLimit, TypeOK
    <2> QED
      BY <1>4, <1>5, <2>1 DEF ReadLimit, Points
  <1>6. ASSUME NEW r \in Requests, Count(r) PROVE Goal
    <2>1. PICK pc \in {"insert", "idle", "blind"} : Go(r, pc, NoLimit)
      BY <1>6 DEF Count, End
    <2> QED
      BY <1>4, <1>6, <2>1, EmptySlot DEF Count, Points
  <1>7. ASSUME NEW r \in Requests, End(r), UNCHANGED <<whole, copies, tries>> PROVE Goal
    BY <1>4, <1>7, EmptySlot DEF End, Points
  <1>8. ASSUME NEW r \in Requests, NEW p \in Products, NEW e \in Edit, ReadRow(r, p, e) PROVE Goal
    <2>1. req'[r].pc # "rows" /\ \A s \in Requests : s # r => req'[s] = req[s]
      BY <1>0, <1>8 DEF ReadRow, TypeOK, Slot
    <2> QED
      BY <1>3, <1>8, <2>1 DEF ReadRow
  <1>9. ASSUME NEW r \in Requests, SaveRow(r) PROVE Goal
    <2>1. \A s \in Requests : req'[s].pc = "rows" =>
             req[s].pc = "rows" /\ req'[s].next = req[s].next
      BY <1>0, <1>9, EmptySlot, LateShape DEF SaveRow
    <2> QED
      BY <1>2, <1>9, <2>1 DEF SaveRow
  <1>10. ASSUME NEW p \in Products, DeleteProduct(p) PROVE Goal
    <2>1. \A s \in Requests : req'[s].pc = "rows" =>
             req[s].pc = "rows" /\ req'[s].next = req[s].next
      BY <1>0, <1>10, LateShape DEF DeleteProduct
    <2> QED
      BY <1>2, <1>10, <2>1 DEF DeleteProduct
  <1>11. ASSUME NEW r \in Requests, Upload(r) PROVE Goal
    <2>1. /\ req'[r].pc = "rows" /\ req'[r].next = 1
             /\ \A s \in Requests : s # r => req'[s] = req[s]
          /\ UNCHANGED <<whole, copies>> /\ tries' = tries + 1
      BY <1>0, <1>11, GoStep, EmptySlot DEF Upload, Points
    <2>2. /\ Beyond(k)' \subseteq Beyond(k) /\ UpTo(k)' \subseteq UpTo(k) \cup {r}
          /\ Between(j, k)' \subseteq Between(j, k)
      BY <1>0, <2>1 DEF Beyond, UpTo, Between, At
    <2>3. /\ Cardinality(Beyond(k)') <= Cardinality(Beyond(k))
          /\ Cardinality(Between(j, k)') <= Cardinality(Between(j, k))
      BY <2>2, RowSizes, FS_Subset
    <2>4. Cardinality(UpTo(k)') <= Cardinality(UpTo(k)) + 1
      BY <2>2, RowSizes, Joined
    <2> QED
      BY <1>0, <1>1, <2>1, <2>3, <2>4, RowSizes, RowSizesNext
  <1>12. ASSUME NEW r \in Requests, Imported(r) PROVE Goal
    <2>1. /\ req'[r].pc = "idle" /\ \A s \in Requests : s # r => req'[s] = req[s]
          /\ UNCHANGED <<tries, copies>> /\ whole' = whole + 1
      BY <1>0, <1>12, EndStep DEF Imported
    <2>2. r \in Beyond(k)
      BY <1>0, <1>12 DEF Imported, Beyond, Done, TypeOK, Request
    <2>3. /\ Beyond(k)' \subseteq Beyond(k) \ {r} /\ UpTo(k)' \subseteq UpTo(k)
          /\ Between(j, k)' \subseteq Between(j, k)
      BY <2>1 DEF Beyond, UpTo, Between, At
    <2>4. /\ Cardinality(UpTo(k)') <= Cardinality(UpTo(k))
          /\ Cardinality(Between(j, k)') <= Cardinality(Between(j, k))
      BY <2>3, RowSizes, FS_Subset
    <2>5. Cardinality(Beyond(k)') + 1 <= Cardinality(Beyond(k))
      BY <2>2, <2>3, RowSizes, LeftSet
    <2> QED
      BY <1>0, <1>1, <2>1, <2>4, <2>5, RowSizes, RowSizesNext
  <1>13. ASSUME NEW r \in Requests, NEW p \in Products, NEW c \in Prices, ImportRow(r, p, c)
         PROVE Goal
    <2> DEFINE n == req[r].next
    <2>1. /\ req[r].pc = "rows" /\ n \in 1 .. FileRows /\ UNCHANGED <<whole, tries>>
          /\ copies' = [copies EXCEPT ![n] = @ + 1]
      BY <1>0, <1>13 DEF ImportRow, At, TypeOK, Request
    <2>2. /\ req'[r].pc = "rows" /\ req'[r].next = n + 1
          /\ \A s \in Requests : s # r => req'[s] = req[s]
      <3>1. req' = [req EXCEPT ![r].next = req[r].next + 1] /\ req[r].next <= FileRows
        BY <1>13 DEF ImportRow
      <3> QED
        BY <1>0, <2>1, <3>1, NextRow
    <2>3. /\ copies'[k] = IF k = n THEN copies[k] + 1 ELSE copies[k]
          /\ copies'[j] = IF j = n THEN copies[j] + 1 ELSE copies[j]
      BY <1>0, <2>1 DEF TypeOK
    <2>4. Cardinality(Beyond(k)') <= IF k = n
            THEN Cardinality(Beyond(k)) + 1 ELSE Cardinality(Beyond(k))
      <3>1. CASE k = n
        <4>1. Beyond(k)' \subseteq Beyond(k) \cup {r}
          BY <2>2 DEF Beyond, At
        <4> QED
          BY <3>1, <4>1, RowSizes, Joined
      <3>2. CASE k # n
        <4>1. Beyond(k)' \subseteq Beyond(k)
          BY <1>0, <2>1, <2>2, <3>2 DEF Beyond, At
        <4> QED
          BY <3>2, <4>1, RowSizes, FS_Subset
      <3> QED
        BY <3>1, <3>2
    <2>5. IF k = n THEN Cardinality(UpTo(k)') + 1 <= Cardinality(UpTo(k))
                   ELSE Cardinality(UpTo(k)') <= Cardinality(UpTo(k))
      <3>1. CASE k = n
        <4>1. r \in UpTo(k) /\ UpTo(k)' \subseteq UpTo(k) \ {r}
          BY <1>0, <2>1, <2>2, <3>1 DEF UpTo, At
        <4> QED
          BY <3>1, <4>1, RowSizes, LeftSet
      <3>2. CASE k # n
        <4>1. UpTo(k)' \subseteq UpTo(k)
          BY <1>0, <2>1, <2>2, <3>2 DEF UpTo, At
        <4> QED
          BY <3>2, <4>1, RowSizes, FS_Subset
      <3> QED
        BY <3>1, <3>2
    <2>6. copies'[k] + Cardinality(Between(j, k)') <= copies'[j]
      <3>1. CASE j = k
        <4>1. Between(j, k)' = {}
          <5>1. \A s \in Requests : req'[s].next \in Nat
            BY DEF TypeOK, Request
          <5> QED
            BY <1>0, <3>1, <5>1 DEF Between
        <4>2. Cardinality(Between(j, k)') = 0
          BY <4>1, FS_EmptySet
        <4> QED
          BY <1>0, <3>1, <4>2
      <3>2. CASE j < k /\ k = n
        <4>1. r \in Between(j, k) /\ Between(j, k)' \subseteq Between(j, k) \ {r}
          BY <1>0, <2>1, <2>2, <3>2 DEF Between, At
        <4>2. Cardinality(Between(j, k)') + 1 <= Cardinality(Between(j, k))
          BY <4>1, RowSizes, LeftSet
        <4> QED
          BY <1>0, <1>1, <2>3, <3>2, <4>2, RowSizes, RowSizesNext
      <3>3. CASE j < k /\ j = n
        <4>1. Between(j, k)' \subseteq Between(j, k) \cup {r}
          BY <2>2 DEF Between, At
        <4>2. Cardinality(Between(j, k)') <= Cardinality(Between(j, k)) + 1
          BY <4>1, RowSizes, Joined
        <4> QED
          BY <1>0, <1>1, <2>3, <3>3, <4>2, RowSizes, RowSizesNext
      <3>4. CASE j < k /\ k # n /\ j # n
        <4>1. Between(j, k)' \subseteq Between(j, k)
          BY <1>0, <2>1, <2>2, <3>4 DEF Between, At
        <4>2. Cardinality(Between(j, k)') <= Cardinality(Between(j, k))
          BY <4>1, RowSizes, FS_Subset
        <4> QED
          BY <1>0, <1>1, <2>3, <3>4, <4>2, RowSizes, RowSizesNext
      <3> QED
        BY <1>0, <3>1, <3>2, <3>3, <3>4
    <2> QED
      BY <1>0, <1>1, <2>1, <2>3, <2>4, <2>5, <2>6, RowSizes, RowSizesNext
  <1>14. ASSUME NEW r \in Requests, NEW p \in Products, NEW c \in Prices, Insert(r, p, c) PROVE Goal
    BY <1>7, <1>14 DEF Insert
  <1>15. CASE Crash
    BY <1>2, <1>15, EmptySlot DEF Crash
  <1>16. CASE UNCHANGED <<whole, copies, tries, req>>
    BY <1>2, <1>16
  <1> QED
    BY <1>5, <1>6, <1>7, <1>8, <1>9, <1>10, <1>11, <1>12, <1>13, <1>14, <1>15, <1>16
    DEF Next, Fails, ChangeLimit, vars
----------------------------------------------------------------------------
LEMMA StepInv == IInv /\ [Next]_vars => IInv'
  BY TypeInv, AsAskedInv, WithinInv, RowsInv DEF IInv

\* For any number of products and requests: rows, requests and counts stay
\* well-formed, and an update under way has a product that is there.
THEOREM Typed == Spec => []TypeOK
  <1>1. IInv => TypeOK
    BY DEF IInv
  <1> QED
    BY InitInv, StepInv, <1>1, PTL DEF Spec

\* A shop outgrows the widest limit it ever had by fewer products than requests
\* run at once, apart from those that were put on sale unseen.
THEOREM Within_Plan == Spec => []ProductsWithinPlan
  <1>1. IInv => ProductsWithinPlan
    BY DEF IInv
  <1> QED
    BY InitInv, StepInv, <1>1, PTL DEF Spec

\* Every product is what its requests ask for, but for updates that were overtaken.
THEOREM As_Asked == Spec => []AsAsked
  <1>1. IInv => AsAsked
    BY DEF IInv
  <1> QED
    BY InitInv, StepInv, <1>1, PTL DEF Spec

\* A row of the file is there at least once for every success and at most once for
\* every try, and no more often than a row before it.
THEOREM Imported_In_Order == Spec => []ImportedInOrder
  <1>1. IInv => ImportedInOrder
    <2> SUFFICES ASSUME IInv, NEW k \in 1 .. FileRows, NEW j \in 1 .. k
                 PROVE  whole <= copies[k] /\ copies[k] <= tries /\ copies[k] <= copies[j]
      <3>1. \A k \in 1 .. FileRows : k \in 1 .. k
        BY CatalogAssumption
      <3> QED
        BY <3>1 DEF ImportedInOrder
    <2>1. /\ whole + Cardinality(Beyond(k)) <= copies[k]
          /\ copies[k] + Cardinality(UpTo(k)) <= tries
          /\ copies[k] + Cardinality(Between(j, k)) <= copies[j]
      BY DEF IInv, RowsAreCounted
    <2>2. j \in 1 .. FileRows
      BY CatalogAssumption
    <2>3. /\ whole \in Nat /\ tries \in Nat /\ copies[k] \in Nat /\ copies[j] \in Nat
      BY <2>2, CatalogAssumption DEF IInv, TypeOK
    <2> QED
      BY <2>1, <2>3, RowSizes
  <1> QED
    BY InitInv, StepInv, <1>1, PTL DEF Spec

\* A deleted product comes back on sale only by a request that asks for it, or had
\* read the row before.
THEOREM Gone_Unless_Undone == Spec => GoneUnlessUndone
  <1> DEFINE Back(p) == \E r \in Requests : /\ At(r, "save") /\ req[r].product = p
                                            /\ req[r].edit.sale = "on" \/ req[r].late
  <1>1. ASSUME IInv, [Next]_vars, NEW p \in Products, row[p].sale = "off", row'[p].sale = "on"
        PROVE  Back(p)
    <2>0. TypeOK /\ WellFilled /\ AsAsked /\ NothingUndone
      BY <1>1 DEF IInv
    <2>1. row[p] # NoRow
      BY <1>1 DEF NoRow
    <2>2. ASSUME NEW x \in Products, NEW c \in Prices, Added(x, c) PROVE FALSE
      BY <1>1, <2>0, <2>1, <2>2, AddedRow
    <2>3. ASSUME NEW x \in Products, DeleteProduct(x) PROVE FALSE
      <3>1. row'[p].sale = row[p].sale
        BY <1>1, <2>0, <2>3, RowShape DEF DeleteProduct, Deleted, TypeOK, Row
      <3> QED
        BY <1>1, <3>1
    <2>4. ASSUME NEW r \in Requests, SaveRow(r) PROVE Back(p)
      <3>1. req[r].product = p /\ At(r, "save") /\ req[r].copy.sale = "on"
        BY <1>1, <2>0, <2>4 DEF SaveRow, Saved, TypeOK
      <3>2. CASE ~req[r].late
        <4>1. req[r].copy = Overlay(row[p], req[r].edit)
          BY <2>0, <3>1, <3>2 DEF NothingUndone
        <4>2. req[r].edit \in Edit /\ row[p] \in Row
          BY <2>0 DEF TypeOK, Request
        <4>3. req[r].copy.sale = IF req[r].edit.sale = None THEN row[p].sale ELSE req[r].edit.sale
          BY <2>1, <4>1, <4>2, OverlayShape
        <4>4. req[r].edit.sale = "on"
          BY <1>1, <3>1, <4>3
        <4> QED
          BY <3>1, <4>4
      <3> QED
        BY <3>1, <3>2
    <2>5. row' # row
      BY <1>1
    <2> QED
      BY <1>1, <2>2, <2>3, <2>4, <2>5 DEF Next, ChangeLimit, ReadLimit, Count, Insert, Fails,
         ReadRow, Upload, ImportRow, Imported, Crash, vars
  <1>2. IInv /\ [Next]_vars =>
           [\A p \in Products : row[p].sale = "off" /\ row'[p].sale = "on" =>
               \E r \in Requests : /\ At(r, "save") /\ req[r].product = p
                                   /\ req[r].edit.sale = "on" \/ req[r].late]_vars
    <2>1. ASSUME IInv, [Next]_vars
          PROVE  \A p \in Products : row[p].sale = "off" /\ row'[p].sale = "on" => Back(p)
      BY <1>1, <2>1
    <2> QED
      BY <2>1, Zenon
  <1> QED
    BY InitInv, StepInv, <1>2, PTL DEF Spec, GoneUnlessUndone
=============================================================================
