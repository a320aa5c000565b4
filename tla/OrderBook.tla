----------------------------- MODULE OrderBook -----------------------------
(***************************************************************************)
(* What the order endpoints promise of one order: it is placed once, and   *)
(* then each settlement, void and refund is one indivisible entry that     *)
(* also sets the phase the order shows.  The status a request saw when it  *)
(* started does not bind it, so an order can be settled or refunded twice, *)
(* but nothing is given back for an order that was never settled, and no   *)
(* order becomes open again.  An order that costs nothing is settled from  *)
(* the start.                                                              *)
(***************************************************************************)
EXTENDS Naturals

CONSTANT Orders

VARIABLE book

Entry == [phase: {"none", "open", "paid", "voided", "refunded"},
          settled: BOOLEAN, voids: Nat, givenBack: Nat]

Init == book = [o \in Orders |->
                   [phase |-> "none", settled |-> FALSE, voids |-> 0, givenBack |-> 0]]

Write(o, phase, settled, voids, givenBack) ==
    book' = [book EXCEPT ![o] = [phase |-> phase, settled |-> settled,
                                 voids |-> voids, givenBack |-> givenBack]]

Place(o) ==
    /\ book[o].phase = "none"
    /\ \E free \in BOOLEAN : Write(o, "open", free, 0, 0)

Settle(o) ==
    /\ book[o].phase # "none"
    /\ Write(o, "paid", TRUE, book[o].voids, book[o].givenBack)

Cancel(o) ==
    /\ book[o].phase # "none"
    /\ Write(o, "voided", book[o].settled, book[o].voids + 1, book[o].givenBack)

GiveBack(o) ==
    /\ book[o].settled
    /\ Write(o, "refunded", TRUE, book[o].voids, book[o].givenBack + 1)

Next == \E o \in Orders : Place(o) \/ Settle(o) \/ Cancel(o) \/ GiveBack(o)

Spec == Init /\ [][Next]_book
============================================================================
