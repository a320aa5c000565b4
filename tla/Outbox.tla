------------------------------- MODULE Outbox --------------------------------
(***************************************************************************)
(* What a tablet's offline queue and the server promise of the operations  *)
(* together: each comes to the server in the order it was queued, its row  *)
(* shows as synced only what the server applied and as failed only what it *)
(* once left out, a row is deleted only while it shows synced, and then it *)
(* is gone for good.  An operation can be applied again, and be both       *)
(* applied and left out, as requests overlap and answers get lost.         *)
(***************************************************************************)
EXTENDS Naturals

CONSTANT Ops   \* numbered in the order they are queued

VARIABLE outbox

Entry == [row: {"none", "pending", "synced", "failed", "deleted"},
          applied: Nat, refused: BOOLEAN]

Init == outbox = [o \in Ops |-> [row |-> "none", applied |-> 0, refused |-> FALSE]]

Write(o, row, applied, refused) ==
    outbox' = [outbox EXCEPT ![o] = [row |-> row, applied |-> applied, refused |-> refused]]

Queue(o) ==
    /\ outbox[o].row = "none"
    /\ \A x \in Ops : x < o => outbox[x].row # "none"
    /\ Write(o, "pending", outbox[o].applied, outbox[o].refused)

\* The server comes to an operation when it has dealt with those before it.
Settled(o) == outbox[o].applied > 0 \/ outbox[o].refused
Turn(o) == outbox[o].row # "none" /\ \A x \in Ops : x < o => Settled(x)

Apply(o) ==
    /\ Turn(o)
    /\ Write(o, outbox[o].row, outbox[o].applied + 1, outbox[o].refused)

\* In conflict or not applied, as far as the server can tell.
Refuse(o) ==
    /\ Turn(o)
    /\ \E n \in {0, 1} : Write(o, outbox[o].row, outbox[o].applied + n, TRUE)

\* Rows of the queue, while they are there.
Kept(o) == outbox[o].row \in {"pending", "synced", "failed"}

Confirm(o) ==
    /\ Kept(o) /\ outbox[o].applied > 0
    /\ Write(o, "synced", outbox[o].applied, outbox[o].refused)

GiveUp(o) ==
    /\ Kept(o) /\ outbox[o].refused
    /\ Write(o, "failed", outbox[o].applied, outbox[o].refused)

Clear(old) ==
    /\ \A o \in old : outbox[o].row = "synced"
    /\ outbox' = [o \in Ops |-> IF o \in old THEN [outbox[o] EXCEPT !.row = "deleted"]
                                ELSE outbox[o]]

Next ==
    \/ \E o \in Ops : Queue(o) \/ Apply(o) \/ Refuse(o) \/ Confirm(o) \/ GiveUp(o)
    \/ \E old \in SUBSET Ops : Clear(old)

Spec == Init /\ [][Next]_outbox
=============================================================================
