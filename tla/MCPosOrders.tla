---------------------------- MODULE MCPosOrders ----------------------------
(* Orders, payments and shifts for TLC; six units make a cent, LAK's rate is 4. *)
EXTENDS ShiftSummary, TLC

CONSTANTS s1, s2, h1, h2

In(method, currency, amount) ==
    [method |-> method, currency |-> currency, amount |-> amount]

\* At rate 2, three lines that pay two cents exactly, of which the columns keep
\* one: 8 is kept as 6 and each 2 as 0.  Their second method has no figure.
ThreeLines == <<In("cash", "LAK", 2), In("voucher", "THB", 1), In("qr", "THB", 1)>>

\* Enough but for the change, which is a line below 0.
WithChange == <<In("transfer", "LAK", 4), In("cash", "LAK", -2)>>

Payloads == {ThreeLines, WithChange, <<>>}

\* Two cents, and nothing to be paid.
Prices == {12, 0}
AllMethods == {"cash", "qr", "transfer", "voucher"}

\* Sound: no definition, invariant or action property prefers one id to another.
Interchangeable == Permutations({s1, s2}) \cup Permutations({h1, h2})
============================================================================
