----------------------------- MODULE MCKdsHub -------------------------------
(* Devices and tenants of KdsHub for TLC. *)
EXTENDS KdsHub, TLC

CONSTANTS a1, a2, b1, shopA, shopB

\* Two devices of one shop and one of another; a1 sends three messages.
TwoShops == (a1 :> shopA) @@ (a2 :> shopA) @@ (b1 :> shopB)
OneBusy == (a1 :> 3) @@ (a2 :> 0) @@ (b1 :> 1)

\* Three devices of one shop, one of which sends.
ThreeDevices == (a1 :> shopA) @@ (a2 :> shopA) @@ (b1 :> shopA)
OneTalks == (a1 :> 2) @@ (a2 :> 0) @@ (b1 :> 0)

\* Two devices of one shop, both of which send.
OneShop == (a1 :> shopA) @@ (a2 :> shopA)
BothTalk == (a1 :> 2) @@ (a2 :> 1)
=============================================================================
