---------------------------- MODULE MCConnPool ------------------------------
(* Requests and connections of ConnPool for TLC. *)
EXTENDS ConnPool, TLC

CONSTANTS login, list, product, pay, import

\* One of each kind.
KindOf == (login :> "public") @@ (list :> "plain") @@ (product :> "product")
          @@ (pay :> "transaction") @@ (import :> "import")
KindOfThese == [r \in Requests |-> KindOf[r]]
Statements == [r \in Requests |-> CASE r \in {login, list} -> 1
                                    [] r \in {pay, import} -> 2
                                    [] r = product -> 3]
=============================================================================
