------------------------------ MODULE ConnPool ------------------------------
(***************************************************************************)
(* The database connections of the backend.                                *)
(*                                                                         *)
(* TenantIsolation (internal/middleware/tenant.go) acquires a connection   *)
(* for each request of a signed-in user and keeps it until the handler     *)
(* returns.  No handler uses it: every statement of the repositories       *)
(* acquires another one from the same pool, a transaction keeps one, and   *)
(* the CSV import acquires one more for each row while its transaction is  *)
(* open.  Requests wait for connections in the order they ask, and stop    *)
(* waiting when their context ends, but for the plan lookup of a new       *)
(* product, which has a context of its own that never ends.                *)
(*                                                                         *)
(* A definition named X_Y is X with the bug Y; no action uses it.          *)
(***************************************************************************)
EXTENDS Naturals, Sequences, FiniteSets, SequencesExt

CONSTANTS
    Requests,
    Conns,      \* the pool (MaxConns, 25)
    Kind,       \* what each request runs: see Kinds
    Load,       \* bound: how many statements each request runs
    Idle        \* the owner of a connection that is in the pool

\* Login and the like run before TenantIsolation; the others run statements,
\* or a transaction after the statements that check the request, or an import.
\* A new product is a plain request that starts with the lookup of the plan.
Kinds == {"public", "plain", "product", "transaction", "import"}

ASSUME PoolAssumption ==
    /\ IsFiniteSet(Requests)
    /\ IsFiniteSet(Conns)
    /\ Kind \in [Requests -> Kinds]
    /\ Load \in [Requests -> Nat]
    /\ Idle \notin Requests \X {"request", "tx", "statement"}

VARIABLES
    owner,      \* who holds each connection, and for what
    waiting,    \* calls of Acquire that block, oldest first
    phase,      \* of each request
    left        \* statements a request still has to run

vars == <<owner, waiting, phase, left>>

\* A connection is held for the whole request, a transaction or a statement.
Uses == {"request", "tx", "statement"}

Init ==
    /\ owner = [c \in Conns |-> Idle]
    /\ waiting = <<>>
    /\ phase = [r \in Requests |-> "new"]
    /\ left = Load

Holds(r, use) == \E c \in Conns : owner[c] = <<r, use>>
HeldBy(r) == {c \in Conns : \E use \in Uses : owner[c] = <<r, use>>}
Waits(r) == \E i \in 1 .. Len(waiting) : waiting[i][1] = r

\* What a request holds while it waits for the last connection it needs.
Keeps(r) == CASE Kind[r] = "public" -> {}
              [] Kind[r] \in {"plain", "product", "transaction"} -> {"request"}
              [] Kind[r] = "import" -> {"request", "tx"}

\* The request's goroutine runs, rather than waiting for a connection or for
\* the database.  A late request is one whose context has ended.
Running(r) == phase[r] \in {"serve", "late"} /\ ~Waits(r) /\ ~Holds(r, "statement")

\* The two statements of GetTenantPlan, the first of a new product, are run under
\* context.Background().
InLookup(r) == Kind[r] = "product" /\ left[r] + 2 > Load[r] /\ Holds(r, "request")

Ask(r, use) == waiting' = Append(waiting, <<r, use>>)
Return(held) == owner' = [c \in Conns |-> IF owner[c] \in held THEN Idle ELSE owner[c]]
----------------------------------------------------------------------------
\* A request comes in; the middleware acquires its connection.
Arrive(r) ==
    /\ phase[r] = "new"
    /\ phase' = [phase EXCEPT ![r] = "serve"]
    /\ IF Kind[r] = "public" THEN UNCHANGED waiting ELSE Ask(r, "request")
    /\ UNCHANGED <<owner, left>>

\* The pool serves the oldest caller as soon as a connection is idle.
Served_Again == UNCHANGED waiting
Served == waiting' = Tail(waiting)

Grant ==
    /\ waiting # <<>>
    /\ \E c \in Conns :
        /\ owner[c] = Idle
        /\ owner' = [owner EXCEPT ![c] = Head(waiting)]
    /\ Served
    /\ UNCHANGED <<phase, left>>

\* A statement of a repository, or one row of the import, asks for a connection
\* of its own; a statement of a transaction runs on the transaction's.  After the
\* end of its context a request runs no statement but those of the lookup.
HasMore_OneTooMany(r) == left[r] + 1 > 0
HasMore(r) == left[r] > 0

RunsOnTx_Never(r) == FALSE
RunsOnTx(r) == Holds(r, "tx") /\ Kind[r] = "transaction"

Statement(r) ==
    /\ Running(r)
    /\ HasMore(r)
    /\ Kind[r] = "import" => Holds(r, "tx")
    /\ phase[r] = "late" => InLookup(r)
    /\ IF RunsOnTx(r)
       THEN left' = [left EXCEPT ![r] = @ - 1] /\ UNCHANGED waiting
       ELSE Ask(r, "statement") /\ UNCHANGED left
    /\ UNCHANGED <<owner, phase>>

\* The result was read, and the connection goes back.
Answer(r) ==
    /\ Holds(r, "statement")
    /\ Return({<<r, "statement">>})
    /\ left' = [left EXCEPT ![r] = @ - 1]
    /\ UNCHANGED <<waiting, phase>>

Begin(r) ==
    /\ Running(r)
    /\ Kind[r] \in {"transaction", "import"}
    /\ HasMore(r)
    /\ ~Holds(r, "tx")
    /\ Ask(r, "tx")
    /\ UNCHANGED <<owner, phase, left>>

\* Commit, or the deferred Rollback when a statement failed.
CloseTx_Keep(r) == UNCHANGED owner
CloseTx(r) == Return({<<r, "tx">>})

EndTx(r) ==
    /\ Running(r)
    /\ Holds(r, "tx")
    /\ CloseTx(r)
    /\ left' = [left EXCEPT ![r] = 0]
    /\ UNCHANGED <<waiting, phase>>

\* The handler returns, having answered early or after its last statement.
Finish(r) ==
    /\ Running(r)
    /\ ~Holds(r, "tx")
    /\ Return({<<r, "request">>})
    /\ phase' = [phase EXCEPT ![r] = "done"]
    /\ UNCHANGED <<waiting, left>>

\* The context ends, 60 s after the request came in or when its client goes
\* away: the Acquire or the statement under way fails, and what is deferred
\* (Rollback, Close, Release) runs.  A request's goroutine blocks in one Acquire
\* at a time.
Cleanup_NoRollback(r) == Return({r} \X {"request", "statement"})
Cleanup(r) == Return({r} \X Uses)
Forget(r) ==
    IF Waits(r)
    THEN \E i \in 1 .. Len(waiting) :
            waiting[i][1] = r /\ waiting' = RemoveAt(waiting, i)
    ELSE UNCHANGED waiting

Expire(r) ==
    /\ phase[r] = "serve"
    /\ ~InLookup(r)
    /\ phase' = [phase EXCEPT ![r] = "done"]
    /\ Cleanup(r)
    /\ Forget(r)
    /\ UNCHANGED left

\* Neither the lookup nor its Acquire notices the end of the request's context:
\* what comes after it fails.
Outlast(r) ==
    /\ phase[r] = "serve"
    /\ InLookup(r)
    /\ phase' = [phase EXCEPT ![r] = "late"]
    /\ UNCHANGED <<owner, waiting, left>>

Step(r) == Statement(r) \/ Answer(r) \/ Begin(r) \/ EndTx(r) \/ Finish(r)

Next ==
    \/ Grant
    \/ \E r \in Requests : Arrive(r) \/ Step(r) \/ Expire(r) \/ Outlast(r)

Spec == Init /\ [][Next]_vars

\* Goroutines and the database go on when they can; the pool serves.  Nothing
\* says that a request is cut off in time.
FairSpec == Spec /\ WF_vars(Grant) /\ \A r \in Requests : WF_vars(Step(r))
----------------------------------------------------------------------------
(* Properties. *)

TypeOK ==
    /\ owner \in [Conns -> (Requests \X Uses) \cup {Idle}]
    /\ waiting \in Seq(Requests \X Uses)
    /\ phase \in [Requests -> {"new", "serve", "late", "done"}]
    /\ left \in [Requests -> Nat]

\* However a request ends, it leaves nothing behind: no connection stays out of
\* the pool, and no call of Acquire stays in the queue to be given one later.  One
\* whose context has ended is over as well, unless it is in the plan lookup: it
\* then holds the connection of TenantIsolation, and holds or waits for that of
\* the lookup.
NothingLeftBehind ==
    \A r \in Requests :
       /\ phase[r] \in {"new", "done"} => HeldBy(r) = {} /\ ~Waits(r)
       /\ phase[r] = "late" =>
             /\ Holds(r, "request") /\ ~Holds(r, "tx")
             /\ Waits(r) \/ Holds(r, "statement") => InLookup(r)

\* No connection is given to two callers and none is asked for twice: a request
\* holds as many as it has uses for, and blocks in one Acquire at a time.
OnePerUse ==
    /\ \A c, d \in Conns : owner[c] = owner[d] /\ owner[c] # Idle => c = d
    /\ \A i, j \in 1 .. Len(waiting) : waiting[i][1] = waiting[j][1] => i = j
    /\ \A i \in 1 .. Len(waiting) : ~Holds(waiting[i][1], waiting[i][2])

\* Every request ends: none waits for a connection until it is cut off.
EveryRequestEnds == \A r \in Requests : phase[r] = "serve" ~> phase[r] = "done"

\* Some request waits for a connection, all that are out belong to requests that
\* wait as well, and none is idle: only a timeout can break this, and nothing if
\* all of them wait in the lookup of a new product.
Gridlock ==
    /\ waiting # <<>>
    /\ \A c \in Conns : owner[c] # Idle /\ Waits(owner[c][1])

\* A pool of more connections than all requests hold when each lacks its last
\* one never locks up, in whatever order they ask.
HeldBack == Cardinality({u \in Requests \X Uses : u[2] \in Keeps(u[1])})
AmpleIsEnough == Cardinality(Conns) > HeldBack => ~Gridlock
=============================================================================
