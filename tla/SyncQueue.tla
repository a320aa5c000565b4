------------------------------ MODULE SyncQueue -----------------------------
(***************************************************************************)
(* The offline queue of one tablet and the server's answer to it:          *)
(* core/sync/sync_engine.dart with daos/sync_dao.dart, and Push of         *)
(* internal/sync/handler.go.                                               *)
(*                                                                         *)
(* A flush sends the pending operations in one request and marks them by   *)
(* its answer, one statement after the other.  The server looks up the key *)
(* of each operation, applies it and stores the key, in three calls.       *)
(* Nothing keeps two flushes, or two requests, from running at once.       *)
(*                                                                         *)
(* The repository of the server is an interface: whether an operation is   *)
(* in conflict or cannot be applied is left open, and each of its calls    *)
(* may fail.  Nothing in the application enqueues yet, and the route       *)
(* answers 501: this is what the two ends do once they are connected.      *)
(*                                                                         *)
(* A definition named X_Y is X with the bug Y; no action uses it.          *)
(***************************************************************************)
EXTENDS Naturals, FiniteSets

CONSTANTS
    NumOps,    \* operations that are queued, in this order
    EntityOf,  \* operation -> the entity it is about
    Flushes,   \* flushes the app may have under way, timers included
    Pushes,    \* requests the server may be running at once
    Gone,      \* the client of a request that nobody waits for any more
    MaxLost    \* bound: calls of the repository that fail at a bad moment

Ops == 1 .. NumOps

ASSUME SyncAssumption ==
    /\ NumOps \in Nat
    /\ DOMAIN EntityOf = Ops
    /\ IsFiniteSet(Pushes)
    /\ Gone \notin Flushes
    /\ MaxLost \in Nat

VARIABLES
    status,   \* sync_queue of the tablet: operation -> status of its row
    flush,    \* slot -> where a flush stands
    push,     \* slot -> where a request stands on the server
    keys,     \* idempotency keys that are stored
    applied,  \* operation -> how often the server has applied it
    refused,  \* operations the server has once left out: in conflict, or not applied
    lost      \* calls that failed at a bad moment

vars == <<status, flush, push, keys, applied, refused, lost>>

(***************************************************************************)
(* A flush:  timer  the five seconds after reconnecting                    *)
(*           wait   the request is under way                               *)
(*           mark   synced, conflicts and failed are still to be written   *)
(* A request: next  an operation of left is looked up, or all are done     *)
(*            apply the key of op was not found                            *)
(*            mark  op is applied, its key is to be stored                 *)
(***************************************************************************)
Flush == [pc: {"idle", "timer", "wait", "mark"}, sent: SUBSET Ops,
          synced: SUBSET Ops, conflicts: SUBSET Ops, failed: SUBSET Ops]
Push == [pc: {"idle", "next", "apply", "mark"}, client: Flushes \cup {Gone}, op: {0} \cup Ops,
         left: SUBSET Ops, synced: SUBSET Ops, conflicts: SUBSET Ops]

FlushAt(pc, sent, s, c, f) ==
    [pc |-> pc, sent |-> sent, synced |-> s, conflicts |-> c, failed |-> f]
PushAt(pc, f, op, left, s, c) ==
    [pc |-> pc, client |-> f, op |-> op, left |-> left, synced |-> s, conflicts |-> c]
NoFlush == FlushAt("idle", {}, {}, {}, {})
NoPush == PushAt("idle", Gone, 0, {}, {}, {})

SetFlush(f, x) == flush' = [flush EXCEPT ![f] = x]
SetPush(p, x) == push' = [push EXCEPT ![p] = x]

\* The request of a flush, if it is still being served, has lost its client, and
\* what it would answer no longer matters.
Orphaned(fs) ==
    [p \in Pushes |->
        IF push[p].client \in fs
        THEN PushAt(push[p].pc, Gone, push[p].op, push[p].left, {}, {})
        ELSE push[p]]

\* ORDER BY created_at, oldest first.
IsFirst_Newest(o, S) == o \in S /\ \A x \in S : o >= x
IsFirst(o, S) == o \in S /\ \A x \in S : o <= x

Init ==
    /\ status = [o \in Ops |-> "none"]
    /\ flush = [f \in Flushes |-> NoFlush]
    /\ push = [p \in Pushes |-> NoPush]
    /\ keys = {}
    /\ applied = [o \in Ops |-> 0]
    /\ refused = {}
    /\ lost = 0
----------------------------------------------------------------------------
(* The tablet. *)

Enqueue(o) ==
    /\ status[o] = "none"
    /\ \A x \in Ops : x < o => status[x] # "none"
    /\ status' = [status EXCEPT ![o] = "pending"]
    /\ UNCHANGED <<flush, push, keys, applied, refused, lost>>

\* isOnlineProvider turns false and true again: each return of the connection
\* starts a timer of its own.
Reconnect(f) ==
    /\ flush[f].pc = "idle"
    /\ SetFlush(f, FlushAt("timer", {}, {}, {}, {}))
    /\ UNCHANGED <<status, push, keys, applied, refused, lost>>

\* getPendingOperations, in the order they were queued; the request may never
\* reach the server.
Pending == {o \in Ops : status[o] = "pending"}

Send(f, p) ==
    /\ flush[f].pc = "timer"
    /\ Pending # {}
    /\ push[p].pc = "idle"
    /\ SetFlush(f, FlushAt("wait", Pending, {}, {}, {}))
    /\ SetPush(p, PushAt("next", f, 0, Pending, {}, {}))
    /\ UNCHANGED <<status, keys, applied, refused, lost>>

\* Nobody is signed in, nothing is pending, the request fails or times out, or a
\* statement of the tablet's database throws: what was not marked stays pending.
Quit(f) ==
    /\ flush[f].pc # "idle"
    /\ SetFlush(f, NoFlush)
    /\ push' = Orphaned({f})
    /\ UNCHANGED <<status, keys, applied, refused, lost>>

\* Operations of the answer's flush that are neither synced nor, by their entity,
\* in conflict.
Verdict_OfQueue(sent, s, c) == Pending \ s
Verdict(sent, s, c) ==
    {o \in sent \ s : \A x \in c : EntityOf[x] # EntityOf[o]}

Receive(f, p) ==
    LET s == push[p].synced
        c == push[p].conflicts IN
    /\ flush[f].pc = "wait"
    /\ push[p].client = f
    /\ push[p].pc = "next" /\ push[p].left = {}
    /\ SetFlush(f, FlushAt("mark", {}, s, c, Verdict(flush[f].sent, s, c)))
    /\ SetPush(p, NoPush)
    /\ UNCHANGED <<status, keys, applied, refused, lost>>

\* UPDATE sync_queue SET status: nothing is left of a row that was deleted.
Marked_Upsert(o, as) == status' = [status EXCEPT ![o] = as]
Marked(o, as) == status' = [status EXCEPT ![o] = IF @ = "deleted" THEN @ ELSE as]

\* The statements that follow an answer: first that of each synced key ..
MarkSynced(f, o) ==
    /\ flush[f].pc = "mark"
    /\ IsFirst(o, flush[f].synced)
    /\ Marked(o, "synced")
    /\ SetFlush(f, [flush[f] EXCEPT !.synced = @ \ {o}])
    /\ UNCHANGED <<push, keys, applied, refused, lost>>

\* .. then a row of conflict_logs for each conflict, whose operation stays pending
\* (the log is there to be read by people) ..
InsertConflict(f, o) ==
    /\ flush[f].pc = "mark"
    /\ flush[f].synced = {} /\ IsFirst(o, flush[f].conflicts)
    /\ SetFlush(f, [flush[f] EXCEPT !.conflicts = @ \ {o}])
    /\ UNCHANGED <<status, push, keys, applied, refused, lost>>

\* .. then the rest, for good.
MarkFailed(f, o) ==
    /\ flush[f].pc = "mark"
    /\ flush[f].synced = {} /\ flush[f].conflicts = {} /\ IsFirst(o, flush[f].failed)
    /\ Marked(o, "failed")
    /\ SetFlush(f, [flush[f] EXCEPT !.failed = @ \ {o}])
    /\ UNCHANGED <<push, keys, applied, refused, lost>>

\* Rows that were synced seven days ago are deleted.
Cleanup(f) ==
    /\ flush[f].pc = "mark"
    /\ flush[f].synced = {} /\ flush[f].conflicts = {} /\ flush[f].failed = {}
    /\ \E old \in SUBSET {o \in Ops : status[o] = "synced"} :
          status' = [o \in Ops |-> IF o \in old THEN "deleted" ELSE status[o]]
    /\ SetFlush(f, NoFlush)
    /\ UNCHANGED <<push, keys, applied, refused, lost>>

\* The app ends; it starts with what its database holds, and with no flush.
Restart ==
    /\ flush' = [f \in Flushes |-> NoFlush]
    /\ push' = Orphaned(Flushes)
    /\ UNCHANGED <<status, keys, applied, refused, lost>>
----------------------------------------------------------------------------
(* Push, on the server. *)

Slip == lost < MaxLost /\ lost' = lost + 1

\* Takes the first operation that is left out of the request.
Answered(p, o, s, c) ==
    LET heard(x) == IF push[p].client = Gone THEN {} ELSE x IN
    SetPush(p, PushAt("next", push[p].client, 0, push[p].left \ {o}, heard(s), heard(c)))

\* Comes to an operation, or to its key.
StandAt(p, pc, o) ==
    PushAt(pc, push[p].client, o, push[p].left, push[p].synced, push[p].conflicts)

Used_Never(o) == FALSE
Used(o) == o \in keys

\* IsIdempotencyKeyUsed: an error counts as "not used".
LookUp(p, o) ==
    /\ push[p].pc = "next"
    /\ IsFirst(o, push[p].left)
    /\ \/ /\ Used(o)
          /\ Answered(p, o, push[p].synced \cup {o}, push[p].conflicts)
          /\ UNCHANGED lost
       \/ /\ IF Used(o) THEN Slip ELSE UNCHANGED lost
          /\ SetPush(p, StandAt(p, "apply", o))
    /\ UNCHANGED <<status, flush, keys, applied, refused>>

\* DetectConflict finds one.
Conflict(p) ==
    LET o == push[p].op IN
    /\ push[p].pc = "apply"
    /\ Answered(p, o, push[p].synced, push[p].conflicts \cup {o})
    /\ refused' = refused \cup {o}
    /\ UNCHANGED <<status, flush, keys, applied, lost>>

\* ApplyOperation succeeds.
Apply(p) ==
    LET o == push[p].op IN
    /\ push[p].pc = "apply"
    /\ applied' = [applied EXCEPT ![o] = @ + 1]
    /\ SetPush(p, StandAt(p, "mark", o))
    /\ UNCHANGED <<status, flush, keys, refused, lost>>

\* ApplyOperation answers an error: as a rule nothing was applied, but the answer
\* to its commit may be what was lost.
ApplyFails(p) ==
    LET o == push[p].op IN
    /\ push[p].pc = "apply"
    /\ \/ UNCHANGED <<applied, lost>>
       \/ Slip /\ applied' = [applied EXCEPT ![o] = @ + 1]
    /\ Answered(p, o, push[p].synced, push[p].conflicts)
    /\ refused' = refused \cup {o}
    /\ UNCHANGED <<status, flush, keys>>

\* MarkIdempotencyKey, whose error is ignored.
StoreKey(p) ==
    LET o == push[p].op IN
    /\ push[p].pc = "mark"
    /\ \/ keys' = keys \cup {o} /\ UNCHANGED lost
       \/ Slip /\ UNCHANGED keys
    /\ Answered(p, o, push[p].synced \cup {o}, push[p].conflicts)
    /\ UNCHANGED <<status, flush, applied, refused>>

\* The answer finds nobody.
Drop(p) ==
    /\ push[p].pc = "next" /\ push[p].left = {}
    /\ push[p].client = Gone
    /\ SetPush(p, NoPush)
    /\ UNCHANGED <<status, flush, keys, applied, refused, lost>>

\* A request is cut off by its timeout or a panic, or the server ends.
Cut(p) ==
    /\ push[p].pc # "idle"
    /\ IF push[p].pc = "mark" THEN Slip ELSE UNCHANGED lost
    /\ SetPush(p, NoPush)
    /\ UNCHANGED <<status, flush, keys, applied, refused>>

Next ==
    \/ \E o \in Ops : Enqueue(o)
    \/ \E f \in Flushes :
          \/ Reconnect(f) \/ Quit(f) \/ Cleanup(f)
          \/ \E o \in Ops : MarkSynced(f, o) \/ InsertConflict(f, o) \/ MarkFailed(f, o)
          \/ \E p \in Pushes : Send(f, p) \/ Receive(f, p)
    \/ Restart
    \/ \E p \in Pushes :
          \/ \E o \in Ops : LookUp(p, o)
          \/ Conflict(p) \/ Apply(p) \/ ApplyFails(p) \/ StoreKey(p) \/ Drop(p) \/ Cut(p)

Spec == Init /\ [][Next]_vars
----------------------------------------------------------------------------
(* Properties. *)

TypeOK ==
    /\ status \in [Ops -> {"none", "pending", "synced", "failed", "deleted"}]
    /\ flush \in [Flushes -> Flush]
    /\ push \in [Pushes -> Push]
    /\ keys \subseteq Ops
    /\ applied \in [Ops -> Nat]
    /\ refused \subseteq Ops
    /\ lost \in 0 .. MaxLost
    /\ \A p \in Pushes :
          /\ push[p].pc \in {"apply", "mark"} => IsFirst(push[p].op, push[p].left)
          /\ push[p].client # Gone => flush[push[p].client].pc = "wait"

\* However often an operation is sent, and however the requests overlap, the
\* server applies it at most once for each request that it runs at the same time
\* and once more for each call that failed at a bad moment.
AppliedFewTimes ==
    \A o \in Ops : applied[o] <= Cardinality(Pushes) + lost

\* A change overtakes an earlier one only if the server has left the earlier one
\* out: answers that come late or never, requests that overlap and restarts do
\* not reorder what the tablet did.
InOrder ==
    \A early, late \in Ops :
        early < late /\ applied[late] > 0 => applied[early] > 0 \/ early \in refused

\* Nothing that the tablet queued disappears, whichever flush marked it and
\* whatever became of the others: an operation is marked synced, and its row
\* deleted later, only if the server applied it; until then it is pending, or was
\* refused and is shown as failed.
NothingDisappears ==
    \A o \in Ops : status[o] # "none" /\ applied[o] = 0 =>
        status[o] = "pending" \/ (status[o] = "failed" /\ o \in refused)

\* The statements of overlapping flushes and requests, in whatever order they come,
\* implement an outbox in which each is one entry in the history of an operation:
\* it is the operation's turn when it is applied or refused, its row shows only
\* what the server did, and a deleted row stays deleted.
outbox == [o \in Ops |-> [row |-> status[o], applied |-> applied[o],
                          refused |-> o \in refused]]
Box == INSTANCE Outbox WITH outbox <- outbox
ImplementsOutbox == Box!Spec
=============================================================================
