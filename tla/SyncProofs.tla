----------------------------- MODULE SyncProofs -----------------------------
(***************************************************************************)
(* Proofs about SyncQueue, for any number of operations, flushes and       *)
(* requests.                                                               *)
(***************************************************************************)
EXTENDS SyncQueue, FiniteSetTheorems, TLAPS

\* The server has dealt with an operation: it is done, or was left out.
Done(o) == applied[o] > 0
Settled(o) == Done(o) \/ o \in refused

\* The rows of the queue follow what the server did, and were queued in order.
QueueIsTrue ==
    /\ \A o \in Ops : status[o] \in {"synced", "deleted"} => Done(o)
    /\ \A o \in Ops : status[o] = "failed" => o \in refused
    /\ \A o, x \in Ops : x < o /\ status[o] # "none" => status[x] # "none"
    /\ \A o \in Ops : Settled(o) => status[o] # "none"
    /\ \A o \in keys : Done(o)

\* What a flush is about to write.
FlushIsTrue ==
    \A f \in Flushes : /\ \A o \in flush[f].synced : Done(o)
                       /\ flush[f].failed \subseteq refused

\* A request has left behind only operations that are settled, and answers for
\* each operation of its flush, which waits for no other request.
RequestIsTrue(p) ==
    /\ \A o \in push[p].synced : Done(o)
    /\ push[p].pc = "mark" => Done(push[p].op)
    /\ \A o \in push[p].left : status[o] # "none"
    /\ \A o \in push[p].left, x \in Ops : x < o => x \in push[p].left \/ Settled(x)
    /\ push[p].client # Gone =>
          flush[push[p].client].sent \subseteq push[p].left \cup push[p].synced \cup refused

OneRequest ==
    \A p, q \in Pushes : p # q /\ push[p].client = push[q].client => push[p].client = Gone

Applying(o) == {p \in Pushes : push[p].pc = "apply" /\ push[p].op = o}
Marking(o) == {p \in Pushes : push[p].pc = "mark" /\ push[p].op = o}

\* Until a key is stored, each application of its operation is one that is about
\* to store it, or one whose key was lost; from then on no look-up that works
\* lets the operation through again.
Counted(o) ==
    /\ o \notin keys => applied[o] <= Cardinality(Marking(o)) + lost
    /\ o \in keys => applied[o] + Cardinality(Applying(o)) <= Cardinality(Pushes) + lost

IInv ==
    /\ TypeOK
    /\ OneRequest
    /\ QueueIsTrue
    /\ FlushIsTrue
    /\ \A p \in Pushes : RequestIsTrue(p)
    /\ InOrder
    /\ \A o \in Ops : Counted(o)
----------------------------------------------------------------------------
LEMMA InitInv == Init => IInv
  <1> SUFFICES ASSUME Init PROVE IInv
    OBVIOUS
  <1> USE SyncAssumption
  <1>1. Cardinality(Pushes) \in Nat
    BY FS_CardinalityType
  <1>2. TypeOK
    BY DEF Init, TypeOK, Flush, Push, NoFlush, FlushAt, NoPush, PushAt
  <1>3. OneRequest /\ QueueIsTrue /\ FlushIsTrue /\ InOrder
    BY DEF Init, OneRequest, QueueIsTrue, Settled, Done, FlushIsTrue, InOrder, NoFlush, FlushAt,
       NoPush, PushAt
  <1>4. \A p \in Pushes : RequestIsTrue(p)
    BY DEF Init, RequestIsTrue, NoPush, PushAt
  <1>5. ASSUME NEW o \in Ops PROVE Counted(o)
    <2>1. Marking(o) = {} /\ o \notin keys /\ applied[o] = 0 /\ lost = 0
      BY DEF Init, Marking, NoPush, PushAt
    <2> QED
      BY <2>1, FS_EmptySet DEF Counted
  <1> QED
    BY <1>2, <1>3, <1>4, <1>5 DEF IInv
----------------------------------------------------------------------------
(* What the steps do to a flush or to a request. *)

LEMMA FlushSet ==
  ASSUME TypeOK, NEW f \in Flushes, NEW e \in Flush, SetFlush(f, e)
  PROVE  /\ flush' \in [Flushes -> Flush] /\ flush'[f] = e
         /\ \A g \in Flushes : g # f => flush'[g] = flush[g]
  BY DEF SetFlush, TypeOK

LEMMA PushSet ==
  ASSUME TypeOK, NEW p \in Pushes, NEW e \in Push, SetPush(p, e)
  PROVE  /\ push' \in [Pushes -> Push] /\ push'[p] = e
         /\ \A q \in Pushes : q # p => push'[q] = push[q]
  BY DEF SetPush, TypeOK

\* A request comes to an operation, or to its key.
LEMMA StandStep ==
  ASSUME TypeOK, NEW p \in Pushes, NEW o \in Ops, NEW pc \in {"apply", "mark"},
         SetPush(p, StandAt(p, pc, o))
  PROVE  /\ push' \in [Pushes -> Push]
         /\ push'[p].pc = pc /\ push'[p].op = o
         /\ push'[p].client = push[p].client /\ push'[p].left = push[p].left
         /\ push'[p].synced = push[p].synced
         /\ \A q \in Pushes : q # p => push'[q] = push[q]
  <1>1. push[p] \in Push
    BY DEF TypeOK
  <1>2. StandAt(p, pc, o) \in Push
    BY <1>1 DEF StandAt, PushAt, Push
  <1> QED
    BY <1>2, PushSet DEF StandAt, PushAt

\* An operation has been dealt with.
LEMMA AnsweredStep ==
  ASSUME TypeOK, NEW p \in Pushes, NEW o \in Ops,
         NEW s \in SUBSET Ops, NEW c \in SUBSET Ops, Answered(p, o, s, c)
  PROVE  /\ push' \in [Pushes -> Push]
         /\ push'[p].pc = "next" /\ push'[p].client = push[p].client
         /\ push'[p].left = push[p].left \ {o}
         /\ push'[p].synced \subseteq s
         /\ push[p].client # Gone => push'[p].synced = s
         /\ \A q \in Pushes : q # p => push'[q] = push[q]
  <1> DEFINE heard(x) == IF push[p].client = Gone THEN {} ELSE x
             e == PushAt("next", push[p].client, 0, push[p].left \ {o}, heard(s), heard(c))
  <1>1. push[p] \in Push
    BY DEF TypeOK
  <1>2. e \in Push
    BY <1>1 DEF Push, PushAt
  <1>3. SetPush(p, e)
    BY DEF Answered
  <1>4. push' \in [Pushes -> Push] /\ push'[p] = e /\ \A q \in Pushes : q # p => push'[q] = push[q]
    BY <1>2, <1>3, PushSet
  <1> QED
    BY <1>4 DEF PushAt

\* Requests whose client is gone run on as they were.
LEMMA OrphanedStep ==
  ASSUME TypeOK, NEW fs \in SUBSET Flushes, push' = Orphaned(fs)
  PROVE  /\ push' \in [Pushes -> Push]
         /\ \A p \in Pushes :
               /\ push'[p].pc = push[p].pc /\ push'[p].op = push[p].op
               /\ push'[p].left = push[p].left /\ push'[p].synced \subseteq push[p].synced
               /\ push'[p].client # Gone =>
                     push[p].client \notin fs /\ push'[p] = push[p]
  BY SyncAssumption DEF Orphaned, PushAt, TypeOK, Push
----------------------------------------------------------------------------
(* Type correctness. *)

\* A request keeps its place, and its flush waits.
Placed(p) ==
    /\ push[p].pc \in {"apply", "mark"} => IsFirst(push[p].op, push[p].left)
    /\ push[p].client # Gone => flush[push[p].client].pc = "wait"

LEMMA EnqueueType ==
  ASSUME TypeOK, NEW o \in Ops, Enqueue(o) PROVE TypeOK'
  BY DEF Enqueue, TypeOK, IsFirst

LEMMA ReconnectType ==
  ASSUME TypeOK, NEW f \in Flushes, Reconnect(f) PROVE TypeOK'
  <1> DEFINE e == FlushAt("timer", {}, {}, {}, {})
  <1>1. e \in Flush
    BY DEF FlushAt, Flush
  <1>2. /\ flush' \in [Flushes -> Flush]
        /\ \A g \in Flushes : g # f => flush'[g] = flush[g]
    BY <1>1, FlushSet DEF Reconnect
  <1>3. \A p \in Pushes : Placed(p)'
    BY <1>2, SyncAssumption DEF Reconnect, TypeOK, Placed, IsFirst, Push
  <1> QED
    BY <1>2, <1>3 DEF Reconnect, TypeOK, Placed

LEMMA SendType ==
  ASSUME TypeOK, NEW f \in Flushes, NEW p \in Pushes, Send(f, p) PROVE TypeOK'
  <1> DEFINE e == FlushAt("wait", Pending, {}, {}, {})
             d == PushAt("next", f, 0, Pending, {}, {})
  <1>1. e \in Flush /\ d \in Push
    BY DEF FlushAt, Flush, PushAt, Push, Pending
  <1>2. /\ flush' \in [Flushes -> Flush] /\ flush'[f].pc = "wait"
        /\ \A g \in Flushes : g # f => flush'[g] = flush[g]
    BY <1>1, FlushSet DEF Send, FlushAt
  <1>3. /\ push' \in [Pushes -> Push] /\ push'[p].pc = "next" /\ push'[p].client = f
        /\ \A q \in Pushes : q # p => push'[q] = push[q]
    BY <1>1, PushSet DEF Send, PushAt
  <1>4. \A q \in Pushes : Placed(q)'
    BY <1>2, <1>3, SyncAssumption DEF TypeOK, Placed, IsFirst, Push
  <1> QED
    BY <1>2, <1>3, <1>4 DEF Send, TypeOK, Placed

LEMMA QuitType ==
  ASSUME TypeOK, NEW f \in Flushes, Quit(f) PROVE TypeOK'
  <1>1. NoFlush \in Flush /\ {f} \in SUBSET Flushes
    BY DEF NoFlush, FlushAt, Flush
  <1>2. /\ flush' \in [Flushes -> Flush]
        /\ \A g \in Flushes : g # f => flush'[g] = flush[g]
    BY <1>1, FlushSet DEF Quit
  <1>3. /\ push' \in [Pushes -> Push]
        /\ \A p \in Pushes :
               /\ push'[p].pc = push[p].pc /\ push'[p].op = push[p].op
               /\ push'[p].left = push[p].left
               /\ push'[p].client # Gone => push[p].client # f /\ push'[p] = push[p]
    BY <1>1, OrphanedStep DEF Quit
  <1>4. \A p \in Pushes : Placed(p)'
    BY <1>2, <1>3, SyncAssumption DEF TypeOK, Placed, IsFirst, Push
  <1> QED
    BY <1>2, <1>3, <1>4 DEF Quit, TypeOK, Placed

LEMMA RestartType ==
  ASSUME TypeOK, Restart PROVE TypeOK'
  <1>1. flush' \in [Flushes -> Flush]
    BY DEF Restart, NoFlush, FlushAt, Flush
  <1>2. /\ push' \in [Pushes -> Push]
        /\ \A p \in Pushes :
               /\ push'[p].pc = push[p].pc /\ push'[p].op = push[p].op
               /\ push'[p].left = push[p].left
               /\ push'[p].client # Gone => push[p].client \notin Flushes /\ push'[p] = push[p]
    BY OrphanedStep DEF Restart
  <1>3. \A p \in Pushes : Placed(p)'
    BY <1>2, SyncAssumption DEF TypeOK, Placed, IsFirst, Push, Restart
  <1> QED
    BY <1>1, <1>2, <1>3 DEF Restart, TypeOK, Placed

LEMMA ReceiveType ==
  ASSUME TypeOK, OneRequest, NEW f \in Flushes, NEW p \in Pushes, Receive(f, p) PROVE TypeOK'
  <1> DEFINE s == push[p].synced
             c == push[p].conflicts
             e == FlushAt("mark", {}, s, c, Verdict(flush[f].sent, s, c))
  <1>1. e \in Flush /\ NoPush \in Push
    BY DEF TypeOK, FlushAt, Flush, NoPush, PushAt, Push, Verdict
  <1>2. /\ flush' \in [Flushes -> Flush]
        /\ \A g \in Flushes : g # f => flush'[g] = flush[g]
    BY <1>1, FlushSet DEF Receive
  <1>3. /\ push' \in [Pushes -> Push] /\ push'[p].pc = "idle" /\ push'[p].client = Gone
        /\ \A q \in Pushes : q # p => push'[q] = push[q]
    BY <1>1, PushSet DEF Receive, NoPush, PushAt
  <1>4. \A q \in Pushes : Placed(q)'
    BY <1>2, <1>3, SyncAssumption DEF TypeOK, OneRequest, Receive, Placed, IsFirst, Push
  <1> QED
    BY <1>2, <1>3, <1>4 DEF Receive, TypeOK, Placed

\* The statements after an answer change a flush that marks, and a status.
LEMMA MarkType ==
  ASSUME TypeOK, NEW f \in Flushes, NEW e \in Flush, SetFlush(f, e), flush[f].pc = "mark",
         status' \in [Ops -> {"none", "pending", "synced", "failed", "deleted"}],
         UNCHANGED <<push, keys, applied, refused, lost>>
  PROVE  TypeOK'
  <1>1. /\ flush' \in [Flushes -> Flush]
        /\ \A g \in Flushes : g # f => flush'[g] = flush[g]
    BY FlushSet
  <1>2. \A q \in Pushes : Placed(q)'
    BY <1>1, SyncAssumption DEF TypeOK, Placed, IsFirst, Push
  <1> QED
    BY <1>1, <1>2 DEF TypeOK, Placed

\* A statement leaves a smaller set to be done.
LEMMA LeftToMark ==
  ASSUME TypeOK, NEW f \in Flushes, NEW o
  PROVE  /\ [flush[f] EXCEPT !.synced = @ \ {o}] \in Flush
         /\ [flush[f] EXCEPT !.conflicts = @ \ {o}] \in Flush
         /\ [flush[f] EXCEPT !.failed = @ \ {o}] \in Flush
  <1>1. flush[f] \in Flush
    BY DEF TypeOK
  <1> QED
    BY <1>1 DEF Flush

\* A request takes its next step; whose it is does not change.
LEMMA ServeType ==
  ASSUME TypeOK, NEW p \in Pushes, push' \in [Pushes -> Push],
         push'[p].client \in {push[p].client, Gone},
         push'[p].pc \in {"apply", "mark"} => IsFirst(push'[p].op, push'[p].left),
         \A q \in Pushes : q # p => push'[q] = push[q],
         keys' \subseteq Ops, applied' \in [Ops -> Nat], refused' \subseteq Ops,
         lost' \in 0 .. MaxLost, UNCHANGED <<status, flush>>
  PROVE  TypeOK'
  <1>1. \A q \in Pushes : Placed(q)'
    BY DEF TypeOK, Placed, IsFirst
  <1> QED
    BY <1>1 DEF TypeOK, Placed

LEMMA TypeInv == TypeOK /\ OneRequest /\ [Next]_vars => TypeOK'
  <1> SUFFICES ASSUME TypeOK, OneRequest, [Next]_vars PROVE TypeOK'
    OBVIOUS
  <1>1. ASSUME NEW f \in Flushes, NEW o \in Ops, MarkSynced(f, o) PROVE TypeOK'
    BY <1>1, LeftToMark, MarkType DEF MarkSynced, Marked, TypeOK
  <1>2. ASSUME NEW f \in Flushes, NEW o \in Ops, InsertConflict(f, o) PROVE TypeOK'
    BY <1>2, LeftToMark, MarkType DEF InsertConflict, TypeOK
  <1>3. ASSUME NEW f \in Flushes, NEW o \in Ops, MarkFailed(f, o) PROVE TypeOK'
    BY <1>3, LeftToMark, MarkType DEF MarkFailed, Marked, TypeOK
  <1>4. ASSUME NEW f \in Flushes, Cleanup(f) PROVE TypeOK'
    <2>1. NoFlush \in Flush
      BY DEF NoFlush, FlushAt, Flush
    <2> QED
      BY <1>4, <2>1, MarkType DEF Cleanup, TypeOK
  <1>5. ASSUME NEW p \in Pushes, NEW o \in Ops, LookUp(p, o) PROVE TypeOK'
    <2>1. lost' \in 0 .. MaxLost /\ UNCHANGED <<status, flush, keys, applied, refused>>
      BY <1>5, SyncAssumption DEF LookUp, Slip, TypeOK
    <2>2. CASE Answered(p, o, push[p].synced \cup {o}, push[p].conflicts)
      <3>1. push[p].synced \cup {o} \in SUBSET Ops /\ push[p].conflicts \in SUBSET Ops
        BY DEF TypeOK, Push
      <3> QED
        BY <2>1, <2>2, <3>1, AnsweredStep, ServeType DEF TypeOK
    <2>3. CASE SetPush(p, StandAt(p, "apply", o))
      BY <1>5, <2>1, <2>3, StandStep, ServeType DEF TypeOK, LookUp
    <2> QED
      BY <1>5, <2>2, <2>3 DEF LookUp
  <1>6. ASSUME NEW p \in Pushes, push[p].pc \in {"apply", "mark"},
               Conflict(p) \/ Apply(p) \/ ApplyFails(p) \/ StoreKey(p)
        PROVE  TypeOK'
    <2> DEFINE o == push[p].op
    <2>1. /\ o \in Ops /\ IsFirst(o, push[p].left) /\ o \in push[p].left
          /\ push[p].synced \in SUBSET Ops /\ push[p].conflicts \in SUBSET Ops
      BY <1>6 DEF TypeOK, Push, IsFirst
    <2>2. /\ keys' \subseteq Ops /\ applied' \in [Ops -> Nat] /\ refused' \subseteq Ops
          /\ lost' \in 0 .. MaxLost /\ UNCHANGED <<status, flush>>
      BY <1>6, <2>1, SyncAssumption DEF Conflict, Apply, ApplyFails, StoreKey, Slip, TypeOK
    <2>3. CASE Apply(p)
      BY <2>1, <2>2, <2>3, StandStep, ServeType DEF Apply
    <2>4. ASSUME NEW s \in SUBSET Ops, NEW c \in SUBSET Ops, Answered(p, o, s, c) PROVE TypeOK'
      BY <2>1, <2>2, <2>4, AnsweredStep, ServeType
    <2> QED
      BY <1>6, <2>1, <2>3, <2>4 DEF Conflict, ApplyFails, StoreKey
  <1>7. ASSUME NEW p \in Pushes, Drop(p) \/ Cut(p) PROVE TypeOK'
    <2>1. NoPush \in Push
      BY DEF NoPush, PushAt, Push
    <2>2. /\ push' \in [Pushes -> Push] /\ push'[p] = NoPush
          /\ \A q \in Pushes : q # p => push'[q] = push[q]
      BY <1>7, <2>1, PushSet DEF Drop, Cut
    <2>3. lost' \in 0 .. MaxLost /\ UNCHANGED <<status, flush, keys, applied, refused>>
      BY <1>7, SyncAssumption DEF Drop, Cut, Slip, TypeOK
    <2> QED
      BY <2>2, <2>3, ServeType DEF TypeOK, NoPush, PushAt
  <1>8. CASE UNCHANGED vars
    BY <1>8 DEF vars, TypeOK, IsFirst
  <1> QED
    BY <1>1, <1>2, <1>3, <1>4, <1>5, <1>6, <1>7, <1>8, EnqueueType, ReconnectType, SendType,
       QuitType, RestartType, ReceiveType DEF Next, Conflict, Apply, ApplyFails, StoreKey
----------------------------------------------------------------------------
(* What is settled stays settled, and what was queued stays queued. *)

Later ==
    /\ \A o \in Ops : Done(o) => Done(o)'
    /\ refused \subseteq refused'
    /\ \A o \in Ops : status[o] # "none" => status'[o] # "none"

LEMMA LaterInv == IInv /\ [Next]_vars => Later
  <1> SUFFICES ASSUME IInv, [Next]_vars PROVE Later
    OBVIOUS
  <1>0. TypeOK
    BY DEF IInv
  <1>1. ASSUME NEW o \in Ops, applied' = [applied EXCEPT ![o] = @ + 1]
        PROVE  \A x \in Ops : Done(x) => Done(x)'
    BY <1>0, <1>1 DEF TypeOK, Done
  <1>2. ASSUME NEW p \in Pushes, Apply(p) \/ ApplyFails(p) PROVE Later
    <2>1. push[p].op \in Ops
      BY <1>0, <1>2 DEF TypeOK, Push, IsFirst, Apply, ApplyFails
    <2>2. CASE UNCHANGED applied
      BY <1>2, <2>2 DEF Apply, ApplyFails, Later, Done
    <2> QED
      BY <1>1, <1>2, <2>1, <2>2 DEF Apply, ApplyFails, Later
  <1>3. ASSUME NEW p \in Pushes, NEW o \in Ops, LookUp(p, o) PROVE Later
    BY <1>3 DEF LookUp, Later, Done
  <1>4. ASSUME NEW p \in Pushes, Conflict(p) \/ StoreKey(p) \/ Drop(p) \/ Cut(p) PROVE Later
    BY <1>4 DEF Conflict, StoreKey, Drop, Cut, Later, Done
  <1>5. ASSUME NEW o \in Ops, Enqueue(o) PROVE Later
    BY <1>0, <1>5 DEF Enqueue, Later, Done, TypeOK
  <1>6. ASSUME NEW f \in Flushes, NEW o \in Ops,
               MarkSynced(f, o) \/ InsertConflict(f, o) \/ MarkFailed(f, o)
        PROVE  Later
    BY <1>0, <1>6 DEF MarkSynced, InsertConflict, MarkFailed, Marked, Later, Done, TypeOK
  <1>7. ASSUME NEW f \in Flushes, Reconnect(f) \/ Quit(f) \/ Cleanup(f) PROVE Later
    BY <1>0, <1>7 DEF Reconnect, Quit, Cleanup, Later, Done, TypeOK
  <1>8. ASSUME NEW f \in Flushes, NEW p \in Pushes, Send(f, p) \/ Receive(f, p) PROVE Later
    BY <1>8 DEF Send, Receive, Later, Done
  <1>9. CASE Restart \/ UNCHANGED vars
    BY <1>9 DEF Restart, vars, Later, Done
  <1> QED
    BY <1>2, <1>3, <1>4, <1>5, <1>6, <1>7, <1>8, <1>9 DEF Next

\* A flush is sent in one request.
LEMMA OneRequestInv == IInv /\ [Next]_vars => OneRequest'
  <1> SUFFICES ASSUME IInv, [Next]_vars PROVE OneRequest'
    OBVIOUS
  <1> USE SyncAssumption
  <1>0. TypeOK /\ OneRequest
    BY DEF IInv
  <1>1. ASSUME NEW p \in Pushes, push'[p].client \in {push[p].client, Gone},
               \A q \in Pushes : q # p => push'[q] = push[q]
        PROVE  OneRequest'
    BY <1>0, <1>1 DEF OneRequest
  <1>2. CASE UNCHANGED push
    BY <1>0, <1>2 DEF OneRequest
  <1>3. ASSUME NEW fs \in SUBSET Flushes, push' = Orphaned(fs) PROVE OneRequest'
    <2>1. \A p \in Pushes : push'[p].client # Gone => push'[p] = push[p]
      BY <1>0, <1>3, OrphanedStep
    <2> QED
      BY <1>0, <2>1 DEF OneRequest
  <1>4. ASSUME NEW f \in Flushes, NEW p \in Pushes, Send(f, p) PROVE OneRequest'
    <2>1. \A q \in Pushes : push[q].client # f
      BY <1>0, <1>4 DEF TypeOK, Send
    <2>2. /\ push'[p].client = f
          /\ \A q \in Pushes : q # p => push'[q] = push[q]
      BY <1>0, <1>4 DEF Send, SetPush, PushAt, TypeOK
    <2> QED
      BY <1>0, <2>1, <2>2 DEF OneRequest
  <1>5. ASSUME NEW p \in Pushes, SetPush(p, NoPush) PROVE OneRequest'
    <2>1. push'[p].client = Gone /\ \A q \in Pushes : q # p => push'[q] = push[q]
      BY <1>0, <1>5 DEF SetPush, NoPush, PushAt, TypeOK
    <2> QED
      BY <1>1, <2>1
  <1>6. ASSUME NEW p \in Pushes, NEW pc, NEW o, SetPush(p, StandAt(p, pc, o)) PROVE OneRequest'
    <2>1. push'[p].client = push[p].client /\ \A q \in Pushes : q # p => push'[q] = push[q]
      BY <1>0, <1>6 DEF SetPush, StandAt, PushAt, TypeOK
    <2> QED
      BY <1>1, <2>1
  <1>7. ASSUME NEW p \in Pushes, NEW o, NEW s, NEW c, Answered(p, o, s, c) PROVE OneRequest'
    <2>1. push'[p].client = push[p].client /\ \A q \in Pushes : q # p => push'[q] = push[q]
      BY <1>0, <1>7 DEF Answered, SetPush, PushAt, TypeOK
    <2> QED
      BY <1>1, <2>1
  <1>8. ASSUME NEW f \in Flushes, Quit(f) PROVE OneRequest'
    BY <1>3, <1>8 DEF Quit
  <1>9. CASE Restart
    BY <1>3, <1>9 DEF Restart
  <1> QED
    BY <1>2, <1>4, <1>5, <1>6, <1>7, <1>8, <1>9 DEF Next, Enqueue, Reconnect, Receive, MarkSynced,
       InsertConflict, MarkFailed, Cleanup, LookUp, Conflict, Apply, ApplyFails, StoreKey, Drop,
       Cut, vars
----------------------------------------------------------------------------
(* The queue. *)

\* What the server has dealt with was queued.
LEMMA SettledQueued == IInv /\ [Next]_vars => \A o \in Ops : Settled(o)' => status'[o] # "none"
  <1> SUFFICES ASSUME IInv, [Next]_vars, NEW o \in Ops, Settled(o)' PROVE status'[o] # "none"
    OBVIOUS
  <1>0. TypeOK /\ QueueIsTrue /\ Later /\ \A p \in Pushes : RequestIsTrue(p)
    BY LaterInv DEF IInv
  <1>1. CASE Settled(o)
    BY <1>0, <1>1 DEF QueueIsTrue, Later
  <1>2. ASSUME NEW p \in Pushes, Conflict(p) \/ Apply(p) \/ ApplyFails(p), o = push[p].op
        PROVE  status'[o] # "none"
    <2>1. o \in push[p].left
      BY <1>0, <1>2 DEF TypeOK, IsFirst, Conflict, Apply, ApplyFails
    <2> QED
      BY <1>0, <2>1 DEF RequestIsTrue, Later
  <1>3. ASSUME NEW p \in Pushes, Conflict(p) \/ Apply(p) \/ ApplyFails(p), o # push[p].op
        PROVE  Settled(o)
    BY <1>0, <1>3 DEF Conflict, Apply, ApplyFails, Settled, Done, TypeOK
  <1>4. CASE UNCHANGED <<applied, refused>>
    BY <1>1, <1>4 DEF Settled, Done
  <1> QED
    BY <1>1, <1>2, <1>3, <1>4 DEF Next, Enqueue, Reconnect, Send, Quit, Receive, MarkSynced,
       InsertConflict, MarkFailed, Cleanup, Restart, LookUp, StoreKey, Drop, Cut, vars

LEMMA QueueInv == IInv /\ TypeOK' /\ [Next]_vars => QueueIsTrue'
  <1> SUFFICES ASSUME IInv, TypeOK', [Next]_vars PROVE QueueIsTrue'
    OBVIOUS
  <1>0. /\ TypeOK /\ QueueIsTrue /\ FlushIsTrue /\ Later
        /\ \A o \in Ops : Settled(o)' => status'[o] # "none"
    BY LaterInv, SettledQueued DEF IInv
  <1>1. ASSUME \A o \in Ops : status'[o] \in {"synced", "deleted"} => Done(o)',
               \A o \in Ops : status'[o] = "failed" => o \in refused',
               \A o, x \in Ops : x < o /\ status'[o] # "none" => status'[x] # "none",
               \A o \in keys' : Done(o)'
        PROVE  QueueIsTrue'
    BY <1>0, <1>1 DEF QueueIsTrue
  <1>2. ASSUME NEW o \in Ops, Enqueue(o) PROVE QueueIsTrue'
    BY <1>0, <1>1, <1>2 DEF Enqueue, QueueIsTrue, TypeOK, Later
  <1>3. ASSUME NEW f \in Flushes, NEW o \in Ops, MarkSynced(f, o) PROVE QueueIsTrue'
    <2>1. Done(o) /\ status[o] # "none"
      BY <1>0, <1>3 DEF MarkSynced, FlushIsTrue, IsFirst, QueueIsTrue, Settled
    <2> QED
      BY <1>0, <1>1, <1>3, <2>1 DEF MarkSynced, Marked, QueueIsTrue, TypeOK, Later
  <1>4. ASSUME NEW f \in Flushes, NEW o \in Ops, MarkFailed(f, o) PROVE QueueIsTrue'
    <2>1. o \in refused /\ status[o] # "none"
      BY <1>0, <1>4 DEF MarkFailed, FlushIsTrue, IsFirst, QueueIsTrue, Settled
    <2> QED
      BY <1>0, <1>1, <1>4, <2>1 DEF MarkFailed, Marked, QueueIsTrue, TypeOK, Later
  <1>5. ASSUME NEW f \in Flushes, Cleanup(f) PROVE QueueIsTrue'
    BY <1>0, <1>1, <1>5 DEF Cleanup, QueueIsTrue, TypeOK, Later
  <1>6. ASSUME NEW p \in Pushes, StoreKey(p) PROVE QueueIsTrue'
    <2>1. push[p].op \in Ops /\ Done(push[p].op)
      <3>1. RequestIsTrue(p) /\ push[p].pc = "mark" /\ push[p].op \in push[p].left
        BY <1>0, <1>6 DEF IInv, StoreKey, TypeOK, IsFirst
      <3> QED
        BY <1>0, <3>1 DEF RequestIsTrue, TypeOK, Push
    <2> QED
      BY <1>0, <1>1, <1>6, <2>1 DEF StoreKey, QueueIsTrue, TypeOK, Later
  <1>7. CASE UNCHANGED <<status, keys>>
    BY <1>0, <1>1, <1>7 DEF QueueIsTrue, Later, TypeOK
  <1> QED
    BY <1>2, <1>3, <1>4, <1>5, <1>6, <1>7 DEF Next, Reconnect, Send, Quit, Receive,
       InsertConflict, Restart, LookUp, Conflict, Apply, ApplyFails, Drop, Cut, vars
----------------------------------------------------------------------------
(* The flushes. *)

LEMMA FlushInv == IInv /\ TypeOK' /\ [Next]_vars => FlushIsTrue'
  <1> SUFFICES ASSUME IInv, TypeOK', [Next]_vars PROVE FlushIsTrue'
    OBVIOUS
  <1>0. TypeOK /\ FlushIsTrue /\ Later
    BY LaterInv DEF IInv
  <1>1. ASSUME NEW f \in Flushes, NEW e \in Flush, SetFlush(f, e),
               \A o \in e.synced : Done(o), e.failed \subseteq refused
        PROVE  FlushIsTrue'
    <2>1. flush'[f] = e /\ \A g \in Flushes : g # f => flush'[g] = flush[g]
      BY <1>0, <1>1, FlushSet
    <2>2. \A g \in Flushes : flush'[g].synced \subseteq Ops
      BY DEF TypeOK, Flush
    <2> QED
      BY <1>0, <1>1, <2>1, <2>2 DEF FlushIsTrue, Later
  <1>2. ASSUME NEW f \in Flushes, NEW p \in Pushes, Receive(f, p) PROVE FlushIsTrue'
    <2> DEFINE s == push[p].synced
               c == push[p].conflicts
               e == FlushAt("mark", {}, s, c, Verdict(flush[f].sent, s, c))
    <2>1. e \in Flush /\ SetFlush(f, e) /\ e.synced = s /\ e.failed = Verdict(flush[f].sent, s, c)
      BY <1>0, <1>2 DEF TypeOK, FlushAt, Flush, PushAt, Push, Verdict, Receive
    <2>2. /\ \A o \in s : Done(o)
          /\ flush[f].sent \subseteq s \cup refused
      BY <1>2, SyncAssumption DEF Receive, IInv, RequestIsTrue
    <2>3. e.failed \subseteq refused
      BY <2>1, <2>2 DEF Verdict
    <2> HIDE DEF e
    <2> QED
      BY <1>1, <2>1, <2>2, <2>3
  <1>3. ASSUME NEW f \in Flushes, NEW o \in Ops,
               MarkSynced(f, o) \/ InsertConflict(f, o) \/ MarkFailed(f, o)
        PROVE  FlushIsTrue'
    <2>1. PICK e \in Flush : SetFlush(f, e) /\ e.synced \subseteq flush[f].synced
                             /\ e.failed \subseteq flush[f].failed
      <3>1. flush[f] \in Flush
        BY <1>0 DEF TypeOK
      <3> QED
        BY <1>0, <1>3, <3>1, LeftToMark DEF MarkSynced, InsertConflict, MarkFailed, Flush
    <2> QED
      BY <1>0, <1>1, <2>1 DEF FlushIsTrue
  <1>4. ASSUME NEW f \in Flushes, NEW pc \in {"idle", "timer", "wait"}, NEW S \in SUBSET Ops,
               SetFlush(f, FlushAt(pc, S, {}, {}, {}))
        PROVE  FlushIsTrue'
    <2>1. FlushAt(pc, S, {}, {}, {}) \in Flush
      BY DEF FlushAt, Flush
    <2> QED
      BY <1>1, <1>4, <2>1 DEF FlushAt
  <1>5. CASE Restart
    BY <1>5 DEF Restart, NoFlush, FlushAt, FlushIsTrue
  <1>6. CASE UNCHANGED flush
    <2>1. \A g \in Flushes : flush[g].synced \subseteq Ops
      BY <1>0 DEF TypeOK, Flush
    <2> QED
      BY <1>0, <1>6, <2>1 DEF FlushIsTrue, Later
  <1>7. ASSUME NEW f \in Flushes, Reconnect(f) \/ Quit(f) \/ Cleanup(f) PROVE FlushIsTrue'
    BY <1>4, <1>7 DEF Reconnect, Quit, Cleanup, NoFlush
  <1>8. ASSUME NEW f \in Flushes, NEW p \in Pushes, Send(f, p) PROVE FlushIsTrue'
    BY <1>4, <1>8 DEF Send, Pending
  <1> QED
    BY <1>2, <1>3, <1>5, <1>6, <1>7, <1>8 DEF Next, Enqueue, LookUp, Conflict, Apply,
       ApplyFails, StoreKey, Drop, Cut, vars
----------------------------------------------------------------------------
(* The requests. *)

\* A request that does not move, or loses its client.
LEMMA StillTrue ==
  ASSUME TypeOK, TypeOK', Later, NEW p \in Pushes, RequestIsTrue(p),
         push'[p].left = push[p].left, push'[p].synced \subseteq push[p].synced,
         push'[p].pc = "mark" => push[p].pc = "mark" /\ push'[p].op = push[p].op,
         push'[p].client # Gone =>
            /\ push'[p].client = push[p].client /\ push'[p].synced = push[p].synced
            /\ flush'[push[p].client].sent = flush[push[p].client].sent
  PROVE  RequestIsTrue(p)'
  <1>1. push[p].synced \subseteq Ops /\ push[p].left \subseteq Ops
        /\ (push[p].pc = "mark" => push[p].op \in Ops)
    BY DEF TypeOK, Push, IsFirst
  <1> QED
    BY <1>1 DEF RequestIsTrue, Later, Settled

\* A request that leaves a settled operation behind.
LEMMA LeftBehind ==
  ASSUME TypeOK, TypeOK', Later, NEW p \in Pushes, RequestIsTrue(p),
         NEW o \in Ops, NEW s \in SUBSET Ops, NEW c \in SUBSET Ops, Answered(p, o, s, c),
         Settled(o)', \A x \in s : Done(x)', push[p].synced \subseteq s,
         o \in s \cup refused', UNCHANGED flush
  PROVE  RequestIsTrue(p)'
  <1>1. /\ push'[p].pc = "next" /\ push'[p].client = push[p].client
        /\ push'[p].left = push[p].left \ {o} /\ push'[p].synced \subseteq s
        /\ push[p].client # Gone => push'[p].synced = s
    BY AnsweredStep
  <1>2. push[p].left \subseteq Ops
    BY DEF TypeOK, Push
  <1> QED
    BY <1>1, <1>2 DEF RequestIsTrue, Later, Settled

LEMMA RequestInv == IInv /\ TypeOK' /\ [Next]_vars => \A p \in Pushes : RequestIsTrue(p)'
  <1> SUFFICES ASSUME IInv, TypeOK', [Next]_vars, NEW p \in Pushes PROVE RequestIsTrue(p)'
    OBVIOUS
  <1> USE SyncAssumption
  <1>0. /\ TypeOK /\ OneRequest /\ QueueIsTrue /\ Later /\ \A q \in Pushes : RequestIsTrue(q)
        /\ push[p].synced \subseteq Ops /\ push[p].client \in Flushes \cup {Gone}
    BY LaterInv DEF IInv, TypeOK, Push
  <1>1. CASE push'[p] = push[p] /\ \A f \in Flushes : push[p].client = f => flush'[f] = flush[f]
    BY <1>0, <1>1, StillTrue
  <1>2. ASSUME NEW f \in Flushes, NEW e \in Flush, SetFlush(f, e), flush[f].pc # "wait",
               UNCHANGED push
        PROVE  RequestIsTrue(p)'
    <2>1. push[p].client # f
      BY <1>0, <1>2 DEF TypeOK
    <2>2. \A g \in Flushes : g # f => flush'[g] = flush[g]
      BY <1>0, <1>2, FlushSet
    <2> QED
      BY <1>1, <1>2, <2>1, <2>2
  <1>3. ASSUME NEW f \in Flushes, NEW o \in Ops,
               MarkSynced(f, o) \/ InsertConflict(f, o) \/ MarkFailed(f, o)
        PROVE  RequestIsTrue(p)'
    BY <1>0, <1>2, <1>3, LeftToMark DEF MarkSynced, InsertConflict, MarkFailed
  <1>4. ASSUME NEW f \in Flushes, Reconnect(f) \/ Cleanup(f) PROVE RequestIsTrue(p)'
    <2>1. NoFlush \in Flush /\ FlushAt("timer", {}, {}, {}, {}) \in Flush
      BY DEF NoFlush, FlushAt, Flush
    <2> QED
      BY <1>2, <1>4, <2>1 DEF Reconnect, Cleanup
  <1>5. ASSUME NEW f \in Flushes, NEW q \in Pushes, Send(f, q) PROVE RequestIsTrue(p)'
    <2> DEFINE e == FlushAt("wait", Pending, {}, {}, {})
               d == PushAt("next", f, 0, Pending, {}, {})
    <2>1. e \in Flush /\ d \in Push
      BY DEF FlushAt, Flush, PushAt, Push, Pending
    <2>2. /\ flush'[f].sent = Pending
          /\ \A g \in Flushes : g # f => flush'[g] = flush[g]
      BY <1>0, <1>5, <2>1, FlushSet DEF Send, FlushAt
    <2>3. /\ push'[q].pc = "next" /\ push'[q].client = f
          /\ push'[q].left = Pending /\ push'[q].synced = {}
          /\ \A r \in Pushes : r # q => push'[r] = push[r]
      BY <1>0, <1>5, <2>1, PushSet DEF Send, PushAt
    <2>4. CASE p = q
      <3>1. status' = status /\ applied' = applied /\ refused' = refused
        BY <1>5 DEF Send
      <3>2. \A o \in Pending, x \in Ops : x < o => x \in Pending \/ Settled(x)
        BY <1>0 DEF QueueIsTrue, Pending, TypeOK, Settled
      <3>3. \A o \in Pending : status'[o] # "none"
        BY <3>1 DEF Pending
      <3> QED
        BY <2>2, <2>3, <2>4, <3>1, <3>2, <3>3 DEF RequestIsTrue, Settled, Done
    <2>5. CASE p # q
      <3>1. push[p].client # f
        BY <1>0, <1>5 DEF TypeOK, Send
      <3> QED
        BY <1>1, <2>2, <2>3, <2>5, <3>1
    <2> QED
      BY <2>4, <2>5
  <1>6. ASSUME NEW q \in Pushes, SetPush(q, NoPush),
               p # q => \A f \in Flushes : push[p].client = f => flush'[f] = flush[f]
        PROVE  RequestIsTrue(p)'
    <2>1. NoPush \in Push
      BY DEF NoPush, PushAt, Push
    <2>2. push'[q] = NoPush /\ \A r \in Pushes : r # q => push'[r] = push[r]
      BY <1>0, <1>6, <2>1, PushSet
    <2>3. CASE p = q
      BY <2>2, <2>3 DEF RequestIsTrue, NoPush, PushAt
    <2> QED
      BY <1>1, <1>6, <2>2, <2>3
  <1>7. ASSUME NEW f \in Flushes, NEW q \in Pushes, Receive(f, q) PROVE RequestIsTrue(p)'
    <2> DEFINE s == push[q].synced
               c == push[q].conflicts
               e == FlushAt("mark", {}, s, c, Verdict(flush[f].sent, s, c))
    <2>1. e \in Flush
      BY <1>0 DEF TypeOK, FlushAt, Flush, Push, Verdict
    <2>2. \A g \in Flushes : g # f => flush'[g] = flush[g]
      BY <1>0, <1>7, <2>1, FlushSet DEF Receive
    <2>3. p # q => push[p].client # f
      BY <1>0, <1>7 DEF OneRequest, Receive
    <2> QED
      BY <1>6, <1>7, <2>2, <2>3 DEF Receive
  <1>8. ASSUME NEW q \in Pushes, Drop(q) \/ Cut(q) PROVE RequestIsTrue(p)'
    BY <1>6, <1>8 DEF Drop, Cut
  <1>9. ASSUME NEW fs \in SUBSET Flushes, push' = Orphaned(fs),
               \A f \in Flushes \ fs : flush'[f] = flush[f]
        PROVE  RequestIsTrue(p)'
    <2>1. /\ push'[p].pc = push[p].pc /\ push'[p].op = push[p].op
          /\ push'[p].left = push[p].left /\ push'[p].synced \subseteq push[p].synced
          /\ push'[p].client # Gone => push[p].client \notin fs /\ push'[p] = push[p]
      BY <1>0, <1>9, OrphanedStep
    <2> QED
      BY <1>0, <1>9, <2>1, StillTrue
  <1>10. ASSUME NEW f \in Flushes, Quit(f) PROVE RequestIsTrue(p)'
    <2>1. NoFlush \in Flush
      BY DEF NoFlush, FlushAt, Flush
    <2> QED
      BY <1>0, <1>9, <1>10, <2>1, FlushSet DEF Quit
  <1>11. CASE Restart
    BY <1>9, <1>11 DEF Restart
  <1>12. ASSUME NEW q \in Pushes, NEW o \in Ops, NEW pc \in {"apply", "mark"},
                SetPush(q, StandAt(q, pc, o)), pc = "mark" => Done(o)', UNCHANGED flush
         PROVE  RequestIsTrue(p)'
    <2>1. /\ push'[q].pc = pc /\ push'[q].op = o /\ push'[q].client = push[q].client
          /\ push'[q].left = push[q].left /\ push'[q].synced = push[q].synced
          /\ \A r \in Pushes : r # q => push'[r] = push[r]
      BY <1>0, <1>12, StandStep
    <2>2. CASE p = q
      <3>1. push[p].left \subseteq Ops
        BY <1>0 DEF TypeOK, Push
      <3> QED
        BY <1>0, <1>12, <2>1, <2>2, <3>1 DEF RequestIsTrue, Later, Settled
    <2> QED
      BY <1>1, <1>12, <2>1, <2>2
  <1>13. ASSUME NEW q \in Pushes, NEW o \in Ops, NEW s \in SUBSET Ops, NEW c \in SUBSET Ops,
                Answered(q, o, s, c), Settled(o)', \A x \in s : Done(x)',
                push[q].synced \subseteq s, o \in s \cup refused', UNCHANGED flush
         PROVE  RequestIsTrue(p)'
    <2>1. \A r \in Pushes : r # q => push'[r] = push[r]
      BY <1>0, <1>13, AnsweredStep
    <2>2. CASE p = q
      BY <1>0, <1>13, <2>2, LeftBehind
    <2> QED
      BY <1>1, <1>13, <2>1, <2>2
  <1>14. ASSUME NEW q \in Pushes, NEW o \in Ops, LookUp(q, o) PROVE RequestIsTrue(p)'
    <2> DEFINE s == push[q].synced \cup {o}
               c == push[q].conflicts
    <2>1. s \in SUBSET Ops /\ c \in SUBSET Ops
      BY <1>0 DEF TypeOK, Push
    <2>2. CASE Used(o) /\ Answered(q, o, s, c)
      <3>1. Done(o)' /\ \A x \in s : Done(x)'
        BY <1>0, <2>1, <2>2 DEF Used, QueueIsTrue, Later, RequestIsTrue
      <3> QED
        BY <1>13, <1>14, <2>1, <2>2, <3>1 DEF LookUp, Settled
    <2>3. CASE SetPush(q, StandAt(q, "apply", o))
      BY <1>12, <1>14, <2>3 DEF LookUp
    <2> QED
      BY <1>14, <2>2, <2>3 DEF LookUp
  <1>15. ASSUME NEW q \in Pushes, NEW o, o = push[q].op,
                Conflict(q) \/ Apply(q) \/ ApplyFails(q) \/ StoreKey(q)
         PROVE  RequestIsTrue(p)'
    <2> DEFINE s == push[q].synced
               c == push[q].conflicts
    <2>1. o \in Ops /\ o \in push[q].left /\ s \in SUBSET Ops /\ c \cup {o} \in SUBSET Ops
      BY <1>0, <1>15 DEF TypeOK, Push, IsFirst, Conflict, Apply, ApplyFails, StoreKey
    <2>2. \A x \in s : Done(x)'
      BY <1>0, <2>1 DEF RequestIsTrue, Later
    <2>3. CASE Apply(q)
      <3>1. Done(o)'
        BY <1>0, <1>15, <2>1, <2>3 DEF Apply, Done, TypeOK
      <3> QED
        BY <1>12, <1>15, <2>1, <2>3, <3>1 DEF Apply
    <2>4. CASE Conflict(q)
      BY <1>13, <1>15, <2>1, <2>2, <2>4 DEF Conflict, Settled
    <2>5. CASE ApplyFails(q)
      BY <1>13, <1>15, <2>1, <2>2, <2>5 DEF ApplyFails, Settled
    <2>6. CASE StoreKey(q)
      <3>1. Done(o)'
        BY <1>0, <1>15, <2>1, <2>6 DEF StoreKey, RequestIsTrue, Later
      <3>2. s \cup {o} \in SUBSET Ops /\ \A x \in s \cup {o} : Done(x)'
        BY <2>1, <2>2, <3>1
      <3> QED
        BY <1>13, <1>15, <2>1, <2>6, <3>1, <3>2 DEF StoreKey, Settled
    <2> QED
      BY <1>15, <2>3, <2>4, <2>5, <2>6
  <1>16. CASE UNCHANGED <<push, flush>>
    BY <1>1, <1>16
  <1> QED
    BY <1>3, <1>4, <1>5, <1>7, <1>8, <1>10, <1>11, <1>14, <1>15, <1>16 DEF Next, Enqueue, vars
----------------------------------------------------------------------------
(* The order of what is applied. *)

LEMMA OrderInv == IInv /\ TypeOK' /\ [Next]_vars => InOrder'
  <1> SUFFICES ASSUME IInv, TypeOK', [Next]_vars, NEW early \in Ops, NEW late \in Ops,
                      early < late, applied'[late] > 0
               PROVE  applied'[early] > 0 \/ early \in refused'
    BY DEF InOrder
  <1>0. TypeOK /\ InOrder /\ Later
    BY LaterInv DEF IInv
  <1>1. CASE Settled(early)
    BY <1>0, <1>1 DEF Settled, Later, Done
  <1>2. CASE applied[late] > 0
    BY <1>0, <1>1, <1>2 DEF InOrder, Settled, Done
  <1>3. ASSUME NEW p \in Pushes, Apply(p) \/ ApplyFails(p), late = push[p].op PROVE Settled(early)
    <2>1. late \in push[p].left /\ early \notin push[p].left
      BY <1>0, <1>3 DEF TypeOK, IsFirst, Apply, ApplyFails, Ops
    <2> QED
      BY <2>1 DEF IInv, RequestIsTrue
  <1>4. ASSUME NEW p \in Pushes, Apply(p) \/ ApplyFails(p), late # push[p].op
        PROVE  applied[late] > 0
    BY <1>0, <1>4 DEF Apply, ApplyFails, TypeOK
  <1>5. CASE UNCHANGED applied
    BY <1>2, <1>5
  <1> QED
    BY <1>1, <1>2, <1>3, <1>4, <1>5 DEF Next, Enqueue, Reconnect, Send, Quit, Receive, MarkSynced,
       InsertConflict, MarkFailed, Cleanup, Restart, LookUp, Conflict, StoreKey, Drop, Cut, vars
----------------------------------------------------------------------------
(* How often an operation is applied. *)

LEMMA Sizes ==
  ASSUME NEW o
  PROVE  /\ IsFiniteSet(Applying(o)) /\ Cardinality(Applying(o)) \in Nat
         /\ IsFiniteSet(Marking(o)) /\ Cardinality(Marking(o)) \in Nat
         /\ Cardinality(Pushes) \in Nat
         /\ Cardinality(Applying(o)) + Cardinality(Marking(o)) <= Cardinality(Pushes)
  <1> USE SyncAssumption
  <1>1. Applying(o) \subseteq Pushes /\ Marking(o) \subseteq Pushes
    BY DEF Applying, Marking
  <1>2. /\ IsFiniteSet(Applying(o)) /\ Cardinality(Applying(o)) \in Nat
        /\ IsFiniteSet(Marking(o)) /\ Cardinality(Marking(o)) \in Nat
        /\ Cardinality(Pushes) \in Nat
    BY <1>1, FS_Subset, FS_CardinalityType
  <1>3. Applying(o) \cap Marking(o) = {}
    BY DEF Applying, Marking
  <1>4. Cardinality(Applying(o) \cup Marking(o))
           = Cardinality(Applying(o)) + Cardinality(Marking(o)) - Cardinality({})
    BY <1>2, <1>3, FS_Union
  <1>5. Cardinality(Applying(o) \cup Marking(o)) <= Cardinality(Pushes)
    BY <1>1, FS_Subset
  <1> QED
    BY <1>2, <1>4, <1>5, FS_EmptySet

LEMMA SizesNext ==
  ASSUME NEW o
  PROVE  Cardinality(Applying(o)') \in Nat /\ Cardinality(Marking(o)') \in Nat
  <1>1. Applying(o)' \subseteq Pushes /\ Marking(o)' \subseteq Pushes
    BY DEF Applying, Marking
  <1> QED
    BY <1>1, FS_Subset, FS_CardinalityType, SyncAssumption

\* A set that a request leaves, or comes to, differs by one.
LEMMA OneLess ==
  ASSUME NEW S, IsFiniteSet(S), Cardinality(S) \in Nat, NEW p
  PROVE  /\ Cardinality(S \ {p}) <= Cardinality(S)
         /\ p \in S => Cardinality(S \ {p}) = Cardinality(S) - 1
         /\ Cardinality(S \cup {p}) <= Cardinality(S) + 1
         /\ p \notin S => Cardinality(S \cup {p}) = Cardinality(S) + 1
         /\ p \in S => S \cup {p} = S
         /\ p \notin S => S \ {p} = S
  <1>1. CASE p \in S
    <2>1. S \cup {p} = S
      BY <1>1
    <2>2. Cardinality(S \ {p}) = Cardinality(S) - 1
      BY <1>1, FS_RemoveElement
    <2> QED
      BY <1>1, <2>1, <2>2
  <1>2. CASE p \notin S
    <2>1. S \ {p} = S
      BY <1>2
    <2>2. Cardinality(S \cup {p}) = Cardinality(S) + 1
      BY <1>2, FS_AddElement
    <2>3. Cardinality(S \ {p}) = Cardinality(S)
      BY <2>1, Zenon
    <2> QED
      BY <1>2, <2>1, <2>2, <2>3
  <1> QED
    BY <1>1, <1>2

\* What the step of one request does to the two sets.
LEMMA Moves ==
  ASSUME NEW p \in Pushes, \A q \in Pushes : q # p => push'[q] = push[q], NEW o
  PROVE  /\ Applying(o)' = IF push'[p].pc = "apply" /\ push'[p].op = o
                           THEN Applying(o) \cup {p} ELSE Applying(o) \ {p}
         /\ Marking(o)' = IF push'[p].pc = "mark" /\ push'[p].op = o
                          THEN Marking(o) \cup {p} ELSE Marking(o) \ {p}
  BY DEF Applying, Marking

LEMMA StillCounted ==
  ASSUME TypeOK, TypeOK', NEW o \in Ops, Counted(o), o \in keys' <=> o \in keys,
         o \notin keys => applied'[o] + Cardinality(Marking(o)) + lost
                             <= applied[o] + Cardinality(Marking(o)') + lost',
         o \in keys => applied'[o] + Cardinality(Applying(o)') + lost
                             <= applied[o] + Cardinality(Applying(o)) + lost'
  PROVE  Counted(o)'
  <1>1. applied[o] \in Nat /\ applied'[o] \in Nat /\ lost \in Nat /\ lost' \in Nat
    BY SyncAssumption DEF TypeOK
  <1> QED
    BY <1>1, Sizes, SizesNext DEF Counted

\* A step that leaves the two sets alone.
LEMMA QuietCounted ==
  ASSUME TypeOK, TypeOK', NEW o \in Ops, Counted(o), UNCHANGED <<keys, applied>>, lost' >= lost,
         \A q \in Pushes :
            push[q].pc \in {"apply", "mark"} \/ push'[q].pc \in {"apply", "mark"}
               => push'[q].pc = push[q].pc /\ push'[q].op = push[q].op
  PROVE  Counted(o)'
  <1>1. Applying(o)' = Applying(o) /\ Marking(o)' = Marking(o)
    BY DEF Applying, Marking
  <1>2. applied[o] \in Nat /\ lost \in Nat /\ lost' \in Nat
    BY SyncAssumption DEF TypeOK
  <1> QED
    BY <1>1, <1>2, Sizes, StillCounted

LEMMA CountInv == IInv /\ TypeOK' /\ [Next]_vars => \A o \in Ops : Counted(o)'
  <1> SUFFICES ASSUME IInv, TypeOK', [Next]_vars, NEW o \in Ops PROVE Counted(o)'
    OBVIOUS
  <1> USE SyncAssumption
  <1> DEFINE A == Applying(o)  M == Marking(o)
  <1>0. /\ TypeOK /\ Counted(o) /\ applied \in [Ops -> Nat] /\ lost \in Nat /\ lost' \in Nat
        /\ applied'[o] \in Nat
    BY DEF IInv, TypeOK
  <1>1. CASE UNCHANGED <<push, keys, applied, lost>>
    BY <1>0, <1>1, QuietCounted
  <1>2. ASSUME NEW fs \in SUBSET Flushes, push' = Orphaned(fs), UNCHANGED <<keys, applied, lost>>
        PROVE  Counted(o)'
    BY <1>0, <1>2, OrphanedStep, QuietCounted
  <1>3. ASSUME NEW p \in Pushes, push[p].pc \notin {"apply", "mark"},
               push'[p].pc \in {"idle", "next"},
               \A q \in Pushes : q # p => push'[q] = push[q], UNCHANGED <<keys, applied, lost>>
        PROVE  Counted(o)'
    BY <1>0, <1>3, QuietCounted
  <1>4. ASSUME NEW f \in Flushes, NEW p \in Pushes, Send(f, p) \/ Receive(f, p) PROVE Counted(o)'
    <2>1. PICK e : SetPush(p, e) /\ e.pc \in {"idle", "next"}
      BY <1>4 DEF Send, Receive, NoPush, PushAt
    <2>2. push'[p].pc \in {"idle", "next"} /\ \A q \in Pushes : q # p => push'[q] = push[q]
      BY <1>0, <2>1 DEF SetPush, TypeOK
    <2> QED
      BY <1>3, <1>4, <2>2 DEF Send, Receive
  <1>5. /\ Cardinality(A) \in Nat /\ Cardinality(M) \in Nat
        /\ Cardinality(A') \in Nat /\ Cardinality(M') \in Nat
    BY Sizes, SizesNext
  <1>6. ASSUME o \in keys' <=> o \in keys, NEW n \in {0, 1}, applied'[o] = applied[o] + n,
               n + Cardinality(M) + lost <= Cardinality(M') + lost',
               n + Cardinality(A') + lost <= Cardinality(A) + lost'
        PROVE  Counted(o)'
    <2> HIDE DEF A, M
    <2>1. applied[o] \in Nat /\ n \in Nat
      BY <1>0
    <2>2. /\ applied'[o] + Cardinality(M) + lost <= applied[o] + Cardinality(M') + lost'
          /\ applied'[o] + Cardinality(A') + lost <= applied[o] + Cardinality(A) + lost'
      BY <1>0, <1>5, <1>6, <2>1
    <2> QED
      BY <1>0, <1>6, <2>2, StillCounted DEF A, M
  <1>7. ASSUME NEW p \in Pushes, Drop(p) \/ Cut(p) PROVE Counted(o)'
    <2>1. push'[p].pc = "idle" /\ \A q \in Pushes : q # p => push'[q] = push[q]
      BY <1>0, <1>7 DEF SetPush, TypeOK, Drop, Cut, NoPush, PushAt
    <2>2. A' = A \ {p} /\ M' = M \ {p} /\ UNCHANGED <<keys, applied>>
      BY <1>7, <2>1, Moves DEF Drop, Cut
    <2>3. lost' >= lost /\ (p \in M => lost' = lost + 1)
      <3>1. p \in M => push[p].pc = "mark"
        BY DEF Marking
      <3> QED
        BY <1>0, <1>7, <3>1 DEF Drop, Cut, Slip
    <2>4. Cardinality(A') <= Cardinality(A)
      BY <2>2, Sizes, OneLess
    <2>5. Cardinality(M) + lost <= Cardinality(M') + lost'
      <3>1. (p \in M => Cardinality(M \ {p}) = Cardinality(M) - 1) /\ (p \notin M => M \ {p} = M)
        BY Sizes, OneLess
      <3> HIDE DEF A, M
      <3>2. CASE p \in M
        <4>1. Cardinality(M') = Cardinality(M) - 1
          BY <2>2, <3>1, <3>2
        <4> QED
          BY <1>0, <1>5, <2>3, <3>2, <4>1
      <3>3. CASE p \notin M
        BY <1>0, <1>5, <2>2, <2>3, <3>1, <3>3
      <3> QED
        BY <3>2, <3>3
    <2> HIDE DEF A, M
    <2>6. /\ applied'[o] = applied[o] + 0
          /\ 0 + Cardinality(M) + lost <= Cardinality(M') + lost'
          /\ 0 + Cardinality(A') + lost <= Cardinality(A) + lost'
      BY <1>0, <1>5, <2>2, <2>3, <2>4, <2>5
    <2> QED
      BY <1>6, <2>2, <2>6
  <1>8. ASSUME NEW p \in Pushes, NEW x \in Ops, LookUp(p, x) PROVE Counted(o)'
    <2>1. push[p].pc = "next" /\ UNCHANGED <<keys, applied>> /\ lost' >= lost
      BY <1>0, <1>8 DEF LookUp, Slip
    <2>2. CASE Used(x) /\ Answered(p, x, push[p].synced \cup {x}, push[p].conflicts)
      <3>1. push'[p].pc = "next" /\ \A q \in Pushes : q # p => push'[q] = push[q]
        BY <1>0, <2>2 DEF Answered, SetPush, PushAt, TypeOK
      <3> QED
        BY <1>0, <2>1, <3>1, QuietCounted
    <2>3. CASE SetPush(p, StandAt(p, "apply", x)) /\ IF Used(x) THEN Slip ELSE UNCHANGED lost
      <3>1. /\ push'[p].pc = "apply" /\ push'[p].op = x
            /\ \A q \in Pushes : q # p => push'[q] = push[q]
        BY <1>0, <2>3, StandStep
      <3>2. A' = (IF x = o THEN A \cup {p} ELSE A \ {p}) /\ M' = M \ {p}
        BY <3>1, Moves
      <3>3. p \notin A /\ p \notin M
        BY <2>1 DEF Applying, Marking
      <3>4. M' = M /\ Cardinality(A') <= (IF x = o THEN Cardinality(A) + 1 ELSE Cardinality(A))
        BY <3>2, <3>3, Sizes, OneLess
      <3>5. o \in keys /\ x = o => lost' = lost + 1
        BY <2>3 DEF Used, Slip
      <3> HIDE DEF A, M
      <3>6. o \notin keys => applied'[o] + Cardinality(M) + lost
                                 <= applied[o] + Cardinality(M') + lost'
        BY <1>0, <1>5, <2>1, <3>4
      <3>7. o \in keys => applied'[o] + Cardinality(A') + lost
                              <= applied[o] + Cardinality(A) + lost'
        BY <1>0, <1>5, <2>1, <3>4, <3>5
      <3> QED
        BY <1>0, <2>1, <3>6, <3>7, StillCounted DEF A, M
    <2> QED
      BY <1>8, <2>2, <2>3 DEF LookUp
  <1>9. ASSUME NEW p \in Pushes, NEW x, x = push[p].op, push[p].pc \in {"apply", "mark"},
               Conflict(p) \/ Apply(p) \/ ApplyFails(p) \/ StoreKey(p)
        PROVE  Counted(o)'
    <2>1. /\ x \in Ops
          /\ p \in A <=> (x = o /\ push[p].pc = "apply")
          /\ p \in M <=> (x = o /\ push[p].pc = "mark")
      BY <1>0, <1>9 DEF TypeOK, IsFirst, Push, Applying, Marking
    <2>2. CASE Apply(p)
      <3>1. /\ push'[p].pc = "mark" /\ push'[p].op = x
            /\ \A q \in Pushes : q # p => push'[q] = push[q]
        <4>1. SetPush(p, StandAt(p, "mark", x))
          BY <1>9, <2>2 DEF Apply
        <4> QED
          BY <1>0, <2>1, <4>1, StandStep
      <3>2. M' = (IF x = o THEN M \cup {p} ELSE M \ {p}) /\ A' = A \ {p}
        BY <3>1, Moves
      <3>3. push[p].pc = "apply" /\ UNCHANGED <<keys, lost>>
              /\ applied' = [applied EXCEPT ![x] = @ + 1]
        BY <1>9, <2>2 DEF Apply
      <3>4. CASE x = o
        <4>1. Cardinality(M') = Cardinality(M) + 1 /\ Cardinality(A') = Cardinality(A) - 1
          BY <2>1, <3>2, <3>3, <3>4, Sizes, OneLess
        <4>2. applied'[o] = applied[o] + 1
          BY <1>0, <3>3, <3>4
        <4> HIDE DEF A, M
        <4>3. /\ 1 + Cardinality(M) + lost <= Cardinality(M') + lost'
              /\ 1 + Cardinality(A') + lost <= Cardinality(A) + lost'
          BY <1>0, <1>5, <3>3, <4>1
        <4> QED
          BY <1>6, <3>3, <4>2, <4>3
      <3>5. CASE x # o
        <4>1. M' = M /\ A' = A
          BY <2>1, <3>2, <3>5
        <4>2. applied'[o] = applied[o] + 0
          BY <1>0, <3>3, <3>5
        <4> HIDE DEF A, M
        <4>3. /\ 0 + Cardinality(M) + lost <= Cardinality(M') + lost'
              /\ 0 + Cardinality(A') + lost <= Cardinality(A) + lost'
          BY <1>0, <1>5, <3>3, <4>1
        <4> QED
          BY <1>6, <3>3, <4>2, <4>3
      <3> QED
        BY <3>4, <3>5
    <2>3. CASE Conflict(p) \/ ApplyFails(p) \/ StoreKey(p)
      <3>1. push'[p].pc = "next" /\ \A q \in Pushes : q # p => push'[q] = push[q]
        BY <1>0, <2>3 DEF Conflict, ApplyFails, StoreKey, Answered, SetPush, PushAt, TypeOK
      <3>2. M' = M \ {p} /\ A' = A \ {p}
        BY <3>1, Moves
      <3>3. Cardinality(A') <= Cardinality(A)
        BY <3>2, Sizes, OneLess
      <3>4. CASE Conflict(p) \/ ApplyFails(p)
        <4>1. M' = M /\ UNCHANGED keys
          BY <2>1, <3>2, <3>4 DEF Conflict, ApplyFails
        <4>2. PICK n \in {0, 1} : applied'[o] = applied[o] + n /\ lost' >= lost + n
          <5>1. lost' = lost \/ lost' = lost + 1
            BY <3>4 DEF Conflict, ApplyFails, Slip
          <5>2. applied'[o] = applied[o] \/ (applied'[o] = applied[o] + 1 /\ lost' = lost + 1)
            BY <1>0, <2>1, <3>4 DEF Conflict, ApplyFails, Slip
          <5> QED
            BY <1>0, <5>1, <5>2
        <4> HIDE DEF A, M
        <4>3. /\ n + Cardinality(M) + lost <= Cardinality(M') + lost'
              /\ n + Cardinality(A') + lost <= Cardinality(A) + lost'
          BY <1>0, <1>5, <3>3, <4>1, <4>2
        <4> QED
          BY <1>6, <4>1, <4>2, <4>3
      <3>5. CASE StoreKey(p)
        <4>1. /\ UNCHANGED applied /\ push[p].pc = "mark"
              /\ \/ keys' = keys \cup {x} /\ UNCHANGED lost
                 \/ UNCHANGED keys /\ lost' = lost + 1
          BY <1>9, <3>5 DEF StoreKey, Slip
        <4>2. A' = A
          BY <2>1, <3>2, <4>1
        <4>3. Cardinality(M) <= Cardinality(M') + 1 /\ (x # o => M' = M)
          <5>1. p \in M => Cardinality(M \ {p}) = Cardinality(M) - 1
            BY Sizes, OneLess
          <5>2. p \notin M => M' = M
            BY <3>2
          <5> HIDE DEF A, M
          <5>3. CASE p \in M
            <6>1. Cardinality(M') = Cardinality(M) - 1
              BY <3>2, <5>1, <5>3
            <6> QED
              BY <1>5, <2>1, <5>3, <6>1
          <5>4. CASE p \notin M
            BY <1>5, <5>2, <5>4
          <5> QED
            BY <5>3, <5>4
        <4>4. CASE o \in keys' <=> o \in keys
          <5> HIDE DEF A, M
          <5>1. o \notin keys => applied'[o] + Cardinality(M) + lost
                                     <= applied[o] + Cardinality(M') + lost'
            BY <1>0, <1>5, <4>1, <4>3, <4>4
          <5>2. o \in keys => applied'[o] + Cardinality(A') + lost
                                  <= applied[o] + Cardinality(A) + lost'
            BY <1>0, <1>5, <4>1, <4>2
          <5> QED
            BY <1>0, <4>4, <5>1, <5>2, StillCounted DEF A, M
        <4>5. CASE o \notin keys /\ o \in keys'
          <5>1. applied[o] <= Cardinality(M) + lost /\ lost' = lost /\ applied'[o] = applied[o]
            BY <1>0, <4>1, <4>5 DEF Counted
          <5>2. Cardinality(A) + Cardinality(M) <= Cardinality(Pushes)
                  /\ Cardinality(Pushes) \in Nat
            BY Sizes
          <5>3. applied'[o] + Cardinality(A') <= Cardinality(Pushes) + lost'
            <6> HIDE DEF A, M
            <6> QED
              BY <1>0, <1>5, <4>2, <5>1, <5>2
          <5> QED
            BY <4>5, <5>3 DEF Counted
        <4> QED
          BY <4>1, <4>4, <4>5
      <3> QED
        BY <2>3, <3>4, <3>5
    <2> QED
      BY <1>9, <2>2, <2>3
  <1>10. ASSUME NEW p \in Pushes, Conflict(p) \/ Apply(p) \/ ApplyFails(p) \/ StoreKey(p)
         PROVE  Counted(o)'
    BY <1>9, <1>10 DEF Conflict, Apply, ApplyFails, StoreKey
  <1>11. CASE Restart \/ UNCHANGED vars
    BY <1>1, <1>2, <1>11 DEF Restart, vars
  <1>12. ASSUME NEW f \in Flushes, Quit(f) PROVE Counted(o)'
    BY <1>2, <1>12 DEF Quit
  <1> QED
    BY <1>1, <1>4, <1>7, <1>8, <1>10, <1>11, <1>12 DEF Next, Enqueue, Reconnect, MarkSynced,
       InsertConflict, MarkFailed, Cleanup
----------------------------------------------------------------------------
LEMMA StepInv == IInv /\ [Next]_vars => IInv'
  <1>1. IInv => TypeOK /\ OneRequest
    BY DEF IInv
  <1> QED
    BY <1>1, TypeInv, OneRequestInv, QueueInv, FlushInv, RequestInv, OrderInv, CountInv DEF IInv

\* For any number of operations, flushes and requests: the queue, the flushes and
\* the requests under way stay well-formed, and a request works on the first of
\* the operations that are left to it.
THEOREM Typed == Spec => []TypeOK
  <1>1. IInv => TypeOK
    BY DEF IInv
  <1> QED
    BY InitInv, StepInv, <1>1, PTL DEF Spec

\* The server applies an operation at most once for each request that it runs at
\* the same time, and once more for each call that failed at a bad moment.
THEOREM Applied_Few_Times == Spec => []AppliedFewTimes
  <1>1. IInv => AppliedFewTimes
    <2> SUFFICES ASSUME IInv, NEW o \in Ops
                 PROVE  applied[o] <= Cardinality(Pushes) + lost
      BY DEF AppliedFewTimes
    <2>1. Counted(o) /\ applied[o] \in Nat /\ lost \in Nat
      BY SyncAssumption DEF IInv, TypeOK
    <2> QED
      BY <2>1, Sizes DEF Counted
  <1> QED
    BY InitInv, StepInv, <1>1, PTL DEF Spec

\* No change overtakes an earlier one that the server has not left out.
THEOREM In_Order == Spec => []InOrder
  <1>1. IInv => InOrder
    BY DEF IInv
  <1> QED
    BY InitInv, StepInv, <1>1, PTL DEF Spec

\* No operation leaves the queue, or is shown as synced, before the server has
\* applied it, and none is shown as failed that the server has not left out.
THEOREM Nothing_Disappears == Spec => []NothingDisappears
  <1>1. IInv => NothingDisappears
    <2> SUFFICES ASSUME IInv, NEW o \in Ops, status[o] # "none", applied[o] = 0
                 PROVE  status[o] = "pending" \/ (status[o] = "failed" /\ o \in refused)
      BY DEF NothingDisappears
    <2>1. status[o] \in {"none", "pending", "synced", "failed", "deleted"} /\ ~Done(o)
      BY DEF IInv, TypeOK, Done
    <2> QED
      BY <2>1 DEF IInv, QueueIsTrue
  <1> QED
    BY InitInv, StepInv, <1>1, PTL DEF Spec
----------------------------------------------------------------------------
(* The refinement of Outbox. *)

EntryOf(o) == [row |-> status[o], applied |-> applied[o], refused |-> o \in refused]

\* A step that writes the entry of one operation.
LEMMA OneEntry ==
  ASSUME NEW o \in Ops, NEW row, NEW n, NEW out,
         EntryOf(o)' = [row |-> row, applied |-> n, refused |-> out],
         \A x \in Ops \ {o} : EntryOf(x)' = EntryOf(x)
  PROVE  Box!Write(o, row, n, out)
  BY DEF Box!Write, outbox, EntryOf

\* .. its row or how often it was applied ..
LEMMA Counts ==
  ASSUME NEW o \in Ops, NEW row, NEW n,
         status'[o] = row, applied'[o] = n, UNCHANGED refused,
         \A x \in Ops \ {o} : status'[x] = status[x] /\ applied'[x] = applied[x]
  PROVE  Box!Write(o, row, n, outbox[o].refused)
  <1>1. outbox[o].refused = (o \in refused)
    BY DEF outbox
  <1>2. EntryOf(o)' = [row |-> row, applied |-> n, refused |-> o \in refused]
    BY DEF EntryOf
  <1>3. \A x \in Ops \ {o} : EntryOf(x)' = EntryOf(x)
    BY DEF EntryOf
  <1>4. Box!Write(o, row, n, o \in refused)
    BY <1>2, <1>3, OneEntry
  <1> QED
    BY <1>1, <1>4

\* .. or that it was left out.
LEMMA LeavesOut ==
  ASSUME NEW o \in Ops, NEW n,
         applied'[o] = n, refused' = refused \cup {o}, UNCHANGED status,
         \A x \in Ops \ {o} : applied'[x] = applied[x]
  PROVE  Box!Write(o, outbox[o].row, n, TRUE)
  <1>1. outbox[o].row = status[o]
    BY DEF outbox
  <1>2. (o \in refused') = TRUE /\ \A x \in Ops \ {o} : (x \in refused') = (x \in refused)
    OBVIOUS
  <1>3. EntryOf(o)' = [row |-> status[o], applied |-> n, refused |-> TRUE]
    BY <1>2 DEF EntryOf
  <1>4. \A x \in Ops \ {o} : EntryOf(x)' = EntryOf(x)
    BY <1>2 DEF EntryOf
  <1>5. Box!Write(o, status[o], n, TRUE)
    BY <1>3, <1>4, OneEntry
  <1> QED
    BY <1>1, <1>5

\* A step that writes none.
LEMMA NoEntry ==
  ASSUME UNCHANGED <<status, applied, refused>>
  PROVE  UNCHANGED outbox
  BY DEF outbox

\* An operation that a request is about to apply, or to leave out, is queued, and
\* those before it are settled.
LEMMA ItsTurn ==
  ASSUME IInv, NEW p \in Pushes, push[p].pc = "apply"
  PROVE  push[p].op \in Ops /\ Box!Turn(push[p].op)
  <1> DEFINE o == push[p].op
  <1>1. /\ o \in Ops /\ o \in push[p].left
        /\ \A x \in push[p].left : o <= x
    BY DEF IInv, TypeOK, Push, IsFirst
  <1>2. /\ status[o] # "none"
        /\ \A x \in Ops : x < o => x \in push[p].left \/ Settled(x)
    BY <1>1 DEF IInv, RequestIsTrue
  <1>3. \A x \in Ops : x < o => Settled(x)
    BY <1>1, <1>2 DEF Ops
  <1> QED
    BY <1>1, <1>2, <1>3 DEF Box!Turn, Box!Settled, outbox, Settled, Done

LEMMA BoxInit == Init => Box!Init
  <1> SUFFICES ASSUME Init PROVE Box!Init
    OBVIOUS
  <1>1. \A o \in Ops : (o \in refused) = FALSE
    BY DEF Init
  <1>2. \A o \in Ops : outbox[o] = [row |-> "none", applied |-> 0, refused |-> FALSE]
    BY <1>1 DEF Init, outbox
  <1>3. outbox = [o \in Ops |-> outbox[o]]
    BY DEF outbox
  <1> QED
    BY <1>2, <1>3 DEF Box!Init

LEMMA BoxNext == IInv /\ [Next]_vars => [Box!Next]_outbox
  <1> SUFFICES ASSUME IInv, [Next]_vars PROVE [Box!Next]_outbox
    OBVIOUS
  <1>0. TypeOK /\ QueueIsTrue /\ FlushIsTrue
    BY DEF IInv
  <1>1. ASSUME NEW o \in Ops, Enqueue(o) PROVE Box!Next
    <2>0. /\ status'[o] = "pending" /\ applied'[o] = outbox[o].applied /\ UNCHANGED refused
          /\ \A x \in Ops \ {o} : status'[x] = status[x] /\ applied'[x] = applied[x]
      BY <1>0, <1>1 DEF Enqueue, outbox, TypeOK
    <2>1. Box!Write(o, "pending", outbox[o].applied, outbox[o].refused)
      BY <2>0, Counts
    <2>2. Box!Queue(o)
      BY <1>1, <2>1 DEF Enqueue, Box!Queue, outbox
    <2> QED
      BY <2>2 DEF Box!Next
  <1>2. ASSUME NEW f \in Flushes, NEW o \in Ops, MarkSynced(f, o) PROVE [Box!Next]_outbox
    <2>1. Done(o) /\ status[o] # "none"
      BY <1>0, <1>2 DEF MarkSynced, FlushIsTrue, IsFirst, QueueIsTrue, Settled
    <2>2. CASE status[o] = "deleted"
      <3>1. UNCHANGED <<status, applied, refused>>
        BY <1>0, <1>2, <2>2 DEF MarkSynced, Marked, TypeOK
      <3> QED
        BY <3>1, NoEntry
    <2>3. CASE status[o] # "deleted"
      <3>0. /\ status'[o] = "synced" /\ applied'[o] = outbox[o].applied /\ UNCHANGED refused
            /\ \A x \in Ops \ {o} : status'[x] = status[x] /\ applied'[x] = applied[x]
        BY <1>0, <1>2, <2>3 DEF MarkSynced, Marked, outbox, TypeOK
      <3>1. Box!Write(o, "synced", outbox[o].applied, outbox[o].refused)
        BY <3>0, Counts
      <3>2. Box!Confirm(o)
        BY <1>0, <2>1, <2>3, <3>1 DEF Box!Confirm, Box!Kept, outbox, Done, TypeOK
      <3> QED
        BY <3>2 DEF Box!Next
    <2> QED
      BY <2>2, <2>3
  <1>3. ASSUME NEW f \in Flushes, NEW o \in Ops, MarkFailed(f, o) PROVE [Box!Next]_outbox
    <2>1. o \in refused /\ status[o] # "none"
      BY <1>0, <1>3 DEF MarkFailed, FlushIsTrue, IsFirst, QueueIsTrue, Settled
    <2>2. CASE status[o] = "deleted"
      <3>1. UNCHANGED <<status, applied, refused>>
        BY <1>0, <1>3, <2>2 DEF MarkFailed, Marked, TypeOK
      <3> QED
        BY <3>1, NoEntry
    <2>3. CASE status[o] # "deleted"
      <3>0. /\ status'[o] = "failed" /\ applied'[o] = outbox[o].applied /\ UNCHANGED refused
            /\ \A x \in Ops \ {o} : status'[x] = status[x] /\ applied'[x] = applied[x]
        BY <1>0, <1>3, <2>3 DEF MarkFailed, Marked, outbox, TypeOK
      <3>1. Box!Write(o, "failed", outbox[o].applied, outbox[o].refused)
        BY <3>0, Counts
      <3>2. Box!GiveUp(o)
        BY <1>0, <2>1, <2>3, <3>1 DEF Box!GiveUp, Box!Kept, outbox, TypeOK
      <3> QED
        BY <3>2 DEF Box!Next
    <2> QED
      BY <2>2, <2>3
  <1>4. ASSUME NEW f \in Flushes, Cleanup(f) PROVE Box!Next
    <2>1. PICK old \in SUBSET {o \in Ops : status[o] = "synced"} :
             status' = [o \in Ops |-> IF o \in old THEN "deleted" ELSE status[o]]
      BY <1>4 DEF Cleanup
    <2>2. Box!Clear(old)
      BY <1>4, <2>1 DEF Cleanup, Box!Clear, outbox
    <2> QED
      BY <2>1, <2>2 DEF Box!Next
  <1>5. ASSUME NEW p \in Pushes, Apply(p) PROVE Box!Next
    <2> DEFINE o == push[p].op
    <2>1. o \in Ops /\ Box!Turn(o)
      BY <1>5, ItsTurn DEF Apply
    <2>2. Box!Write(o, outbox[o].row, outbox[o].applied + 1, outbox[o].refused)
      <3>1. /\ status'[o] = outbox[o].row /\ applied'[o] = outbox[o].applied + 1
            /\ UNCHANGED refused
            /\ \A x \in Ops \ {o} : status'[x] = status[x] /\ applied'[x] = applied[x]
        BY <1>0, <1>5, <2>1 DEF Apply, outbox, TypeOK
      <3> HIDE DEF o
      <3> QED
        BY <2>1, <3>1, Counts
    <2>3. Box!Apply(o)
      BY <2>1, <2>2 DEF Box!Apply
    <2> QED
      BY <2>1, <2>3 DEF Box!Next
  <1>6. ASSUME NEW p \in Pushes, Conflict(p) \/ ApplyFails(p) PROVE Box!Next
    <2> DEFINE o == push[p].op
    <2>1. o \in Ops /\ Box!Turn(o)
      BY <1>6, ItsTurn DEF Conflict, ApplyFails
    <2>2. PICK n \in {0, 1} : applied' = [applied EXCEPT ![o] = @ + n]
      BY <1>0, <1>6, <2>1 DEF Conflict, ApplyFails, TypeOK
    <2>3. refused' = refused \cup {o} /\ UNCHANGED status
      BY <1>6 DEF Conflict, ApplyFails
    <2>4. Box!Write(o, outbox[o].row, outbox[o].applied + n, TRUE)
      <3>1. /\ applied'[o] = outbox[o].applied + n
            /\ \A x \in Ops \ {o} : applied'[x] = applied[x]
        BY <1>0, <2>1, <2>2 DEF outbox, TypeOK
      <3> HIDE DEF o
      <3> QED
        BY <2>1, <2>3, <3>1, LeavesOut
    <2>5. Box!Refuse(o)
      BY <2>1, <2>4 DEF Box!Refuse
    <2> QED
      BY <2>1, <2>5 DEF Box!Next
  <1>7. CASE UNCHANGED <<status, applied, refused>>
    BY <1>7, NoEntry
  <1> QED
    BY <1>1, <1>2, <1>3, <1>4, <1>5, <1>6, <1>7 DEF Next, Reconnect, Send, Quit, Receive,
       InsertConflict, Restart, LookUp, StoreKey, Drop, Cut, vars

\* The statements of any number of flushes and requests implement Outbox: an
\* operation is applied or left out when it is its turn, its row shows what the
\* server did, and a deleted row stays deleted.
THEOREM Refinement == Spec => ImplementsOutbox
  <1>1. Spec => []IInv
    BY InitInv, StepInv, PTL DEF Spec
  <1> QED
    BY <1>1, BoxInit, BoxNext, PTL DEF Spec, ImplementsOutbox, Box!Spec
=============================================================================
