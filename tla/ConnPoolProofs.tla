--------------------------- MODULE ConnPoolProofs ---------------------------
(***************************************************************************)
(* Proofs about ConnPool, for any finite number of requests and            *)
(* connections, any mix of kinds and any load.                             *)
(*                                                                         *)
(* What a request holds and what it asks for go together: one lemma for    *)
(* each way the pool and its queue change says what becomes of both for    *)
(* every request, and the invariant is then a matter of cases.             *)
(***************************************************************************)
EXTENDS ConnPool, SequenceTheorems, FiniteSetTheorems, TLAPS

Asks(r, use) == \E i \in 1 .. Len(waiting) : waiting[i] = <<r, use>>

\* What a request may hold and ask for, by its kind: it asks for the connection of
\* the request while it has none, for that of a transaction before it has one and
\* for that of a statement last; only an import asks while a transaction is open.
\* A late request has the connection of the request, and needs another one only
\* for the lookup.
InOrder(r) ==
    /\ phase[r] \in {"new", "done"} => \A use \in Uses : ~Holds(r, use) /\ ~Asks(r, use)
    /\ phase[r] = "late" =>
          /\ Kind[r] = "product" /\ Holds(r, "request")
          /\ Asks(r, "statement") \/ Holds(r, "statement") => left[r] + 2 > Load[r]
    /\ Kind[r] = "public" => ~Holds(r, "request") /\ ~Asks(r, "request")
    /\ Kind[r] \in {"public", "plain", "product"} => ~Holds(r, "tx") /\ ~Asks(r, "tx")
    /\ Asks(r, "request") => \A use \in Uses : ~Holds(r, use)
    /\ Asks(r, "tx") => ~Holds(r, "tx")
    /\ Asks(r, "statement") => left[r] > 0 /\ (Holds(r, "tx") => Kind[r] = "import")
    /\ Holds(r, "statement") => left[r] > 0 /\ \A use \in Uses : ~Asks(r, use)

IInv ==
    /\ TypeOK
    /\ OnePerUse
    /\ \A r \in Requests : InOrder(r)
----------------------------------------------------------------------------
(* How the pool and its queue change. *)

\* The head of a queue without repetitions leaves it.
LEMMA TailLeaves ==
  ASSUME NEW S, NEW s \in Seq(S), s # <<>>,
         \A i, j \in 1 .. Len(s) : s[i][1] = s[j][1] => i = j
  PROVE  /\ Tail(s) \in Seq(S)
         /\ Head(s) \in S
         /\ Head(s) = s[1] /\ 1 \in 1 .. Len(s)
         /\ Len(Tail(s)) = Len(s) - 1
         /\ \A i \in 1 .. Len(Tail(s)) : Tail(s)[i] = s[i + 1]
  OBVIOUS

\* RemoveAt takes one entry out and closes the gap.
LEMMA RemoveAtLeaves ==
  ASSUME NEW S, NEW s \in Seq(S), NEW k \in 1 .. Len(s)
  PROVE  /\ RemoveAt(s, k) \in Seq(S)
         /\ Len(RemoveAt(s, k)) = Len(s) - 1
         /\ \A i \in 1 .. Len(s) - 1 :
               RemoveAt(s, k)[i] = IF i < k THEN s[i] ELSE s[i + 1]
<1> DEFINE front == SubSeq(s, 1, k - 1)
           back == SubSeq(s, k + 1, Len(s))
<1>1. /\ front \in Seq(S)
      /\ Len(front) = k - 1
      /\ \A i \in 1 .. k - 1 : front[i] = s[i]
  BY SubSeqProperties
<1>2. /\ back \in Seq(S)
      /\ Len(back) = Len(s) - k
      /\ \A i \in 1 .. Len(s) - k : back[i] = s[k + i]
  BY SubSeqProperties
<1>3. RemoveAt(s, k) = front \o back
  BY DEF RemoveAt
<1> HIDE DEF front, back
<1>4. /\ front \o back \in Seq(S)
      /\ Len(front \o back) = Len(front) + Len(back)
      /\ \A i \in 1 .. Len(front) + Len(back) :
            (front \o back)[i] = IF i <= Len(front) THEN front[i] ELSE back[i - Len(front)]
  <2>1. front \in Seq(S) /\ back \in Seq(S)
    BY <1>1, <1>2
  <2>2. QED
    BY <2>1, ConcatProperties
<1>5. Len(s) \in Nat /\ k \in Int /\ 1 <= k /\ k <= Len(s)
  OBVIOUS
<1>6. ASSUME NEW i \in 1 .. Len(s) - 1
      PROVE  (front \o back)[i] = IF i < k THEN s[i] ELSE s[i + 1]
  <2>1. i \in 1 .. Len(front) + Len(back) /\ (i <= Len(front) <=> i < k)
    BY <1>1, <1>2, <1>5
  <2>2. CASE i < k
    <3>1. (front \o back)[i] = front[i]
      BY <1>4, <2>1, <2>2
    <3>2. i \in 1 .. k - 1
      BY <1>5, <2>2
    <3>3. QED
      BY <1>1, <2>2, <3>1, <3>2
  <2>3. CASE ~(i < k)
    <3>1. (front \o back)[i] = back[i - Len(front)]
      BY <1>4, <2>1, <2>3
    <3>2. i - Len(front) \in 1 .. Len(s) - k /\ k + (i - Len(front)) = i + 1
      BY <1>1, <1>5, <2>3
    <3>3. QED
      BY <1>2, <2>3, <3>1, <3>2
  <2>4. QED
    BY <2>2, <2>3
<1>7. Len(front \o back) = Len(s) - 1
  BY <1>1, <1>2, <1>4, <1>5
<1>8. QED
  BY <1>3, <1>4, <1>6, <1>7

\* A call of Acquire joins the queue.
LEMMA AskJoins ==
  ASSUME TypeOK, OnePerUse, NEW r \in Requests, NEW use \in Uses,
         Ask(r, use), ~Waits(r), ~Holds(r, use), UNCHANGED owner
  PROVE  /\ waiting' \in Seq(Requests \X Uses)
         /\ OnePerUse'
         /\ \A x \in Requests, u \in Uses :
               /\ Holds(x, u)' <=> Holds(x, u)
               /\ Asks(x, u)' <=> Asks(x, u) \/ <<x, u>> = <<r, use>>
<1>1. /\ waiting' \in Seq(Requests \X Uses)
      /\ Len(waiting') = Len(waiting) + 1
      /\ \A i \in 1 .. Len(waiting) : waiting'[i] = waiting[i]
      /\ waiting'[Len(waiting) + 1] = <<r, use>>
  BY DEF TypeOK, Ask
<1>2. \A x, u : Holds(x, u)' <=> Holds(x, u)
  BY DEF Holds
<1>3. Len(waiting) \in Nat
  BY DEF TypeOK
<1>4. \A x \in Requests, u \in Uses :
         Asks(x, u)' <=> Asks(x, u) \/ <<x, u>> = <<r, use>>
  <2> SUFFICES ASSUME NEW x \in Requests, NEW u \in Uses
               PROVE  Asks(x, u)' <=> Asks(x, u) \/ <<x, u>> = <<r, use>>
    OBVIOUS
  <2>1. \A i : i \in 1 .. Len(waiting') <=>
                 i \in 1 .. Len(waiting) \/ i = Len(waiting) + 1
    BY <1>1, <1>3
  <2>2. QED
    BY <1>1, <2>1 DEF Asks
<1>5. \A i \in 1 .. Len(waiting) : waiting[i][1] # r
  BY DEF Waits
<1>6. OnePerUse'
  <2>1. \A c, d \in Conns : owner'[c] = owner'[d] /\ owner'[c] # Idle => c = d
    BY DEF OnePerUse
  <2>2. \A i, j \in 1 .. Len(waiting') : waiting'[i][1] = waiting'[j][1] => i = j
    BY <1>1, <1>3, <1>5 DEF OnePerUse
  <2>3. \A i \in 1 .. Len(waiting') : ~Holds(waiting[i][1], waiting[i][2])'
    <3> SUFFICES ASSUME NEW i \in 1 .. Len(waiting')
                 PROVE  ~Holds(waiting[i][1], waiting[i][2])'
      OBVIOUS
    <3>1. CASE i \in 1 .. Len(waiting)
      BY <1>1, <1>2, <3>1 DEF OnePerUse
    <3>2. CASE i = Len(waiting) + 1
      BY <1>1, <1>2, <3>2
    <3>3. QED
      BY <1>1, <1>3, <3>1, <3>2
  <2>4. QED
    BY <2>1, <2>2, <2>3 DEF OnePerUse
<1>7. QED
  BY <1>1, <1>2, <1>4, <1>6

\* Connections go back to the pool.
LEMMA ReturnFrees ==
  ASSUME TypeOK, OnePerUse, NEW held, Return(held), UNCHANGED waiting
  PROVE  /\ owner' \in [Conns -> (Requests \X Uses) \cup {Idle}]
         /\ OnePerUse'
         /\ \A x \in Requests, u \in Uses :
               /\ Holds(x, u)' <=> Holds(x, u) /\ <<x, u>> \notin held
               /\ Asks(x, u)' <=> Asks(x, u)
<1>1. owner' \in [Conns -> (Requests \X Uses) \cup {Idle}]
  BY DEF TypeOK, Return
<1>2. \A c \in Conns : owner'[c] = IF owner[c] \in held THEN Idle ELSE owner[c]
  BY DEF Return
<1>3. \A x \in Requests, u \in Uses : <<x, u>> # Idle
  BY PoolAssumption DEF Uses
<1>4. \A x \in Requests, u \in Uses :
         Holds(x, u)' <=> Holds(x, u) /\ <<x, u>> \notin held
  BY <1>2, <1>3 DEF Holds
<1>5. \A x, u : Asks(x, u)' <=> Asks(x, u)
  BY DEF Asks
<1>6. OnePerUse'
  <2>1. \A c, d \in Conns : owner'[c] = owner'[d] /\ owner'[c] # Idle => c = d
    BY <1>2 DEF OnePerUse
  <2>2. \A i, j \in 1 .. Len(waiting') : waiting'[i][1] = waiting'[j][1] => i = j
    BY DEF OnePerUse
  <2>3. \A i \in 1 .. Len(waiting') : ~Holds(waiting[i][1], waiting[i][2])'
    <3> SUFFICES ASSUME NEW i \in 1 .. Len(waiting')
                 PROVE  ~Holds(waiting[i][1], waiting[i][2])'
      OBVIOUS
    <3>1. waiting[i][1] \in Requests /\ waiting[i][2] \in Uses
      BY DEF TypeOK
    <3>2. QED
      BY <1>4, <3>1 DEF OnePerUse
  <2>4. QED
    BY <2>1, <2>2, <2>3 DEF OnePerUse
<1>7. QED
  BY <1>1, <1>4, <1>5, <1>6

\* A caller that blocks is given a connection.
LEMMA GrantGives ==
  ASSUME TypeOK, OnePerUse, Grant
  PROVE  /\ owner' \in [Conns -> (Requests \X Uses) \cup {Idle}]
         /\ waiting' \in Seq(Requests \X Uses)
         /\ OnePerUse'
         /\ \E r \in Requests, use \in Uses :
               /\ Asks(r, use)
               /\ \A x \in Requests, u \in Uses :
                     /\ Holds(x, u)' <=> Holds(x, u) \/ <<x, u>> = <<r, use>>
                     /\ Asks(x, u)' <=> Asks(x, u) /\ x # r
<1>1. /\ waiting' \in Seq(Requests \X Uses)
      /\ waiting[1] \in Requests \X Uses
      /\ 1 \in 1 .. Len(waiting)
      /\ Len(waiting) \in Nat
      /\ Head(waiting) = waiting[1]
      /\ Len(waiting') = Len(waiting) - 1
      /\ \A i \in 1 .. Len(waiting') : waiting'[i] = waiting[i + 1]
  BY TailLeaves DEF TypeOK, OnePerUse, Grant, Served
<1>2. PICK r \in Requests, use \in Uses : waiting[1] = <<r, use>>
  BY <1>1
<1>3. PICK k \in Conns : owner[k] = Idle /\ owner' = [owner EXCEPT ![k] = <<r, use>>]
  BY <1>1, <1>2 DEF Grant
<1>4. \A x \in Requests, u \in Uses : <<x, u>> # Idle
  BY PoolAssumption DEF Uses
<1>5. owner' \in [Conns -> (Requests \X Uses) \cup {Idle}]
  BY <1>3 DEF TypeOK
<1>6. \A x \in Requests, u \in Uses : Holds(x, u)' <=> Holds(x, u) \/ <<x, u>> = <<r, use>>
  BY <1>3, <1>4 DEF Holds, TypeOK
<1>7. Asks(r, use) /\ ~Holds(r, use)
  BY <1>1, <1>2 DEF Asks, OnePerUse
<1>8. \A i \in 2 .. Len(waiting) : waiting[i][1] # r
  BY <1>1, <1>2 DEF OnePerUse
<1>9. \A x \in Requests, u \in Uses : Asks(x, u)' <=> Asks(x, u) /\ x # r
  <2> SUFFICES ASSUME NEW x \in Requests, NEW u \in Uses
               PROVE  Asks(x, u)' <=> Asks(x, u) /\ x # r
    OBVIOUS
  <2>1. ASSUME Asks(x, u)' PROVE Asks(x, u) /\ x # r
    <3>1. PICK i \in 1 .. Len(waiting') : waiting'[i] = <<x, u>>
      BY <2>1 DEF Asks
    <3>2. i + 1 \in 2 .. Len(waiting) /\ waiting[i + 1] = <<x, u>>
      BY <1>1, <3>1
    <3>3. QED
      BY <1>1, <1>8, <3>2 DEF Asks
  <2>2. ASSUME Asks(x, u), x # r PROVE Asks(x, u)'
    <3>1. PICK i \in 1 .. Len(waiting) : waiting[i] = <<x, u>>
      BY <2>2 DEF Asks
    <3>2. i # 1
      BY <1>2, <2>2, <3>1
    <3>3. i - 1 \in 1 .. Len(waiting') /\ waiting'[i - 1] = <<x, u>>
      BY <1>1, <3>1, <3>2
    <3>4. QED
      BY <3>3 DEF Asks
  <2>3. QED
    BY <2>1, <2>2
<1>10. OnePerUse'
  <2>1. \A c, d \in Conns : owner'[c] = owner'[d] /\ owner'[c] # Idle => c = d
    BY <1>3, <1>7 DEF OnePerUse, TypeOK, Holds
  <2>2. \A i, j \in 1 .. Len(waiting') : waiting'[i][1] = waiting'[j][1] => i = j
    <3> SUFFICES ASSUME NEW i \in 1 .. Len(waiting'), NEW j \in 1 .. Len(waiting'),
                        waiting'[i][1] = waiting'[j][1]
                 PROVE  i = j
      OBVIOUS
    <3>1. i + 1 \in 1 .. Len(waiting) /\ j + 1 \in 1 .. Len(waiting)
      BY <1>1
    <3>2. i + 1 = j + 1
      BY <1>1, <3>1 DEF OnePerUse
    <3>3. QED
      BY <3>2
  <2>3. \A i \in 1 .. Len(waiting') : ~Holds(waiting[i][1], waiting[i][2])'
    <3> SUFFICES ASSUME NEW i \in 1 .. Len(waiting')
                 PROVE  ~Holds(waiting[i][1], waiting[i][2])'
      OBVIOUS
    <3>1. i + 1 \in 2 .. Len(waiting) /\ waiting'[i] = waiting[i + 1]
      BY <1>1
    <3>2. waiting[i + 1] \in Requests \X Uses /\ waiting[i + 1][1] # r
      BY <1>8, <3>1 DEF TypeOK
    <3>3. ~Holds(waiting[i + 1][1], waiting[i + 1][2])
      BY <3>1 DEF OnePerUse
    <3>4. QED
      BY <1>6, <3>1, <3>2, <3>3
  <2>4. QED
    BY <2>1, <2>2, <2>3 DEF OnePerUse
<1>11. QED
  BY <1>1, <1>5, <1>6, <1>7, <1>9, <1>10

\* The call of Acquire of a request whose context ended leaves the queue.
LEMMA ForgetLeaves ==
  ASSUME TypeOK, OnePerUse, NEW r \in Requests, Forget(r), NEW held, Return(held)
  PROVE  /\ owner' \in [Conns -> (Requests \X Uses) \cup {Idle}]
         /\ waiting' \in Seq(Requests \X Uses)
         /\ OnePerUse'
         /\ \A x \in Requests, u \in Uses :
               /\ Holds(x, u)' <=> Holds(x, u) /\ <<x, u>> \notin held
               /\ Asks(x, u)' <=> Asks(x, u) /\ x # r
<1> USE DEF TypeOK
<1>1. CASE ~Waits(r)
  <2>1. UNCHANGED waiting
    BY <1>1 DEF Forget
  <2>2. \A u \in Uses : ~Asks(r, u)
    BY <1>1 DEF Waits, Asks
  <2>3. QED
    BY <2>1, <2>2, ReturnFrees
<1>2. ASSUME Waits(r) PROVE waiting' \in Seq(Requests \X Uses)
                         /\ \E k \in 1 .. Len(waiting) :
                              /\ waiting[k][1] = r
                              /\ Len(waiting') = Len(waiting) - 1
                              /\ \A i \in 1 .. Len(waiting) - 1 :
                                    waiting'[i] = IF i < k THEN waiting[i] ELSE waiting[i + 1]
  <2>1. PICK k \in 1 .. Len(waiting) : waiting[k][1] = r /\ waiting' = RemoveAt(waiting, k)
    BY <1>2 DEF Forget
  <2>2. waiting \in Seq(Requests \X Uses)
    OBVIOUS
  <2>3. /\ RemoveAt(waiting, k) \in Seq(Requests \X Uses)
        /\ Len(RemoveAt(waiting, k)) = Len(waiting) - 1
        /\ \A i \in 1 .. Len(waiting) - 1 :
              RemoveAt(waiting, k)[i] = IF i < k THEN waiting[i] ELSE waiting[i + 1]
    BY <2>2, RemoveAtLeaves
  <2>4. QED
    BY <2>1, <2>3
<1>3. CASE Waits(r)
  <2>1. PICK k \in 1 .. Len(waiting) :
          /\ waiting[k][1] = r
          /\ Len(waiting') = Len(waiting) - 1
          /\ \A i \in 1 .. Len(waiting) - 1 :
                waiting'[i] = IF i < k THEN waiting[i] ELSE waiting[i + 1]
    BY <1>2, <1>3
  <2>2. Len(waiting) \in Nat
    OBVIOUS
  <2>3. \A i \in 1 .. Len(waiting) : waiting[i][1] = r => i = k
    BY <2>1 DEF OnePerUse
  \* Where each entry of the new queue was.
  <2>4. \A i \in 1 .. Len(waiting') : \E j \in 1 .. Len(waiting) :
           /\ waiting'[i] = waiting[j]
           /\ j # k
           /\ j = IF i < k THEN i ELSE i + 1
    BY <2>1, <2>2
  <2>5. \A j \in 1 .. Len(waiting) :
           j # k => \E i \in 1 .. Len(waiting') : waiting'[i] = waiting[j]
    <3> SUFFICES ASSUME NEW j \in 1 .. Len(waiting), j # k
                 PROVE  \E i \in 1 .. Len(waiting') : waiting'[i] = waiting[j]
      OBVIOUS
    <3>1. CASE j < k
      <4>1. j \in 1 .. Len(waiting')
        BY <2>1, <2>2, <3>1
      <4>2. QED
        BY <2>1, <3>1, <4>1
    <3>2. CASE j > k
      <4>1. j - 1 \in 1 .. Len(waiting') /\ ~(j - 1 < k) /\ (j - 1) + 1 = j
        BY <2>1, <2>2, <3>2
      <4>2. QED
        BY <2>1, <4>1
    <3>3. QED
      BY <2>2, <3>1, <3>2
  <2>6. \A x \in Requests, u \in Uses : Asks(x, u)' <=> Asks(x, u) /\ x # r
    <3> SUFFICES ASSUME NEW x \in Requests, NEW u \in Uses
                 PROVE  Asks(x, u)' <=> Asks(x, u) /\ x # r
      OBVIOUS
    <3>1. ASSUME Asks(x, u)' PROVE Asks(x, u) /\ x # r
      <4>1. PICK i \in 1 .. Len(waiting') : waiting'[i] = <<x, u>>
        BY <3>1 DEF Asks
      <4>2. PICK j \in 1 .. Len(waiting) : waiting[j] = <<x, u>> /\ j # k
        BY <2>4, <4>1
      <4>3. QED
        BY <2>3, <4>2 DEF Asks
    <3>2. ASSUME Asks(x, u), x # r PROVE Asks(x, u)'
      <4>1. PICK j \in 1 .. Len(waiting) : waiting[j] = <<x, u>>
        BY <3>2 DEF Asks
      <4>2. j # k
        BY <2>1, <3>2, <4>1
      <4>3. QED
        BY <2>5, <4>1, <4>2 DEF Asks
    <3>3. QED
      BY <3>1, <3>2
  <2>7. owner' \in [Conns -> (Requests \X Uses) \cup {Idle}]
    BY DEF Return
  <2>8. \A c \in Conns : owner'[c] = IF owner[c] \in held THEN Idle ELSE owner[c]
    BY DEF Return
  <2>9. \A x \in Requests, u \in Uses : Holds(x, u)' <=> Holds(x, u) /\ <<x, u>> \notin held
    <3>1. \A x \in Requests, u \in Uses : <<x, u>> # Idle
      BY PoolAssumption DEF Uses
    <3>2. QED
      BY <2>8, <3>1 DEF Holds
  <2>10. OnePerUse'
    <3>1. \A c, d \in Conns : owner'[c] = owner'[d] /\ owner'[c] # Idle => c = d
      BY <2>8 DEF OnePerUse
    <3>2. \A i, j \in 1 .. Len(waiting') : waiting'[i][1] = waiting'[j][1] => i = j
      <4> SUFFICES ASSUME NEW i \in 1 .. Len(waiting'), NEW j \in 1 .. Len(waiting'),
                          waiting'[i][1] = waiting'[j][1]
                   PROVE  i = j
        OBVIOUS
      <4>1. PICK m \in 1 .. Len(waiting) :
               waiting'[i] = waiting[m] /\ m = IF i < k THEN i ELSE i + 1
        BY <2>4
      <4>2. PICK n \in 1 .. Len(waiting) :
               waiting'[j] = waiting[n] /\ n = IF j < k THEN j ELSE j + 1
        BY <2>4
      <4>3. m = n
        BY <4>1, <4>2 DEF OnePerUse
      <4>4. i \in Int /\ j \in Int /\ k \in Int
        OBVIOUS
      <4>5. QED
        BY <4>1, <4>2, <4>3, <4>4
    <3>3. \A i \in 1 .. Len(waiting') : ~Holds(waiting[i][1], waiting[i][2])'
      <4> SUFFICES ASSUME NEW i \in 1 .. Len(waiting')
                   PROVE  ~Holds(waiting[i][1], waiting[i][2])'
        OBVIOUS
      <4>1. PICK j \in 1 .. Len(waiting) : waiting'[i] = waiting[j]
        BY <2>4
      <4>2. waiting[j] \in Requests \X Uses
        OBVIOUS
      <4>3. ~Holds(waiting[j][1], waiting[j][2])
        BY DEF OnePerUse
      <4>4. QED
        BY <2>9, <4>1, <4>2, <4>3
    <3>4. QED
      BY <3>1, <3>2, <3>3 DEF OnePerUse
  <2>11. QED
    BY <1>2, <1>3, <2>6, <2>7, <2>9, <2>10
<1>4. QED
  BY <1>1, <1>3
----------------------------------------------------------------------------
(* The steps. *)

LEMMA InitInv == Init => IInv
<1> SUFFICES ASSUME Init PROVE IInv
  OBVIOUS
<1> USE PoolAssumption DEF Init
<1>1. TypeOK
  BY DEF TypeOK
<1>2. OnePerUse
  BY DEF OnePerUse
<1>3. \A r \in Requests, use \in Uses : ~Holds(r, use) /\ ~Asks(r, use)
  BY DEF Holds, Asks, Uses
<1>4. \A r \in Requests : InOrder(r)
  BY <1>3 DEF InOrder, Uses
<1>5. QED
  BY <1>1, <1>2, <1>4 DEF IInv

\* A request that waits asks for something.
LEMMA WaitsAsks ==
  ASSUME TypeOK
  PROVE  \A r \in Requests : Waits(r) <=> \E use \in Uses : Asks(r, use)
<1>1. \A i \in 1 .. Len(waiting) : waiting[i] \in Requests \X Uses
  BY DEF TypeOK
<1>2. QED
  BY <1>1 DEF Waits, Asks

LEMMA ArriveInv ==
  ASSUME IInv, NEW r \in Requests, Arrive(r)
  PROVE  IInv'
<1> USE DEF IInv
<1>1. \A use \in Uses : ~Holds(r, use) /\ ~Asks(r, use)
  BY DEF Arrive, InOrder
<1>2. CASE Kind[r] = "public"
  <2>1. UNCHANGED <<owner, waiting, left>> /\ phase' = [phase EXCEPT ![r] = "serve"]
    BY <1>2 DEF Arrive
  <2>2. TypeOK'
    BY <2>1 DEF TypeOK
  <2>3. OnePerUse'
    BY <2>1 DEF OnePerUse, Holds
  <2>4. \A x \in Requests, u \in Uses :
          /\ Holds(x, u)' <=> Holds(x, u)
          /\ Asks(x, u)' <=> Asks(x, u)
    BY <2>1 DEF Holds, Asks
  <2>5. \A x \in Requests : InOrder(x)'
    BY <1>1, <2>1, <2>4 DEF InOrder, Uses, TypeOK
  <2>6. QED
    BY <2>2, <2>3, <2>5
<1>3. CASE Kind[r] # "public"
  <2>1. /\ UNCHANGED <<owner, left>> /\ phase' = [phase EXCEPT ![r] = "serve"]
        /\ Ask(r, "request")
    BY <1>3 DEF Arrive
  <2>2. ~Waits(r) /\ ~Holds(r, "request") /\ "request" \in Uses
    BY <1>1, WaitsAsks DEF Uses
  <2>3. /\ waiting' \in Seq(Requests \X Uses)
        /\ OnePerUse'
        /\ \A x \in Requests, u \in Uses :
              /\ Holds(x, u)' <=> Holds(x, u)
              /\ Asks(x, u)' <=> Asks(x, u) \/ <<x, u>> = <<r, "request">>
    BY <2>1, <2>2, AskJoins
  <2>4. TypeOK'
    BY <2>1, <2>3 DEF TypeOK
  <2>5. \A x \in Requests : InOrder(x)'
    BY <1>1, <1>3, <2>1, <2>3 DEF InOrder, Uses, TypeOK
  <2>6. QED
    BY <2>3, <2>4, <2>5
<1>4. QED
  BY <1>2, <1>3

LEMMA GrantInv ==
  ASSUME IInv, Grant
  PROVE  IInv'
<1> USE DEF IInv
<1>1. /\ owner' \in [Conns -> (Requests \X Uses) \cup {Idle}]
      /\ waiting' \in Seq(Requests \X Uses)
      /\ OnePerUse'
  BY GrantGives
<1>2. UNCHANGED <<phase, left>>
  BY DEF Grant
<1>3. PICK r \in Requests, use \in Uses :
         /\ Asks(r, use)
         /\ \A x \in Requests, u \in Uses :
               /\ Holds(x, u)' <=> Holds(x, u) \/ <<x, u>> = <<r, use>>
               /\ Asks(x, u)' <=> Asks(x, u) /\ x # r
  BY GrantGives
<1>4. TypeOK'
  BY <1>1, <1>2 DEF TypeOK
<1>5. InOrder(r)'
  BY <1>2, <1>3 DEF InOrder, Uses
<1>6. \A x \in Requests \ {r} : InOrder(x)'
  BY <1>2, <1>3 DEF InOrder, Uses
<1>7. QED
  BY <1>1, <1>4, <1>5, <1>6

\* A request that runs and asks for one more connection.
LEMMA AskInv ==
  ASSUME IInv, NEW r \in Requests, NEW use \in Uses, Running(r), Ask(r, use),
         UNCHANGED <<owner, phase, left>>, left[r] > 0, ~Holds(r, use), use # "request",
         use = "tx" => Kind[r] \in {"transaction", "import"},
         phase[r] = "late" => InLookup(r),
         use = "statement" => (Holds(r, "tx") => Kind[r] = "import")
  PROVE  IInv'
<1> USE DEF IInv
<1>1. phase[r] \in {"serve", "late"} /\ ~Waits(r) /\ ~Holds(r, "statement")
  BY DEF Running
<1>2. /\ waiting' \in Seq(Requests \X Uses)
      /\ OnePerUse'
      /\ \A x \in Requests, u \in Uses :
            /\ Holds(x, u)' <=> Holds(x, u)
            /\ Asks(x, u)' <=> Asks(x, u) \/ <<x, u>> = <<r, use>>
  BY <1>1, AskJoins
<1>3. TypeOK'
  BY <1>2 DEF TypeOK
<1>4. \A u \in Uses : ~Asks(r, u)
  BY <1>1, WaitsAsks
<1>5. InOrder(r)'
  <2>1. phase[r] = "late" => left[r] + 2 > Load[r]
    BY DEF InLookup
  <2>2. QED
    BY <1>1, <1>2, <1>4, <2>1 DEF InOrder, Uses
<1>6. \A x \in Requests \ {r} : InOrder(x)'
  BY <1>2 DEF InOrder, Uses
<1>7. QED
  BY <1>2, <1>3, <1>5, <1>6

LEMMA StatementInv ==
  ASSUME IInv, NEW r \in Requests, Statement(r)
  PROVE  IInv'
<1> USE DEF IInv
<1>1. Running(r) /\ left[r] > 0 /\ UNCHANGED <<owner, phase>>
  BY DEF Statement, HasMore
<1>2. CASE RunsOnTx(r)
  <2>1. UNCHANGED waiting /\ left' = [left EXCEPT ![r] = @ - 1]
    BY <1>2 DEF Statement
  <2>2. TypeOK'
    BY <1>1, <2>1 DEF TypeOK
  <2>3. OnePerUse'
    BY <1>1, <2>1 DEF OnePerUse, Holds
  <2>4. \A x \in Requests, u \in Uses :
          /\ Holds(x, u)' <=> Holds(x, u)
          /\ Asks(x, u)' <=> Asks(x, u)
    BY <1>1, <2>1 DEF Holds, Asks
  <2>5. ~Holds(r, "statement") /\ \A u \in Uses : ~Asks(r, u)
    BY <1>1, WaitsAsks DEF Running
  <2>6. InOrder(r)'
    BY <1>1, <2>4, <2>5 DEF InOrder, Uses
  <2>7. \A x \in Requests \ {r} : left'[x] = left[x]
    BY <2>1 DEF TypeOK
  <2>8. \A x \in Requests \ {r} : InOrder(x)'
    BY <1>1, <2>4, <2>7 DEF InOrder, Uses
  <2>9. QED
    BY <2>2, <2>3, <2>6, <2>8
<1>3. CASE ~RunsOnTx(r)
  <2>1. Ask(r, "statement") /\ UNCHANGED left
    BY <1>3 DEF Statement
  <2>2. Holds(r, "tx") => Kind[r] = "import"
    BY <1>3, PoolAssumption DEF RunsOnTx, InOrder, Kinds
  <2>3. QED
    <3>1. phase[r] = "late" => InLookup(r)
      BY DEF Statement
    <3>2. ~Holds(r, "statement") /\ "statement" \in Uses
      BY <1>1 DEF Running, Uses
    <3>3. QED
      BY <1>1, <2>1, <2>2, <3>1, <3>2, AskInv
<1>4. QED
  BY <1>2, <1>3

LEMMA BeginInv ==
  ASSUME IInv, NEW r \in Requests, Begin(r)
  PROVE  IInv'
<1>1. phase[r] # "late"
  BY DEF IInv, InOrder, Begin
<1>2. QED
  BY <1>1, AskInv DEF Begin, HasMore, Uses

\* A step that only returns connections of one request, and leaves it in order.
LEMMA ReturnInv ==
  ASSUME IInv, NEW r \in Requests, NEW held, held \subseteq {r} \X Uses,
         Return(held), UNCHANGED waiting,
         phase' \in [Requests -> {"new", "serve", "late", "done"}], left' \in [Requests -> Nat],
         \A x \in Requests \ {r} : phase'[x] = phase[x] /\ left'[x] = left[x],
         \A u \in Uses : ~Asks(r, u),
         \A u \in Uses : Holds(r, u) /\ <<r, u>> \notin held => u # "statement",
         phase'[r] = "late" => phase[r] = "late" /\ <<r, "request">> \notin held,
         phase'[r] \in {"new", "done"} => \A u \in Uses : Holds(r, u) => <<r, u>> \in held
  PROVE  IInv'
<1> USE DEF IInv
<1>1. /\ owner' \in [Conns -> (Requests \X Uses) \cup {Idle}]
      /\ OnePerUse'
      /\ \A x \in Requests, u \in Uses :
            /\ Holds(x, u)' <=> Holds(x, u) /\ <<x, u>> \notin held
            /\ Asks(x, u)' <=> Asks(x, u)
  BY ReturnFrees
<1>2. TypeOK'
  BY <1>1 DEF TypeOK
<1>3. InOrder(r)'
  BY <1>1 DEF InOrder, Uses
<1>4. \A x \in Requests \ {r}, u \in Uses : Holds(x, u)' <=> Holds(x, u)
  BY <1>1
<1>5. \A x \in Requests \ {r} : InOrder(x)'
  BY <1>1, <1>4 DEF InOrder, Uses
<1>6. QED
  BY <1>1, <1>2, <1>3, <1>5

LEMMA AnswerInv ==
  ASSUME IInv, NEW r \in Requests, Answer(r)
  PROVE  IInv'
<1> USE DEF IInv
<1>1. left[r] > 0 /\ phase[r] \in {"serve", "late"} /\ \A u \in Uses : ~Asks(r, u)
  BY DEF Answer, InOrder, Uses, TypeOK
<1>2. left' = [left EXCEPT ![r] = @ - 1] /\ left' \in [Requests -> Nat]
  BY <1>1 DEF Answer, TypeOK
<1>3. /\ Return({<<r, "statement">>}) /\ UNCHANGED <<waiting, phase>>
      /\ phase \in [Requests -> {"new", "serve", "late", "done"}] /\ left \in [Requests -> Nat]
  BY DEF Answer, TypeOK
<1>4. {<<r, "statement">>} \subseteq {r} \X Uses
  BY DEF Uses
<1>5. QED
  BY <1>1, <1>2, <1>3, <1>4, ReturnInv

LEMMA EndTxInv ==
  ASSUME IInv, NEW r \in Requests, EndTx(r)
  PROVE  IInv'
<1> USE DEF IInv
<1>1. /\ phase[r] = "serve" /\ ~Holds(r, "statement")
      /\ \A u \in Uses : ~Asks(r, u)
  <2>1. Holds(r, "tx") /\ Running(r)
    BY DEF EndTx
  <2>2. phase[r] # "late"
    BY <2>1 DEF InOrder
  <2>3. QED
    BY <2>1, <2>2, WaitsAsks DEF Running
<1>2. left' = [left EXCEPT ![r] = 0] /\ left' \in [Requests -> Nat]
  BY DEF EndTx, TypeOK
<1>3. /\ Return({<<r, "tx">>}) /\ UNCHANGED <<waiting, phase>>
      /\ phase \in [Requests -> {"new", "serve", "late", "done"}] /\ left \in [Requests -> Nat]
  BY DEF EndTx, CloseTx, TypeOK
<1>4. {<<r, "tx">>} \subseteq {r} \X Uses
  BY DEF Uses
<1>5. QED
  BY <1>1, <1>2, <1>3, <1>4, ReturnInv

LEMMA FinishInv ==
  ASSUME IInv, NEW r \in Requests, Finish(r)
  PROVE  IInv'
<1> USE DEF IInv
<1>1. ~Holds(r, "statement") /\ ~Holds(r, "tx") /\ \A u \in Uses : ~Asks(r, u)
  BY WaitsAsks DEF Finish, Running
<1>2. /\ phase' = [phase EXCEPT ![r] = "done"]
      /\ phase' \in [Requests -> {"new", "serve", "late", "done"}]
  BY DEF Finish, TypeOK
<1>3. /\ Return({<<r, "request">>}) /\ UNCHANGED <<waiting, left>>
      /\ phase \in [Requests -> {"new", "serve", "late", "done"}] /\ left \in [Requests -> Nat]
  BY DEF Finish, TypeOK
<1>4. {<<r, "request">>} \subseteq {r} \X Uses
  BY DEF Uses
<1>5. \A u \in Uses : Holds(r, u) => <<r, u>> \in {<<r, "request">>}
  BY <1>1 DEF Uses
<1>6. QED
  BY <1>1, <1>2, <1>3, <1>4, <1>5, ReturnInv

LEMMA ExpireInv ==
  ASSUME IInv, NEW r \in Requests, Expire(r)
  PROVE  IInv'
<1> USE DEF IInv
<1>1. /\ phase' = [phase EXCEPT ![r] = "done"] /\ UNCHANGED left
      /\ Return({r} \X Uses) /\ Forget(r)
  BY DEF Expire, Cleanup
<1>2. /\ owner' \in [Conns -> (Requests \X Uses) \cup {Idle}]
      /\ waiting' \in Seq(Requests \X Uses)
      /\ OnePerUse'
      /\ \A x \in Requests, u \in Uses :
            /\ Holds(x, u)' <=> Holds(x, u) /\ <<x, u>> \notin {r} \X Uses
            /\ Asks(x, u)' <=> Asks(x, u) /\ x # r
  BY <1>1, ForgetLeaves
<1>3. TypeOK'
  BY <1>1, <1>2 DEF TypeOK
<1>4. \A u \in Uses : ~Holds(r, u)' /\ ~Asks(r, u)'
  BY <1>2
<1>5. InOrder(r)'
  <2>1. phase'[r] = "done"
    BY <1>1 DEF TypeOK
  <2>2. QED
    BY <1>4, <2>1 DEF InOrder, Uses
<1>6. \A x \in Requests \ {r} :
         /\ phase'[x] = phase[x]
         /\ \A u \in Uses : (Holds(x, u)' <=> Holds(x, u)) /\ (Asks(x, u)' <=> Asks(x, u))
  BY <1>1, <1>2 DEF TypeOK
<1>7. \A x \in Requests \ {r} : InOrder(x)'
  BY <1>1, <1>6 DEF InOrder, Uses
<1>8. QED
  BY <1>2, <1>3, <1>5, <1>7

LEMMA OutlastInv ==
  ASSUME IInv, NEW r \in Requests, Outlast(r)
  PROVE  IInv'
<1> USE DEF IInv
<1>1. /\ phase[r] = "serve" /\ phase' = [phase EXCEPT ![r] = "late"]
      /\ UNCHANGED <<owner, waiting, left>>
      /\ Kind[r] = "product" /\ Holds(r, "request") /\ left[r] + 2 > Load[r]
  BY DEF Outlast, InLookup
<1>2. TypeOK'
  BY <1>1 DEF TypeOK
<1>3. OnePerUse'
  BY <1>1 DEF OnePerUse, Holds
<1>4. \A x \in Requests, u \in Uses :
        /\ Holds(x, u)' <=> Holds(x, u)
        /\ Asks(x, u)' <=> Asks(x, u)
  BY <1>1 DEF Holds, Asks
<1>5. InOrder(r)'
  BY <1>1, <1>4 DEF InOrder, Uses, TypeOK
<1>6. \A x \in Requests \ {r} : phase'[x] = phase[x]
  BY <1>1 DEF TypeOK
<1>7. \A x \in Requests \ {r} : InOrder(x)'
  BY <1>1, <1>4, <1>6 DEF InOrder, Uses
<1>8. QED
  BY <1>2, <1>3, <1>5, <1>7

LEMMA NextInv == IInv /\ [Next]_vars => IInv'
<1> SUFFICES ASSUME IInv, [Next]_vars PROVE IInv'
  OBVIOUS
<1>1. CASE Grant
  BY <1>1, GrantInv
<1>2. ASSUME NEW r \in Requests, Arrive(r) \/ Step(r) \/ Expire(r) \/ Outlast(r)
      PROVE  IInv'
  <2>1. CASE Arrive(r)
    BY <2>1, ArriveInv
  <2>2. CASE Statement(r)
    BY <2>2, StatementInv
  <2>3. CASE Answer(r)
    BY <2>3, AnswerInv
  <2>4. CASE Begin(r)
    BY <2>4, BeginInv
  <2>5. CASE EndTx(r)
    BY <2>5, EndTxInv
  <2>6. CASE Finish(r)
    BY <2>6, FinishInv
  <2>7. CASE Expire(r)
    BY <2>7, ExpireInv
  <2>8. CASE Outlast(r)
    BY <2>8, OutlastInv
  <2>9. QED
    BY <1>2, <2>1, <2>2, <2>3, <2>4, <2>5, <2>6, <2>7, <2>8 DEF Step
<1>3. CASE UNCHANGED vars
  <2>1. UNCHANGED <<owner, waiting, phase, left>>
    BY <1>3 DEF vars
  <2>2. TypeOK'
    BY <2>1 DEF IInv, TypeOK
  <2>3. OnePerUse'
    BY <2>1 DEF IInv, OnePerUse, Holds
  <2>4. \A r, u : (Holds(r, u)' <=> Holds(r, u)) /\ (Asks(r, u)' <=> Asks(r, u))
    BY <2>1 DEF Holds, Asks
  <2>5. \A r \in Requests : InOrder(r)'
    BY <2>1, <2>4 DEF IInv, InOrder
  <2>6. QED
    BY <2>2, <2>3, <2>5 DEF IInv
<1>4. QED
  BY <1>1, <1>2, <1>3 DEF Next

LEMMA Invariance == Spec => []IInv
<1>1. Init => IInv
  BY InitInv
<1>2. IInv /\ [Next]_vars => IInv'
  BY NextInv
<1>3. QED
  BY <1>1, <1>2, PTL DEF Spec
----------------------------------------------------------------------------
(* What the invariant says of a pool that locks up. *)

\* A request that waits holds what Keeps allows, and nothing else.
LEMMA WaitsKeeps ==
  ASSUME IInv, NEW r \in Requests, Waits(r)
  PROVE  \A use \in Uses : Holds(r, use) => use \in Keeps(r)
<1>1. PICK asked \in Uses : Asks(r, asked)
  BY WaitsAsks DEF IInv
<1>2. Kind[r] \in Kinds
  BY PoolAssumption
<1>3. QED
  BY <1>1, <1>2 DEF IInv, InOrder, Keeps, Kinds, Uses

\* If all connections are out and all who have them wait, there are no more of
\* them than such requests can hold.
LEMMA GridlockIsSmall ==
  ASSUME IInv, Gridlock
  PROVE  ~(Cardinality(Conns) > HeldBack)
<1> DEFINE Kept == {u \in Requests \X Uses : u[2] \in Keeps(u[1])}
<1>1. \A c \in Conns : owner[c] \in Kept
  <2> SUFFICES ASSUME NEW c \in Conns PROVE owner[c] \in Kept
    OBVIOUS
  <2>1. owner[c] # Idle /\ Waits(owner[c][1])
    BY DEF Gridlock
  <2>2. owner[c] \in Requests \X Uses
    BY <2>1 DEF IInv, TypeOK
  <2>3. PICK r \in Requests, use \in Uses : owner[c] = <<r, use>>
    BY <2>2
  <2>4. Holds(r, use) /\ Waits(r)
    BY <2>1, <2>3 DEF Holds
  <2>5. use \in Keeps(r)
    BY <2>4, WaitsKeeps
  <2>6. QED
    BY <2>3, <2>5
<1>2. owner \in [Conns -> Kept]
  BY <1>1 DEF IInv, TypeOK
<1>3. \A c, d \in Conns : owner[c] = owner[d] => c = d
  BY DEF IInv, OnePerUse, Gridlock
<1>4. IsFiniteSet(Kept)
  <2>1. IsFiniteSet(Uses)
    <3>1. IsFiniteSet({"tx"})
      BY FS_Singleton
    <3>2. IsFiniteSet({"tx"} \cup {"statement"})
      BY <3>1, FS_AddElement
    <3>3. IsFiniteSet(({"tx"} \cup {"statement"}) \cup {"request"})
      BY <3>2, FS_AddElement
    <3>4. Uses = ({"tx"} \cup {"statement"}) \cup {"request"}
      BY DEF Uses
    <3>5. QED
      BY <3>3, <3>4
  <2>2. IsFiniteSet(Requests \X Uses)
    BY <2>1, FS_Product, PoolAssumption
  <2>3. QED
    BY <2>2, FS_Subset
<1> HIDE DEF Kept
<1>5. owner \in Injection(Conns, Kept)
  BY <1>2, <1>3 DEF Injection, IsInjective
<1>6. Cardinality(Conns) <= Cardinality(Kept)
  BY <1>4, <1>5, FS_Injection
<1>7. Cardinality(Conns) \in Nat /\ Cardinality(Kept) \in Nat
  BY <1>4, FS_CardinalityType, PoolAssumption
<1>8. ~(Cardinality(Conns) > Cardinality(Kept))
  BY <1>6, <1>7
<1>9. QED
  BY <1>8 DEF HeldBack, Kept
----------------------------------------------------------------------------
\* Connections, queue and requests keep their types, and no statement is counted
\* that was not to be run.
THEOREM TypeCorrect == Spec => []TypeOK
<1>1. IInv => TypeOK
  BY DEF IInv
<1>2. QED
  BY <1>1, Invariance, PTL

\* However a request ends, by itself, by its timeout or in the middle of a
\* transaction or of an Acquire, it leaves no connection out of the pool and no
\* call in its queue; only the plan lookup of a new product goes on after the
\* timeout, with at most its own connection and that of TenantIsolation.
THEOREM LeavesNothing == Spec => []NothingLeftBehind
<1>1. IInv => NothingLeftBehind
  <2> SUFFICES ASSUME IInv, NEW r \in Requests
               PROVE  /\ phase[r] \in {"new", "done"} => HeldBy(r) = {} /\ ~Waits(r)
                      /\ phase[r] = "late" =>
                            /\ Holds(r, "request") /\ ~Holds(r, "tx")
                            /\ Waits(r) \/ Holds(r, "statement") => InLookup(r)
    BY DEF NothingLeftBehind
  <2> USE DEF IInv
  <2>1. Waits(r) => \E use \in Uses : Asks(r, use)
    BY WaitsAsks
  <2>2. CASE phase[r] \in {"new", "done"}
    <3>1. \A use \in Uses : ~Holds(r, use) /\ ~Asks(r, use)
      BY <2>2 DEF InOrder
    <3>2. QED
      BY <2>1, <2>2, <3>1 DEF HeldBy, Holds
  <2>3. CASE phase[r] = "late"
    BY <2>1, <2>3 DEF InOrder, InLookup, Uses
  <2>4. QED
    BY <2>2, <2>3
<1>2. QED
  BY <1>1, Invariance, PTL

\* No connection has two holders, and a request blocks in one Acquire at a time,
\* for a connection it does not have yet.
THEOREM HeldOnce == Spec => []OnePerUse
<1>1. IInv => OnePerUse
  BY DEF IInv
<1>2. QED
  BY <1>1, Invariance, PTL

\* Requests that wait for each other cannot hold all of a pool that has one
\* connection more than they keep while each lacks its last: with the 25 of
\* database.go, that is 24 signed-in requests, or 12 imports, at once.
THEOREM NoGridlock == Spec => []AmpleIsEnough
<1>1. IInv => AmpleIsEnough
  BY GridlockIsSmall DEF AmpleIsEnough
<1>2. QED
  BY <1>1, Invariance, PTL
=============================================================================
