-------------------------- MODULE PosOrdersProofs --------------------------
(***************************************************************************)
(* Proofs about PosOrders and ShiftSummary for any sets of cashiers,       *)
(* orders, shifts, concurrent requests, tenders and rates: the inductive   *)
(* invariant, the refinement of OrderBook, and the figures of a shift.     *)
(*                                                                         *)
(* IInv is inductive: a step that only reads is checked once, by           *)
(* ServeStep, for the request it leaves behind; a step that writes is      *)
(* checked by a lemma of its own, and what the other requests in flight    *)
(* know survives it because rows are kept (KeepsReads).                    *)
(***************************************************************************)
EXTENDS ShiftSummary, FiniteSetTheorems, WellFoundedInduction, TLAPS

\* The resting state of a handler is a request, and it knows nothing.
LEMMA IdleType == Idle \in Request /\ Idle.pc = "idle"
  BY PosAssumption DEF Idle, Request

\* A row appended to one order's log leaves a family of logs.
LEMMA AddRowType ==
  ASSUME NEW Row, NEW log \in [Orders -> Seq(Row)], NEW o \in Orders, NEW row \in Row
  PROVE  /\ AddRow(log, o, row) \in [Orders -> Seq(Row)]
         /\ AddRow(log, o, row)[o] = Append(log[o], row)
         /\ AddRow(log, o, row)[o] # <<>>
         /\ \A x \in Orders \ {o} : AddRow(log, o, row)[x] = log[x]
  BY DEF AddRow

----------------------------------------------------------------------------
(* Sums over finite sets.  First that SumFunctionOnSet meets the equation  *)
(* it is defined by, then what can be said of sums without looking at it.  *)

\* Among some subsets of a finite set, there is one that is no longer among them
\* once any of its elements is taken out.
LEMMA MinimalSubset ==
  ASSUME NEW S, IsFiniteSet(S), NEW Some \in SUBSET (SUBSET S), Some # {}
  PROVE  \E T \in Some : \A x \in T : T \ {x} \notin Some
<1>1. IsWellFoundedOn(StrictSubsetOrdering(S), FiniteSubsetsOf(S))
  BY FS_StrictSubsetOrderingWellFounded
<1>2. Some \subseteq FiniteSubsetsOf(S)
  BY FS_Subset DEF FiniteSubsetsOf
<1>3. PICK T \in Some : \A U \in Some : ~(<<U, T>> \in StrictSubsetOrdering(S))
  BY <1>1, <1>2, WFMin
<1>4. \A x \in T : T \ {x} \notin Some
  <2> SUFFICES ASSUME NEW x \in T, T \ {x} \in Some PROVE FALSE
    OBVIOUS
  <2>1. <<T \ {x}, T>> \in StrictSubsetOrdering(S)
    BY DEF StrictSubsetOrdering
  <2>2. QED
    BY <1>3, <2>1
<1>5. QED
  BY <1>4

\* Induction over a finite set: what holds of {} and is kept when an element joins
\* holds of the whole set.  Good is the set of the subsets it holds of.
LEMMA GrowingSubset ==
  ASSUME NEW S, IsFiniteSet(S), NEW Good \in SUBSET (SUBSET S), {} \in Good,
         \A T \in Good : \A x \in S \ T : T \cup {x} \in Good
  PROVE  S \in Good
<1> SUFFICES ASSUME S \notin Good PROVE FALSE
  OBVIOUS
<1>1. PICK T \in (SUBSET S) \ Good : \A x \in T : T \ {x} \notin (SUBSET S) \ Good
  <2>1. (SUBSET S) \ Good \in SUBSET (SUBSET S) /\ (SUBSET S) \ Good # {}
    OBVIOUS
  <2>2. QED
    BY <2>1, MinimalSubset
<1>2. PICK x : x \in T
  BY <1>1
<1>3. T \ {x} \in Good /\ x \in S \ (T \ {x})
  BY <1>1, <1>2
<1>4. (T \ {x}) \cup {x} = T
  BY <1>2
<1>5. QED
  BY <1>1, <1>3, <1>4
----------------------------------------------------------------------------
\* The element that the fold takes first.
First(s) == CHOOSE x \in s : TRUE

\* A function on the subsets of S that sums f up, one chosen element after another.
SumsUp(g, f, S) ==
  g = [s \in SUBSET S |-> IF s = {} THEN 0 ELSE f[First(s)] + g[s \ {First(s)}]]

\* It does so for the subsets of at most n elements.
Adds(g, f, S, n) ==
  \A s \in SUBSET S : Cardinality(s) <= n =>
     g[s] = IF s = {} THEN 0 ELSE f[First(s)] + g[s \ {First(s)}]

\* There is such a function for all subsets.
LEMMA SomeAdds ==
  ASSUME NEW S, IsFiniteSet(S), NEW f, \A x \in S : f[x] \in Int
  PROVE  \E g \in [SUBSET S -> Int] : SumsUp(g, f, S)
<1> DEFINE Good == {T \in SUBSET S : \E g \in [SUBSET S -> Int] : Adds(g, f, S, Cardinality(T))}
<1>0. \A s \in SUBSET S :
         IsFiniteSet(s) /\ Cardinality(s) \in Nat /\ Cardinality(s) <= Cardinality(S)
  BY FS_Subset, FS_CardinalityType
<1>1. {} \in Good
  <2> DEFINE g == [s \in SUBSET S |-> 0]
  <2>1. Cardinality({}) = 0 /\ \A s \in SUBSET S : Cardinality(s) = 0 <=> s = {}
    BY <1>0, FS_EmptySet
  <2>2. Adds(g, f, S, Cardinality({}))
    BY <1>0, <2>1 DEF Adds
  <2>3. g \in [SUBSET S -> Int]
    OBVIOUS
  <2> HIDE DEF g
  <2>4. QED
    BY <2>2, <2>3
<1>2. ASSUME NEW T \in Good, NEW x \in S \ T PROVE T \cup {x} \in Good
  <2>1. Cardinality(T \cup {x}) = Cardinality(T) + 1 /\ Cardinality(T) \in Nat
    BY <1>0, FS_AddElement
  <2>2. PICK g \in [SUBSET S -> Int] : Adds(g, f, S, Cardinality(T))
    BY <1>2
  <2> DEFINE h == [s \in SUBSET S |-> IF Cardinality(s) <= Cardinality(T) THEN g[s]
                                      ELSE f[First(s)] + g[s \ {First(s)}]]
  <2>3. \A s \in SUBSET S : s # {} => First(s) \in s
    BY DEF First
  <2>4. \A s \in SUBSET S : s # {} => Cardinality(s \ {First(s)}) = Cardinality(s) - 1
    BY <1>0, <2>3, FS_RemoveElement
  <2>5. \A s \in SUBSET S : s = {} <=> Cardinality(s) = 0
    BY <1>0, FS_EmptySet
  <2>6. \A s \in SUBSET S : Cardinality(s) > Cardinality(T) => s # {}
    BY <1>0, <2>1, <2>5
  <2>7. h \in [SUBSET S -> Int]
    BY <2>3, <2>6, <1>0, <2>1
  <2>8. ASSUME NEW s \in SUBSET S, Cardinality(s) <= Cardinality(T) + 1
        PROVE  h[s] = IF s = {} THEN 0 ELSE f[First(s)] + h[s \ {First(s)}]
    <3>1. CASE s = {}
      BY <2>1, <2>2, <2>5, <3>1 DEF Adds
    <3>2. CASE s # {}
      <4>1. s \ {First(s)} \in SUBSET S /\ Cardinality(s \ {First(s)}) <= Cardinality(T)
        BY <1>0, <2>1, <2>4, <2>8, <3>2
      <4>2. h[s \ {First(s)}] = g[s \ {First(s)}]
        BY <4>1
      <4>3. CASE Cardinality(s) <= Cardinality(T)
        <5>1. h[s] = g[s] /\ g[s] = f[First(s)] + g[s \ {First(s)}]
          BY <2>2, <3>2, <4>3 DEF Adds
        <5>2. QED
          BY <3>2, <4>2, <5>1
      <4>4. CASE ~(Cardinality(s) <= Cardinality(T))
        <5>1. h[s] = f[First(s)] + g[s \ {First(s)}]
          BY <4>4
        <5>2. QED
          BY <3>2, <4>2, <5>1
      <4>5. QED
        BY <4>3, <4>4
    <3>3. QED
      BY <3>1, <3>2
  <2> HIDE DEF h
  <2>9. Adds(h, f, S, Cardinality(T \cup {x}))
    BY <2>1, <2>8 DEF Adds
  <2>10. QED
    BY <2>7, <2>9
<1>3. S \in Good
  <2> HIDE DEF Good
  <2>1. Good \in SUBSET (SUBSET S)
    BY DEF Good
  <2>2. QED
    BY <1>1, <1>2, <2>1, GrowingSubset
<1>4. PICK g \in [SUBSET S -> Int] : Adds(g, f, S, Cardinality(S))
  BY <1>3
<1>5. \A s \in SUBSET S :
        g[s] = IF s = {} THEN 0 ELSE f[First(s)] + g[s \ {First(s)}]
  BY <1>0, <1>4 DEF Adds
<1>6. QED
  BY <1>5 DEF SumsUp


\* SumFunctionOnSet is such a function.
LEMMA SumIsSum ==
  ASSUME NEW S, IsFiniteSet(S), NEW f, \A x \in S : f[x] \in Int
  PROVE  \E g \in [SUBSET S -> Int] :
           SumsUp(g, f, S) /\ SumFunctionOnSet(f, S) = g[S]
<1> DEFINE it == CHOOSE g : SumsUp(g, f, S)
<1>1. SumFunctionOnSet(f, S) = it[S]
  BY DEF SumFunctionOnSet, FoldFunctionOnSet, MapThenFoldSet, First, SumsUp
<1>2. \E g : SumsUp(g, f, S)
  BY SomeAdds
<1>3. SumsUp(it, f, S)
  BY <1>2
<1> HIDE DEF it
<1>4. \A s \in SUBSET S : it[s] = IF s = {} THEN 0 ELSE f[First(s)] + it[s \ {First(s)}]
  BY <1>3 DEF SumsUp
<1>5. \A s \in SUBSET S : it[s] \in Int
  <2> SUFFICES ASSUME {s \in SUBSET S : it[s] \notin Int} # {} PROVE FALSE
    OBVIOUS
  <2>1. PICK s \in SUBSET S : it[s] \notin Int /\ \A x \in s : it[s \ {x}] \in Int
    <3> DEFINE Some == {s \in SUBSET S : it[s] \notin Int}
    <3>1. \E s \in Some : \A x \in s : s \ {x} \notin Some
      <4> HIDE DEF Some
      <4>1. Some \in SUBSET (SUBSET S) /\ Some # {}
        BY DEF Some
      <4>2. QED
        BY <4>1, MinimalSubset
    <3>2. QED
      BY <3>1
  <2>2. s # {} => First(s) \in s
    BY DEF First
  <2>3. QED
    <3>1. CASE s = {}
      <4>1. it[s] = 0
        BY <1>4, <3>1
      <4>2. QED
        BY <2>1, <4>1
    <3>2. CASE s # {}
      <4>1. f[First(s)] \in Int /\ it[s \ {First(s)}] \in Int
        BY <2>1, <2>2, <3>2
      <4>2. it[s] = f[First(s)] + it[s \ {First(s)}]
        BY <1>4, <3>2
      <4>3. QED
        BY <2>1, <4>1, <4>2
    <3>3. QED
      BY <3>1, <3>2
<1>6. it \in [SUBSET S -> Int]
  BY <1>3, <1>5 DEF SumsUp
<1>7. QED
  BY <1>1, <1>3, <1>6

\* It gives the sums over all subsets.
LEMMA SumsOfSubsets ==
  ASSUME NEW S, IsFiniteSet(S), NEW f, \A x \in S : f[x] \in Int,
         NEW g \in [SUBSET S -> Int], SumsUp(g, f, S)
  PROVE  \A s \in SUBSET S : SumFunctionOnSet(f, s) = g[s]
<1>1. \A s \in SUBSET S : g[s] = IF s = {} THEN 0 ELSE f[First(s)] + g[s \ {First(s)}]
  BY DEF SumsUp
<1>2. ASSUME NEW T \in SUBSET S PROVE SumFunctionOnSet(f, T) = g[T]
  <2>1. IsFiniteSet(T) /\ \A x \in T : f[x] \in Int
    BY FS_Subset
  <2>0. PICK h \in [SUBSET T -> Int] : SumsUp(h, f, T) /\ SumFunctionOnSet(f, T) = h[T]
    BY <2>1, SumIsSum
  <2>2. \A s \in SUBSET T : h[s] = IF s = {} THEN 0 ELSE f[First(s)] + h[s \ {First(s)}]
    BY <2>0 DEF SumsUp
  <2> DEFINE Apart == {s \in SUBSET T : g[s] # h[s]}
  <2>3. Apart = {}
    <3> SUFFICES ASSUME Apart # {} PROVE FALSE
      OBVIOUS
    <3>1. PICK s \in Apart : \A x \in s : s \ {x} \notin Apart
      <4>1. Apart \in SUBSET (SUBSET T)
        OBVIOUS
      <4> HIDE DEF Apart
      <4>2. QED
        BY <2>1, <4>1, MinimalSubset
    <3>2. s \in SUBSET T /\ s \in SUBSET S /\ g[s] # h[s]
      OBVIOUS
    <3>3. s # {}
      BY <1>1, <2>2, <3>2
    <3>4. First(s) \in s
      BY <3>3 DEF First
    <3>5. g[s \ {First(s)}] = h[s \ {First(s)}]
      BY <3>1, <3>2, <3>4
    <3>6. QED
      BY <1>1, <2>2, <3>2, <3>3, <3>5
  <2>4. QED
    BY <2>0, <2>3
<1>3. QED
  BY <1>2

\* Any element can be taken out of a sum.
LEMMA SumTakesOut ==
  ASSUME NEW S, IsFiniteSet(S), NEW f, \A x \in S : f[x] \in Int
  PROVE  /\ SumFunctionOnSet(f, {}) = 0
         /\ SumFunctionOnSet(f, S) \in Int
         /\ \A x \in S : SumFunctionOnSet(f, S) = f[x] + SumFunctionOnSet(f, S \ {x})
<1>0. PICK g \in [SUBSET S -> Int] :
        SumsUp(g, f, S)
  BY SumIsSum
<1>1. \A s \in SUBSET S : SumFunctionOnSet(f, s) = g[s]
  BY <1>0, SumsOfSubsets
<1>2. \A s \in SUBSET S : g[s] = IF s = {} THEN 0 ELSE f[First(s)] + g[s \ {First(s)}]
  BY <1>0 DEF SumsUp
<1> DEFINE Wrong == {s \in SUBSET S : \E x \in s : g[s] # f[x] + g[s \ {x}]}
<1>3. Wrong = {}
  <2> SUFFICES ASSUME Wrong # {} PROVE FALSE
    OBVIOUS
  <2>1. PICK s \in Wrong : \A x \in s : s \ {x} \notin Wrong
    <3>1. Wrong \in SUBSET (SUBSET S)
      OBVIOUS
    <3> HIDE DEF Wrong
    <3>2. QED
      BY <3>1, MinimalSubset
  <2>2. PICK x \in s : g[s] # f[x] + g[s \ {x}]
    OBVIOUS
  <2>3. First(s) \in s /\ s \in SUBSET S
    BY <2>2 DEF First
  <2>4. PICK y \in s : y = First(s)
    BY <2>3
  <2>5. g[s] = f[y] + g[s \ {y}] /\ x # y
    BY <1>2, <2>2, <2>3, <2>4
  <2>6. g[s \ {y}] = f[x] + g[(s \ {y}) \ {x}]
    BY <2>1, <2>2, <2>3, <2>5
  <2>7. g[s \ {x}] = f[y] + g[(s \ {x}) \ {y}]
    BY <2>1, <2>2, <2>3, <2>5
  <2>8. (s \ {x}) \ {y} = (s \ {y}) \ {x}
    OBVIOUS
  <2>9. f[x] \in Int /\ f[y] \in Int /\ g[(s \ {y}) \ {x}] \in Int
    BY <2>3
  <2>10. PICK rest \in Int : rest = g[(s \ {y}) \ {x}]
    BY <2>9
  <2>11. g[s] = f[y] + (f[x] + rest)
    BY <2>5, <2>6, <2>10
  <2>12. f[x] + g[s \ {x}] = f[x] + (f[y] + rest)
    BY <2>7, <2>8, <2>10
  <2>13. f[x] + (f[y] + rest) = f[y] + (f[x] + rest)
    BY <2>9
  <2>14. QED
    BY <2>2, <2>11, <2>12, <2>13
<1>4. ASSUME NEW x \in S PROVE g[S] = f[x] + g[S \ {x}]
  BY <1>3
<1>5. {} \in SUBSET S /\ S \in SUBSET S /\ \A x \in S : S \ {x} \in SUBSET S
  OBVIOUS
<1>6. g[{}] = 0 /\ g[S] \in Int
  BY <1>2, <1>5
<1>7. QED
  BY <1>1, <1>4, <1>5, <1>6

\* An element that joins adds its value.
LEMMA SumAddsOne ==
  ASSUME NEW S, IsFiniteSet(S), NEW f, \A x \in S : f[x] \in Int,
         NEW T \in SUBSET S, NEW x \in S \ T
  PROVE  /\ SumFunctionOnSet(f, T) \in Int
         /\ SumFunctionOnSet(f, T \cup {x}) = f[x] + SumFunctionOnSet(f, T)
<1>1. IsFiniteSet(T) /\ IsFiniteSet(T \cup {x})
  BY FS_Subset, FS_AddElement
<1>2. SumFunctionOnSet(f, T) \in Int
  BY <1>1, SumTakesOut
<1>3. SumFunctionOnSet(f, T \cup {x}) = f[x] + SumFunctionOnSet(f, (T \cup {x}) \ {x})
  <2>1. \A y \in T \cup {x} : f[y] \in Int
    OBVIOUS
  <2>2. x \in T \cup {x}
    OBVIOUS
  <2>3. QED
    BY <1>1, <2>1, <2>2, SumTakesOut
<1>4. (T \cup {x}) \ {x} = T
  OBVIOUS
<1>5. QED
  BY <1>2, <1>3, <1>4

\* The sum over one element is its value.
LEMMA SumOfOne ==
  ASSUME NEW f, NEW x, f[x] \in Int
  PROVE  SumFunctionOnSet(f, {x}) = f[x]
<1> DEFINE S == {x}
<1>1. IsFiniteSet(S) /\ x \in S /\ S \ {x} = {} /\ \A y \in S : f[y] \in Int
  BY FS_Singleton
<1> HIDE DEF S
<1>2. SumFunctionOnSet(f, S) = f[x] + SumFunctionOnSet(f, S \ {x})
  BY <1>1, SumTakesOut
<1>3. SumFunctionOnSet(f, {}) = 0
  BY <1>1, SumTakesOut
<1>4. SumFunctionOnSet(f, S) = f[x]
  <2>1. SumFunctionOnSet(f, S) = f[x] + 0
    BY <1>1, <1>2, <1>3
  <2>2. \A n \in Int : n + 0 = n
    OBVIOUS
  <2>3. QED
    BY <2>1, <2>2
<1>5. QED
  BY <1>4 DEF S

\* A sum is the sum over one part and the sum over the rest.
LEMMA SumOfParts ==
  ASSUME NEW S, IsFiniteSet(S), NEW f, \A x \in S : f[x] \in Int, NEW A \in SUBSET S
  PROVE  SumFunctionOnSet(f, S) = SumFunctionOnSet(f, A) + SumFunctionOnSet(f, S \ A)
<1> DEFINE B == S \ A
           Good == {T \in SUBSET B :
                      SumFunctionOnSet(f, A \cup T)
                        = SumFunctionOnSet(f, A) + SumFunctionOnSet(f, T)}
<1>1. SumFunctionOnSet(f, A) \in Int /\ SumFunctionOnSet(f, {}) = 0 /\ IsFiniteSet(B)
  BY FS_Subset, SumTakesOut
<1>2. {} \in Good
  <2>1. A \cup {} = A
    OBVIOUS
  <2>2. QED
    BY <1>1, <2>1
<1>3. ASSUME NEW T \in Good, NEW x \in B \ T PROVE T \cup {x} \in Good
  <2>1. T \in SUBSET S /\ A \cup T \in SUBSET S /\ x \in S \ T /\ x \in S \ (A \cup T)
    OBVIOUS
  <2>2. /\ SumFunctionOnSet(f, T) \in Int
        /\ SumFunctionOnSet(f, T \cup {x}) = f[x] + SumFunctionOnSet(f, T)
        /\ SumFunctionOnSet(f, (A \cup T) \cup {x}) = f[x] + SumFunctionOnSet(f, A \cup T)
    BY <2>1, SumAddsOne
  <2>3. SumFunctionOnSet(f, A \cup T) = SumFunctionOnSet(f, A) + SumFunctionOnSet(f, T)
    OBVIOUS
  <2>4. (A \cup T) \cup {x} = A \cup (T \cup {x}) /\ T \cup {x} \in SUBSET B
    OBVIOUS
  <2> HIDE DEF Good
  <2>5. f[x] \in Int
    BY <2>1
  <2>6. f[x] + (SumFunctionOnSet(f, A) + SumFunctionOnSet(f, T))
          = SumFunctionOnSet(f, A) + (f[x] + SumFunctionOnSet(f, T))
    BY <1>1, <2>2, <2>5
  <2>7. SumFunctionOnSet(f, A \cup (T \cup {x}))
          = SumFunctionOnSet(f, A) + SumFunctionOnSet(f, T \cup {x})
    BY <2>2, <2>3, <2>4, <2>6
  <2>8. QED
    BY <2>4, <2>7 DEF Good
<1>4. B \in Good
  <2>1. Good \in SUBSET (SUBSET B)
    OBVIOUS
  <2> HIDE DEF Good
  <2>2. QED
    BY <1>1, <1>2, <1>3, <2>1, GrowingSubset
<1>5. A \cup B = S
  OBVIOUS
<1>6. QED
  BY <1>4, <1>5

\* A sum of nothing below 0 is not below 0.
LEMMA SumNotNegative ==
  ASSUME NEW S, IsFiniteSet(S), NEW f, \A x \in S : f[x] \in Nat
  PROVE  SumFunctionOnSet(f, S) >= 0
<1> DEFINE Good == {T \in SUBSET S : SumFunctionOnSet(f, T) >= 0}
<1>0. \A x \in S : f[x] \in Int
  OBVIOUS
<1>1. {} \in Good
  <2>1. SumFunctionOnSet(f, {}) = 0
    BY <1>0, SumTakesOut
  <2>2. QED
    BY <2>1
<1>2. ASSUME NEW T \in Good, NEW x \in S \ T PROVE T \cup {x} \in Good
  <2>1. SumFunctionOnSet(f, T) >= 0 /\ T \in SUBSET S /\ T \cup {x} \in SUBSET S
    OBVIOUS
  <2> HIDE DEF Good
  <2>2. SumFunctionOnSet(f, T) \in Int
    BY <1>0, <2>1, SumAddsOne
  <2>3. SumFunctionOnSet(f, T \cup {x}) = f[x] + SumFunctionOnSet(f, T)
    BY <1>0, <2>1, SumAddsOne
  <2>4. f[x] \in Nat
    OBVIOUS
  <2>5. SumFunctionOnSet(f, T \cup {x}) >= 0
    BY <2>1, <2>2, <2>3, <2>4
  <2>6. QED
    BY <2>1, <2>5 DEF Good
<1>3. S \in Good
  <2>1. Good \in SUBSET (SUBSET S)
    OBVIOUS
  <2> HIDE DEF Good
  <2>2. QED
    BY <1>1, <1>2, <2>1, GrowingSubset
<1>4. QED
  BY <1>3

\* A sum of nothing below 0 is no less than each of its values.
LEMMA SumOfMember ==
  ASSUME NEW S, IsFiniteSet(S), NEW f, \A x \in S : f[x] \in Nat, NEW x \in S
  PROVE  SumFunctionOnSet(f, S) >= f[x]
<1>1. \A y \in S : f[y] \in Int
  OBVIOUS
<1>2. SumFunctionOnSet(f, S) = f[x] + SumFunctionOnSet(f, S \ {x})
  BY <1>1, SumTakesOut
<1>3. IsFiniteSet(S \ {x}) /\ \A y \in S \ {x} : f[y] \in Nat /\ f[y] \in Int
  BY FS_Subset
<1>4. SumFunctionOnSet(f, S \ {x}) >= 0
  BY <1>3, SumNotNegative
<1>5. SumFunctionOnSet(f, S \ {x}) \in Int
  BY <1>3, SumTakesOut
<1>6. QED
  BY <1>1, <1>2, <1>4, <1>5

\* A sum of greater values is no less.
LEMMA SumGrows ==
  ASSUME NEW S, IsFiniteSet(S), NEW f, NEW g,
         \A x \in S : f[x] \in Int /\ g[x] \in Int /\ f[x] <= g[x]
  PROVE  SumFunctionOnSet(f, S) <= SumFunctionOnSet(g, S)
<1> DEFINE Good == {T \in SUBSET S : SumFunctionOnSet(f, T) <= SumFunctionOnSet(g, T)}
<1>1. {} \in Good
  BY SumTakesOut
<1>2. ASSUME NEW T \in Good, NEW x \in S \ T PROVE T \cup {x} \in Good
  <2>1. /\ SumFunctionOnSet(f, T) \in Int
        /\ SumFunctionOnSet(f, T \cup {x}) = f[x] + SumFunctionOnSet(f, T)
        /\ SumFunctionOnSet(g, T) \in Int
        /\ SumFunctionOnSet(g, T \cup {x}) = g[x] + SumFunctionOnSet(g, T)
    BY SumAddsOne
  <2>2. SumFunctionOnSet(f, T) <= SumFunctionOnSet(g, T) /\ T \cup {x} \in SUBSET S
    OBVIOUS
  <2> HIDE DEF Good
  <2>3. \A a, b, c, d \in Int : a <= c /\ b <= d => a + b <= c + d
    OBVIOUS
  <2>4. SumFunctionOnSet(f, T \cup {x}) <= SumFunctionOnSet(g, T \cup {x})
    BY <2>1, <2>2, <2>3
  <2>5. QED
    BY <2>2, <2>4 DEF Good
<1>3. S \in Good
  <2>1. Good \in SUBSET (SUBSET S)
    OBVIOUS
  <2> HIDE DEF Good
  <2>2. QED
    BY <1>1, <1>2, <2>1, GrowingSubset
<1>4. QED
  BY <1>3

\* Equal values have equal sums.
LEMMA SumOfSame ==
  ASSUME NEW S, IsFiniteSet(S), NEW f, NEW g, \A x \in S : f[x] \in Int /\ g[x] = f[x]
  PROVE  SumFunctionOnSet(f, S) = SumFunctionOnSet(g, S)
<1>1. SumFunctionOnSet(f, S) \in Int /\ SumFunctionOnSet(g, S) \in Int
  BY SumTakesOut
<1>2. SumFunctionOnSet(f, S) <= SumFunctionOnSet(g, S)
  BY SumGrows
<1>3. SumFunctionOnSet(g, S) <= SumFunctionOnSet(f, S)
  BY SumGrows
<1>4. QED
  BY <1>1, <1>2, <1>3

\* Sums of two functions are the sum of both.
LEMMA SumOfBoth ==
  ASSUME NEW S, IsFiniteSet(S), NEW f, NEW g,
         \A x \in S : f[x] \in Int, \A x \in S : g[x] \in Int
  PROVE  SumFunctionOnSet([x \in S |-> f[x] + g[x]], S)
           = SumFunctionOnSet(f, S) + SumFunctionOnSet(g, S)
<1> DEFINE h == [x \in S |-> f[x] + g[x]]
           Good == {T \in SUBSET S :
              SumFunctionOnSet(h, T) = SumFunctionOnSet(f, T) + SumFunctionOnSet(g, T)}
<1>0. \A x \in S : h[x] \in Int
  OBVIOUS
<1>1. \A x \in S : h[x] = f[x] + g[x]
  OBVIOUS
<1> HIDE DEF h
<1>2. {} \in Good
  <2>1. /\ SumFunctionOnSet(f, {}) = 0 /\ SumFunctionOnSet(g, {}) = 0
        /\ SumFunctionOnSet(h, {}) = 0
    BY <1>0, SumTakesOut
  <2>2. QED
    BY <2>1
<1>3. ASSUME NEW T \in Good, NEW x \in S \ T PROVE T \cup {x} \in Good
  <2>1. /\ SumFunctionOnSet(f, T) \in Int
        /\ SumFunctionOnSet(f, T \cup {x}) = f[x] + SumFunctionOnSet(f, T)
        /\ SumFunctionOnSet(g, T) \in Int
        /\ SumFunctionOnSet(g, T \cup {x}) = g[x] + SumFunctionOnSet(g, T)
        /\ SumFunctionOnSet(h, T \cup {x}) = h[x] + SumFunctionOnSet(h, T)
    <3>1. T \in SUBSET S
      OBVIOUS
    <3> HIDE DEF Good
    <3>2. /\ SumFunctionOnSet(f, T) \in Int
          /\ SumFunctionOnSet(f, T \cup {x}) = f[x] + SumFunctionOnSet(f, T)
      <4>1. \A y \in S : f[y] \in Int
        OBVIOUS
      <4>2. SumFunctionOnSet(f, T) \in Int
        BY <3>1, <4>1, SumAddsOne
      <4>3. SumFunctionOnSet(f, T \cup {x}) = f[x] + SumFunctionOnSet(f, T)
        BY <3>1, <4>1, SumAddsOne
      <4>4. QED
        BY <4>2, <4>3
    <3>3. /\ SumFunctionOnSet(g, T) \in Int
          /\ SumFunctionOnSet(g, T \cup {x}) = g[x] + SumFunctionOnSet(g, T)
      BY <3>1, SumAddsOne
    <3>4. SumFunctionOnSet(h, T \cup {x}) = h[x] + SumFunctionOnSet(h, T)
      BY <1>0, <3>1, SumAddsOne
    <3>5. QED
      BY <3>2, <3>3, <3>4
  <2>2. /\ SumFunctionOnSet(h, T) = SumFunctionOnSet(f, T) + SumFunctionOnSet(g, T)
        /\ T \cup {x} \in SUBSET S
    OBVIOUS
  <2> HIDE DEF Good
  <2>3. \A a, b, c, d \in Int : (a + c) + (b + d) = (a + b) + (c + d)
    OBVIOUS
  <2>4. SumFunctionOnSet(h, T \cup {x})
          = (f[x] + g[x]) + (SumFunctionOnSet(f, T) + SumFunctionOnSet(g, T))
    BY <1>1, <2>1, <2>2
  <2>5. f[x] \in Int /\ g[x] \in Int
    OBVIOUS
  <2>6. SumFunctionOnSet(h, T \cup {x})
          = (f[x] + SumFunctionOnSet(f, T)) + (g[x] + SumFunctionOnSet(g, T))
    BY <2>1, <2>3, <2>4, <2>5
  <2>7. QED
    BY <2>1, <2>2, <2>6 DEF Good
<1>4. S \in Good
  <2>1. Good \in SUBSET (SUBSET S)
    OBVIOUS
  <2> HIDE DEF Good
  <2>2. QED
    BY <1>2, <1>3, <2>1, GrowingSubset
<1>5. QED
  BY <1>4 DEF h

\* Other names for the elements do not change a sum.
LEMMA SumRenamed ==
  ASSUME NEW S, IsFiniteSet(S), NEW f, NEW g, NEW name,
         \A x \in S : f[name[x]] \in Int /\ g[x] = f[name[x]],
         \A x, y \in S : name[x] = name[y] => x = y
  PROVE  SumFunctionOnSet(f, {name[x] : x \in S}) = SumFunctionOnSet(g, S)
<1> DEFINE Good == {T \in SUBSET S :
              /\ IsFiniteSet({name[x] : x \in T})
              /\ SumFunctionOnSet(f, {name[x] : x \in T}) = SumFunctionOnSet(g, T)}
<1>0. \A x \in S : g[x] \in Int
  OBVIOUS
<1>1. {} \in Good
  <2>1. {name[x] : x \in {}} = {} /\ IsFiniteSet({})
    BY FS_EmptySet
  <2>2. SumFunctionOnSet(g, {}) = 0
    BY <1>0, SumTakesOut
  <2>3. SumFunctionOnSet(f, {}) = 0
    <3>1. \A x \in {} : f[x] \in Int
      OBVIOUS
    <3>2. QED
      BY <2>1, <3>1, SumTakesOut
  <2>4. QED
    BY <2>1, <2>2, <2>3
<1>2. ASSUME NEW T \in Good, NEW y \in S \ T PROVE T \cup {y} \in Good
  <2> DEFINE N == {name[x] : x \in T}
  <2>1. IsFiniteSet(N) /\ SumFunctionOnSet(f, N) = SumFunctionOnSet(g, T)
    OBVIOUS
  <2>2. {name[x] : x \in T \cup {y}} = N \cup {name[y]}
    OBVIOUS
  <2>3. name[y] \notin N /\ \A z \in N \cup {name[y]} : f[z] \in Int
    OBVIOUS
  <2> HIDE DEF N
  <2>4. IsFiniteSet(N \cup {name[y]})
    BY <2>1, FS_AddElement
  <2>5. N \in SUBSET (N \cup {name[y]}) /\ name[y] \in (N \cup {name[y]}) \ N
    BY <2>3
  <2>6. SumFunctionOnSet(f, N \cup {name[y]}) = f[name[y]] + SumFunctionOnSet(f, N)
    BY <2>3, <2>4, <2>5, SumAddsOne
  <2>7. SumFunctionOnSet(g, T \cup {y}) = g[y] + SumFunctionOnSet(g, T)
    BY <1>0, SumAddsOne
  <2>8. QED
    BY <2>1, <2>2, <2>4, <2>6, <2>7
<1>3. S \in Good
  <2>1. Good \in SUBSET (SUBSET S)
    OBVIOUS
  <2> HIDE DEF Good
  <2>2. QED
    BY <1>1, <1>2, <2>1, GrowingSubset
<1>4. QED
  BY <1>3

\* The elements of a group.
GroupOf(S, group, k) == {x \in S : group[x] = k}

\* A sum is the sum, over the groups that its elements fall into, of their sums.
LEMMA SumOfGroups ==
  ASSUME NEW S, IsFiniteSet(S), NEW f, \A x \in S : f[x] \in Int,
         NEW Groups, IsFiniteSet(Groups), NEW group, \A x \in S : group[x] \in Groups,
         NEW g, \A k \in Groups : g[k] = SumFunctionOnSet(f, GroupOf(S, group, k))
  PROVE  SumFunctionOnSet(f, S) = SumFunctionOnSet(g, Groups)
<1> DEFINE Part(K) == {x \in S : group[x] \in K}
           Good == {K \in SUBSET Groups : SumFunctionOnSet(f, Part(K)) = SumFunctionOnSet(g, K)}
<1>0. \A k \in Groups : g[k] \in Int
  <2> SUFFICES ASSUME NEW k \in Groups PROVE g[k] \in Int
    OBVIOUS
  <2>1. IsFiniteSet(GroupOf(S, group, k)) /\ \A x \in GroupOf(S, group, k) : f[x] \in Int
    BY FS_Subset DEF GroupOf
  <2>2. QED
    BY <2>1, SumTakesOut
<1>1. {} \in Good
  <2>1. Part({}) = {}
    OBVIOUS
  <2>2. SumFunctionOnSet(f, {}) = 0 /\ SumFunctionOnSet(g, {}) = 0
    BY <1>0, SumTakesOut
  <2>3. QED
    BY <2>1, <2>2
<1>2. ASSUME NEW K \in Good, NEW k \in Groups \ K PROVE K \cup {k} \in Good
  <2>1. /\ Part(K) \in SUBSET Part(K \cup {k})
        /\ Part(K \cup {k}) \ Part(K) = GroupOf(S, group, k)
        /\ Part(K \cup {k}) \subseteq S
    BY DEF GroupOf
  <2>2. K \in SUBSET Groups /\ SumFunctionOnSet(f, Part(K)) = SumFunctionOnSet(g, K)
    OBVIOUS
  <2> HIDE DEF Part, Good
  <2>3. IsFiniteSet(Part(K \cup {k})) /\ \A x \in Part(K \cup {k}) : f[x] \in Int
    BY <2>1, FS_Subset
  <2>4. SumFunctionOnSet(f, Part(K \cup {k})) = SumFunctionOnSet(f, Part(K)) + g[k]
    <3>1. SumFunctionOnSet(f, Part(K \cup {k}))
            = SumFunctionOnSet(f, Part(K)) + SumFunctionOnSet(f, Part(K \cup {k}) \ Part(K))
      BY <2>1, <2>3, SumOfParts
    <3>2. QED
      BY <2>1, <3>1
  <2>5. /\ SumFunctionOnSet(g, K) \in Int
        /\ SumFunctionOnSet(g, K \cup {k}) = g[k] + SumFunctionOnSet(g, K)
    <3>1. SumFunctionOnSet(g, K) \in Int
      BY <1>0, <2>2, SumAddsOne
    <3>2. SumFunctionOnSet(g, K \cup {k}) = g[k] + SumFunctionOnSet(g, K)
      BY <1>0, <2>2, SumAddsOne
    <3>3. QED
      BY <3>1, <3>2
  <2>6. g[k] \in Int
    BY <1>0
  <2>7. QED
    BY <2>2, <2>4, <2>5, <2>6 DEF Good
<1>3. Groups \in Good
  <2>1. Good \in SUBSET (SUBSET Groups)
    OBVIOUS
  <2> HIDE DEF Good
  <2>2. QED
    BY <1>1, <1>2, <2>1, GrowingSubset
<1>4. Part(Groups) = S
  OBVIOUS
<1>5. QED
  BY <1>3, <1>4
----------------------------------------------------------------------------
\* The values of a function on a finite set are finitely many.
LEMMA FiniteImage ==
  ASSUME NEW S, IsFiniteSet(S), NEW f
  PROVE  IsFiniteSet({f[x] : x \in S})
<1> DEFINE T == {f[x] : x \in S}
           F == [x \in S |-> f[x]]
<1>1. F \in Surjection(S, T)
  BY DEF Surjection
<1> HIDE DEF F, T
<1>2. IsFiniteSet(T)
  BY <1>1, FS_Surjection
<1>3. QED
  BY <1>2 DEF T

\* Finitely many finite sets have finitely many elements.
LEMMA FiniteUnion ==
  ASSUME NEW S, IsFiniteSet(S), NEW f, \A x \in S : IsFiniteSet(f[x])
  PROVE  IsFiniteSet(UNION {f[x] : x \in S})
<1>1. IsFiniteSet({f[x] : x \in S})
  BY FiniteImage
<1>2. \A T \in {f[x] : x \in S} : IsFiniteSet(T)
  OBVIOUS
<1>3. QED
  BY <1>1, <1>2, FS_UNION

----------------------------------------------------------------------------
(* What covers an order, and what requests know. *)

\* No lines are worth nothing.
LEMMA PaidOfNone == Paid(<<>>) = 0
<1> DEFINE lines == <<>>
           amount == [i \in DOMAIN lines |-> lines[i].line.amount * lines[i].rate]
<1>1. Paid(<<>>) = SumFunctionOnSet(amount, DOMAIN amount)
  BY DEF Paid, SumFunction
<1>2. DOMAIN amount = {} /\ \A i \in {} : amount[i] \in Int
  OBVIOUS
<1> HIDE DEF amount
<1>3. SumFunctionOnSet(amount, {}) = 0
  BY <1>2, FS_EmptySet, SumTakesOut
<1>4. QED
  BY <1>1, <1>2, <1>3

\* Lines are worth an amount.
LEMMA PaidIsInt ==
  ASSUME NEW lines \in Seq(RatedLine)
  PROVE  Paid(lines) \in Int
<1> DEFINE amount == [i \in DOMAIN lines |-> lines[i].line.amount * lines[i].rate]
<1>1. Paid(lines) = SumFunctionOnSet(amount, DOMAIN lines)
  BY DEF Paid, SumFunction
<1>2. IsFiniteSet(DOMAIN lines)
  <2>1. DOMAIN lines = 1 .. Len(lines) /\ Len(lines) \in Int /\ 1 \in Int
    OBVIOUS
  <2>2. QED
    BY <2>1, FS_Interval
<1>3. ASSUME NEW i \in DOMAIN lines PROVE amount[i] \in Int
  <2>1. lines[i] \in RatedLine
    OBVIOUS
  <2>2. lines[i].line.amount \in Int /\ lines[i].rate \in Int
    BY <2>1 DEF RatedLine, Line
  <2>3. \A m, n \in Int : m * n \in Int
    OBVIOUS
  <2>4. QED
    BY <2>2, <2>3
<1> HIDE DEF amount
<1>4. QED
  BY <1>1, <1>2, <1>3, SumTakesOut

\* A further payments batch uncovers no order.
LEMMA CoveredStays ==
  ASSUME TypeOK, NEW o \in Orders, o \in DOMAIN orders, o \in DOMAIN orders',
         orders'[o].total = orders[o].total,
         \/ payments'[o] = payments[o]
         \/ \E batch \in Seq(RatedLine) : payments'[o] = Append(payments[o], batch),
         Covered(o)
  PROVE  Covered(o)'
<1>1. CASE orders[o].total <= 0
  BY <1>1 DEF Covered
<1>2. CASE \E i \in DOMAIN payments[o] : Paid(payments[o][i]) >= orders[o].total
  <2>1. PICK i \in DOMAIN payments[o] : Paid(payments[o][i]) >= orders[o].total
    BY <1>2
  <2>2. payments[o] \in Seq(Seq(RatedLine)) /\ i \in 1 .. Len(payments[o])
    BY <2>1 DEF TypeOK
  <2>3. i \in DOMAIN payments'[o] /\ payments'[o][i] = payments[o][i]
    <3>1. CASE payments'[o] = payments[o]
      BY <3>1
    <3>2. ASSUME NEW batch \in Seq(RatedLine), payments'[o] = Append(payments[o], batch)
          PROVE  i \in DOMAIN payments'[o] /\ payments'[o][i] = payments[o][i]
      BY <2>2, <3>2
    <3>3. QED
      BY <3>1, <3>2
  <2>4. QED
    BY <2>1, <2>3 DEF Covered
<1>3. QED
  BY <1>1, <1>2 DEF Covered

\* If rows are kept, what was true of them when a request read them still is.
LEMMA KnowledgeStays ==
  ASSUME TypeOK, Keeps, NEW r \in Request, StillTrue(r)
  PROVE  StillTrue(r)'
<1>1. ASSUME NEW row \in RatedLine, IsConfigured(row) PROVE IsConfigured(row)'
  BY <1>1 DEF IsConfigured
<1>2. r.pc = "pay" => \A i \in DOMAIN r.rated : IsConfigured(r.rated[i])'
  BY <1>1 DEF StillTrue, Request
<1>3. r.pc = "pay" => r.order \in DOMAIN orders' /\ r.total = orders'[r.order].total
  BY DEF StillTrue, Keeps
<1>4. r.pc = "refund" => r.order \in DOMAIN orders' /\ Covered(r.order)'
  BY DEF StillTrue, Keeps
<1>5. r.pc = "void" =>
         /\ r.order \in DOMAIN orders'
         /\ r.shift = orders'[r.order].shift
         /\ r.shift \in DOMAIN shifts'
         /\ r.cashier = shifts'[r.shift].cashier
  BY DEF StillTrue, Keeps
<1>6. r.pc = "create" =>
         /\ r.total \in Totals
         /\ r.shift # NoShift =>
               r.shift \in DOMAIN shifts' /\ r.cashier = shifts'[r.shift].cashier
  BY DEF StillTrue, Keeps
<1>7. QED
  BY <1>2, <1>3, <1>4, <1>5, <1>6 DEF StillTrue

\* A step that leaves every handler but h alone, and leaves h with a request
\* whose knowledge was true before the step.
LEMMA KeepsReads ==
  ASSUME TypeOK, ReadsStillHold, Keeps, NEW h \in Handlers,
         NEW r \in Request, StillTrue(r), Serve(h, r)
  PROVE  ReadsStillHold' /\ req' \in [Handlers -> Request]
<1>1. req \in [Handlers -> Request] /\ req' = [req EXCEPT ![h] = r]
  BY DEF TypeOK, Serve
<1>2. SUFFICES ASSUME NEW k \in Handlers PROVE StillTrue(req[k])'
  BY <1>1 DEF ReadsStillHold
<1>3. PICK q \in Request : q = req'[k] /\ StillTrue(q)
  BY <1>1 DEF ReadsStillHold
<1>4. StillTrue(q)'
  BY <1>3, KnowledgeStays
<1>5. QED
  BY <1>3, <1>4 DEF StillTrue

\* The same for a request that ends.
LEMMA FinishReads ==
  ASSUME TypeOK, ReadsStillHold, Keeps, NEW h \in Handlers, Finish(h)
  PROVE  ReadsStillHold' /\ req' \in [Handlers -> Request]
<1>1. StillTrue(Idle) /\ Serve(h, Idle)
  BY IdleType DEF StillTrue, Serve, Finish
<1>2. QED
  BY <1>1, IdleType, KeepsReads
----------------------------------------------------------------------------
(* Steps that only read. *)

LEMMA StillTables ==
  ASSUME IInv, UNCHANGED tables, req' \in [Handlers -> Request], ReadsStillHold'
  PROVE  IInv'
<1> USE DEF tables
<1>1. TypeOK'
  BY DEF IInv, TypeOK
<1>2. NoOrphans' /\ OrderIsSellers'
  BY DEF IInv, NoOrphans, OrderIsSellers
<1>3. PaymentsCover' /\ PaidIsCovered' /\ RefundIsBacked'
  BY DEF IInv, PaymentsCover, PaidIsCovered, RefundIsBacked, Covered
<1>4. StatusIsLogged' /\ VoidIsAttributed'
  BY DEF IInv, StatusIsLogged, VoidIsAttributed
<1>5. ForeignIsConfigured'
  BY DEF IInv, ForeignIsConfigured, IsConfigured
<1>6. QED
  BY <1>1, <1>2, <1>3, <1>4, <1>5 DEF IInv

LEMMA StillKeeps == ASSUME UNCHANGED tables PROVE Keeps
  BY DEF tables, Keeps, Covered

\* A step that only reads: what the request now knows must be true now.
LEMMA ServeStep ==
  ASSUME IInv, NEW h \in Handlers, NEW r \in Request, StillTrue(r),
         Serve(h, r), UNCHANGED tables
  PROVE  IInv' /\ Keeps
<1>1. ReadsStillHold' /\ req' \in [Handlers -> Request]
  BY KeepsReads, StillKeeps DEF IInv
<1>2. QED
  BY <1>1, StillTables, StillKeeps

LEMMA FinishStep ==
  ASSUME IInv, NEW h \in Handlers, Finish(h), UNCHANGED tables
  PROVE  IInv' /\ Keeps
<1>1. ReadsStillHold' /\ req' \in [Handlers -> Request]
  BY FinishReads, StillKeeps DEF IInv
<1>2. QED
  BY <1>1, StillTables, StillKeeps

LEMMA CreateOrderReadStep ==
  ASSUME IInv, NEW h \in Handlers, NEW c \in Cashiers, NEW t \in Totals,
         CreateOrderRead(h, c, t)
  PROVE  IInv' /\ Keeps
<1>1. PICK s \in ActiveShiftID(c) :
         Serve(h, [Idle EXCEPT !.pc = "create", !.cashier = c, !.shift = s, !.total = t])
  BY DEF CreateOrderRead
<1> DEFINE r == [Idle EXCEPT !.pc = "create", !.cashier = c, !.shift = s, !.total = t]
<1>2. s \in Shifts \cup {NoShift}
  BY DEF ActiveShiftID, ActiveShifts, IInv, TypeOK
<1>3. r \in Request /\ r.pc = "create" /\ r.shift = s /\ r.cashier = c /\ r.total = t
  BY <1>2, IdleType DEF Request
<1>4. s # NoShift => s \in DOMAIN shifts /\ c = shifts[s].cashier
  BY DEF ActiveShiftID, ActiveShifts
<1>5. StillTrue(r)
  BY <1>3, <1>4 DEF StillTrue
<1>6. QED
  BY <1>1, <1>3, <1>5, ServeStep DEF CreateOrderRead

LEMMA PayReadStep ==
  ASSUME IInv, NEW h \in Handlers, NEW o \in Orders, NEW lines \in Tenders,
         PayRead(h, o, lines)
  PROVE  IInv' /\ Keeps
<1> DEFINE r == [Idle EXCEPT !.pc = "pay", !.order = o,
                             !.total = orders[o].total, !.due = lines]
<1>1. o \in DOMAIN orders /\ orders[o].total \in Totals
  BY DEF PayRead, Known, OrderRow, IInv, TypeOK
<1>2. lines \in Seq(Line)
  BY PosAssumption
<1>3. r \in Request
  BY <1>1, <1>2, IdleType DEF Request
<1>4. r.pc = "pay" /\ r.order = o /\ r.total = orders[o].total /\ r.rated = <<>>
  BY DEF Idle
<1>5. StillTrue(r)
  BY <1>1, <1>4 DEF StillTrue
<1>6. QED
  BY <1>3, <1>5, ServeStep DEF PayRead, Known

\* The looked-up rate is the configured one, and it is not 0.
LEMMA PayRateStep ==
  ASSUME IInv, NEW h \in Handlers, PayRate(h)
  PROVE  IInv' /\ Keeps
<1> DEFINE line == Head(req[h].due)
           rate == RateOf(line.currency)
           row == [line |-> line, rate |-> rate]
           r == [req[h] EXCEPT !.due = Tail(@), !.rated = Append(@, row)]
<1>1. req[h] \in Request /\ req[h].due # <<>> /\ req[h].pc = "pay" /\ UNCHANGED tables
  BY DEF PayRate, IInv, TypeOK
<1>2. line \in Line /\ Tail(req[h].due) \in Seq(Line)
  BY <1>1 DEF Request
<1>3. rate \in Nat
  BY <1>2, PosAssumption DEF RateOf, Line, IInv, TypeOK
<1>4. row \in RatedLine
  BY <1>2, <1>3 DEF RatedLine
<1>5. CASE rate = 0
  BY <1>1, <1>5, FinishStep DEF PayRate
<1>6. CASE rate # 0
  <2>1. Serve(h, r)
    BY <1>6 DEF PayRate
  <2>2. r \in Request
    <3>1. Append(req[h].rated, row) \in Seq(RatedLine)
      BY <1>1, <1>4 DEF Request
    <3> HIDE DEF row
    <3>2. QED
      BY <1>1, <1>2, <3>1 DEF Request
  <2>3. IsConfigured(row)
    <3>1. CASE line.currency = "LAK"
      BY <3>1, PosAssumption DEF IsConfigured, RateOf
    <3>2. CASE line.currency \in Foreign
      BY <1>6, <3>2, PosAssumption DEF IsConfigured, RateOf, IInv, TypeOK
    <3>3. QED
      BY <1>2, <3>1, <3>2 DEF Line
  <2>4. StillTrue(req[h])
    BY DEF IInv, ReadsStillHold
  <2>5. /\ r.pc = "pay" /\ r.order = req[h].order /\ r.total = req[h].total
        /\ r.rated = Append(req[h].rated, row) /\ req[h].rated \in Seq(RatedLine)
    BY <1>1 DEF Request
  <2>6. \A i \in DOMAIN r.rated : IsConfigured(r.rated[i])
    <3>1. \A i \in DOMAIN req[h].rated : IsConfigured(req[h].rated[i])
      BY <1>1, <2>4 DEF StillTrue
    <3>2. ASSUME NEW i \in DOMAIN r.rated
          PROVE  \/ i \in DOMAIN req[h].rated /\ r.rated[i] = req[h].rated[i]
                 \/ r.rated[i] = row
      BY <2>5
    <3>3. QED
      BY <2>3, <3>1, <3>2
  <2>7. StillTrue(r)
    BY <1>1, <2>4, <2>5, <2>6 DEF StillTrue
  <2>8. QED
    BY <1>1, <2>1, <2>2, <2>7, ServeStep
<1>7. QED
  BY <1>5, <1>6

\* The order's cashier is the caller: it is the caller's shift it was sold in.
LEMMA VoidReadStep ==
  ASSUME IInv, NEW h \in Handlers, NEW c \in Cashiers, NEW o \in Orders,
         VoidRead(h, c, o)
  PROVE  IInv' /\ Keeps
<1> DEFINE r == [Idle EXCEPT !.pc = "void", !.cashier = c, !.order = o,
                             !.shift = orders[o].shift]
<1>1. o \in DOMAIN orders /\ orders[o].shift \in Shifts
  BY DEF VoidRead, Known, OrderRow, IInv, TypeOK
<1>2. orders[o].shift \in DOMAIN shifts /\ c = shifts[orders[o].shift].cashier
  BY DEF VoidRead, Known, ActiveShiftID, ActiveShifts
<1>3. r \in Request
  BY <1>1, IdleType DEF Request
<1>4. r.pc = "void" /\ r.cashier = c /\ r.order = o /\ r.shift = orders[o].shift
  BY DEF Idle
<1>5. StillTrue(r)
  BY <1>1, <1>2, <1>4 DEF StillTrue
<1>6. QED
  BY <1>3, <1>5, ServeStep DEF VoidRead, Known

LEMMA RefundReadStep ==
  ASSUME IInv, NEW h \in Handlers, NEW o \in Orders, RefundRead(h, o)
  PROVE  IInv' /\ Keeps
<1> DEFINE r == [Idle EXCEPT !.pc = "refund", !.order = o]
<1>1. o \in DOMAIN orders /\ Covered(o)
  BY DEF RefundRead, Known, Refundable, IInv, PaidIsCovered
<1>2. r \in Request
  BY IdleType DEF Request
<1>3. r.pc = "refund" /\ r.order = o
  BY DEF Idle
<1>4. StillTrue(r)
  BY <1>1, <1>3 DEF StillTrue
<1>5. QED
  BY <1>2, <1>4, ServeStep DEF RefundRead, Known

LEMMA OpenShiftReadStep ==
  ASSUME IInv, NEW h \in Handlers, NEW c \in Cashiers, OpenShiftRead(h, c)
  PROVE  IInv' /\ Keeps
<1> DEFINE r == [Idle EXCEPT !.pc = "open", !.cashier = c]
<1>1. r \in Request
  BY IdleType DEF Request
<1>2. r.pc = "open"
  BY DEF Idle
<1>3. StillTrue(r)
  BY <1>2 DEF StillTrue
<1>4. QED
  BY <1>1, <1>3, ServeStep DEF OpenShiftRead
----------------------------------------------------------------------------
(* Steps that write. *)

\* A new order is open, and its id has no rows yet.
LEMMA CreateOrderInsertStep ==
  ASSUME IInv, NEW h \in Handlers, NEW o \in Orders, CreateOrderInsert(h, o)
  PROVE  IInv' /\ Keeps
<1> DEFINE row == [status |-> "open", cashier |-> req[h].cashier,
                   shift |-> req[h].shift, total |-> req[h].total]
<1>1. /\ req[h] \in Request /\ req[h].pc = "create" /\ o \notin DOMAIN orders
      /\ UNCHANGED <<payments, voidLogs, refunds, shifts, rates>> /\ Finish(h)
      /\ orders' = [x \in DOMAIN orders \cup {o} |-> IF x = o THEN row ELSE orders[x]]
  BY DEF CreateOrderInsert, InsertedOrder, NewOrder, IInv, TypeOK
<1>2. StillTrue(req[h]) /\ TypeOK
  BY DEF IInv, ReadsStillHold
<1>3. /\ DOMAIN orders' = DOMAIN orders \cup {o}
      /\ orders'[o] = row
      /\ \A x \in DOMAIN orders : x # o /\ orders'[x] = orders[x]
  BY <1>1
<1>4. \A x \in DOMAIN orders : Covered(x) <=> Covered(x)'
  BY <1>1, <1>3 DEF Covered
<1>5. Keeps
  BY <1>1, <1>3, <1>4 DEF Keeps
<1>6. ReadsStillHold' /\ req' \in [Handlers -> Request]
  BY <1>1, <1>2, <1>5, FinishReads DEF IInv
<1>7. row \in OrderRow
  BY <1>1, <1>2 DEF Request, OrderRow, OrderStatus, StillTrue
<1>8. TypeOK'
  BY <1>1, <1>2, <1>3, <1>6, <1>7 DEF TypeOK
<1>9. NoOrphans'
  BY <1>1, <1>3 DEF NoOrphans, IInv
<1>10. payments'[o] = <<>> /\ voidLogs'[o] = <<>> /\ refunds'[o] = <<>>
  BY <1>1 DEF NoOrphans, IInv
<1>11. OrderIsSellers'
  BY <1>1, <1>2, <1>3 DEF OrderIsSellers, IInv, StillTrue
<1>12. PaymentsCover' /\ PaidIsCovered'
  <2>1. PaymentsCover'
    BY <1>1, <1>3, <1>10 DEF PaymentsCover, IInv
  <2>2. PaidIsCovered'
    BY <1>3, <1>4 DEF PaidIsCovered, IInv
  <2>3. QED
    BY <2>1, <2>2
<1>13. RefundIsBacked'
  BY <1>1, <1>3, <1>4, <1>10 DEF RefundIsBacked, IInv
<1>14. StatusIsLogged'
  BY <1>1, <1>3, <1>10 DEF StatusIsLogged, IInv
<1>15. VoidIsAttributed'
  BY <1>1, <1>3, <1>10 DEF VoidIsAttributed, IInv
<1>16. ForeignIsConfigured'
  BY <1>1 DEF ForeignIsConfigured, IsConfigured, IInv
<1>17. QED
  BY <1>5, <1>6, <1>8, <1>9, <1>11, <1>12, <1>13, <1>14, <1>15, <1>16 DEF IInv

\* What setting the status of an order leaves alone.
LEMMA SetStatusKeeps ==
  ASSUME TypeOK, NEW o \in DOMAIN orders, NEW st \in OrderStatus, SetStatus(o, st)
  PROVE  /\ DOMAIN orders' = DOMAIN orders
         /\ orders' \in [DOMAIN orders -> OrderRow]
         /\ orders'[o].status = st
         /\ \A x \in DOMAIN orders \ {o} : orders'[x] = orders[x]
         /\ \A x \in DOMAIN orders :
               /\ orders'[x].total = orders[x].total
               /\ orders'[x].shift = orders[x].shift
               /\ orders'[x].cashier = orders[x].cashier
  BY DEF SetStatus, TypeOK, OrderRow

\* The batch that is written, if any is, was compared with the total the order
\* still has.
LEMMA PayCommitStep ==
  ASSUME IInv, NEW h \in Handlers, PayCommit(h)
  PROVE  IInv' /\ Keeps
<1>1. /\ req[h] \in Request /\ req[h].pc = "pay" /\ Paid(req[h].rated) >= req[h].total
      /\ InsertRows(req[h].order, req[h].rated)
      /\ SetStatus(req[h].order, "paid") /\ Finish(h)
      /\ UNCHANGED <<voidLogs, refunds, shifts, rates>>
  BY DEF PayCommit, CoversTotal, IInv, TypeOK
<1>2. StillTrue(req[h]) /\ TypeOK
  BY DEF IInv, ReadsStillHold
<1>3. PICK o \in DOMAIN orders : o = req[h].order /\ req[h].total = orders[o].total
  BY <1>1, <1>2 DEF StillTrue
<1>4. PICK batch \in Seq(RatedLine) :
         /\ batch = req[h].rated
         /\ \A i \in DOMAIN batch : IsConfigured(batch[i])
  BY <1>1, <1>2 DEF StillTrue, Request
<1>5. o \in Orders /\ "paid" \in OrderStatus /\ payments \in [Orders -> Seq(Seq(RatedLine))]
  BY <1>2 DEF TypeOK, OrderStatus
<1>6. /\ DOMAIN orders' = DOMAIN orders
      /\ orders' \in [DOMAIN orders -> OrderRow]
      /\ orders'[o].status = "paid"
      /\ \A x \in DOMAIN orders \ {o} : orders'[x] = orders[x]
      /\ \A x \in DOMAIN orders :
            /\ orders'[x].total = orders[x].total
            /\ orders'[x].shift = orders[x].shift
            /\ orders'[x].cashier = orders[x].cashier
  BY <1>1, <1>2, <1>3, <1>5, SetStatusKeeps
<1>7. /\ payments' \in [Orders -> Seq(Seq(RatedLine))]
      /\ \A x \in Orders \ {o} : payments'[x] = payments[x]
      /\ \/ payments'[o] = payments[o] /\ batch = <<>>
         \/ payments'[o] = Append(payments[o], batch) /\ payments'[o] # <<>>
  <2>1. CASE batch = <<>>
    BY <1>1, <1>3, <1>4, <1>5, <2>1 DEF InsertRows
  <2>2. CASE batch # <<>>
    <3>1. payments' = AddRow(payments, o, batch)
      BY <1>1, <1>3, <1>4, <2>2 DEF InsertRows
    <3>2. QED
      BY <1>4, <1>5, <3>1, AddRowType
  <2>3. QED
    BY <2>1, <2>2
<1>8. Paid(batch) >= orders[o].total /\ (batch = <<>> => orders[o].total <= 0)
  <2>1. Paid(batch) >= orders[o].total
    BY <1>1, <1>3, <1>4
  <2>2. orders[o].total \in Int
    BY <1>2, PosAssumption DEF TypeOK, OrderRow
  <2>3. QED
    BY <2>1, <2>2, PaidOfNone
<1>9. \A x \in DOMAIN orders : x \in Orders /\ (Covered(x) => Covered(x)')
  BY <1>2, <1>4, <1>6, <1>7, CoveredStays DEF TypeOK
<1>10. Keeps
  BY <1>1, <1>6, <1>9 DEF Keeps
<1>11. ReadsStillHold' /\ req' \in [Handlers -> Request]
  BY <1>1, <1>2, <1>10, FinishReads DEF IInv
<1>12. TypeOK'
  BY <1>1, <1>2, <1>6, <1>7, <1>11 DEF TypeOK
<1>13. NoOrphans' /\ OrderIsSellers' /\ VoidIsAttributed'
  <2>1. NoOrphans'
    BY <1>1, <1>6, <1>7 DEF NoOrphans, IInv
  <2>2. OrderIsSellers'
    BY <1>1, <1>6 DEF OrderIsSellers, IInv
  <2>3. VoidIsAttributed'
    BY <1>1, <1>6 DEF VoidIsAttributed, IInv
  <2>4. QED
    BY <2>1, <2>2, <2>3
<1>14. ASSUME NEW x \in Orders, NEW b \in DOMAIN payments'[x]
       PROVE  \/ b \in DOMAIN payments[x] /\ payments'[x][b] = payments[x][b]
              \/ x = o /\ payments'[x][b] = batch
  <2>1. payments[x] \in Seq(Seq(RatedLine))
    BY <1>5
  <2>2. CASE x = o /\ payments'[o] = Append(payments[o], batch)
    <3>1. /\ payments'[x] = Append(payments[x], batch)
          /\ DOMAIN payments'[x] = 1 .. Len(payments[x]) + 1
      BY <1>4, <2>1, <2>2
    <3>2. b \in 1 .. Len(payments[x]) \/ b = Len(payments[x]) + 1
      BY <2>1, <3>1
    <3>3. QED
      BY <1>4, <2>1, <2>2, <3>1, <3>2
  <2>3. CASE payments'[x] = payments[x]
    BY <2>3
  <2>4. QED
    BY <1>7, <2>2, <2>3
<1>15. PaymentsCover'
  <2>1. SUFFICES ASSUME NEW x \in DOMAIN orders, NEW b \in DOMAIN payments'[x]
                 PROVE  Paid(payments'[x][b]) >= orders[x].total
    BY <1>6 DEF PaymentsCover, Paid
  <2>2. x \in Orders
    BY <1>9
  <2>3. CASE b \in DOMAIN payments[x] /\ payments'[x][b] = payments[x][b]
    BY <2>3 DEF PaymentsCover, IInv
  <2>4. CASE x = o /\ payments'[x][b] = batch
    BY <1>8, <2>4
  <2>5. QED
    BY <1>14, <2>2, <2>3, <2>4
<1>16. Covered(o)'
  <2>1. CASE batch = <<>>
    BY <1>6, <1>8, <2>1 DEF Covered
  <2>2. CASE payments'[o] = Append(payments[o], batch)
    <3>1. /\ Len(payments[o]) + 1 \in DOMAIN payments'[o]
          /\ payments'[o][Len(payments[o]) + 1] = batch
      BY <1>4, <1>5, <2>2
    <3>2. Paid(batch) >= orders'[o].total
      BY <1>6, <1>8
    <3>3. QED
      BY <3>1, <3>2 DEF Covered
  <2>3. QED
    BY <1>7, <2>1, <2>2
<1>17. PaidIsCovered'
  BY <1>6, <1>9, <1>16 DEF PaidIsCovered, IInv
<1>18. RefundIsBacked'
  BY <1>1, <1>6, <1>9 DEF RefundIsBacked, IInv
<1>19. StatusIsLogged'
  <2>1. SUFFICES ASSUME NEW x \in DOMAIN orders
                 PROVE  /\ orders'[x].status = "open" =>
                              payments'[x] = <<>> /\ voidLogs[x] = <<>> /\ refunds[x] = <<>>
                        /\ orders'[x].status = "paid" =>
                              payments'[x] # <<>> \/ orders[x].total <= 0
                        /\ orders'[x].status = "voided" => voidLogs[x] # <<>>
                        /\ orders'[x].status = "refunded" => refunds[x] # <<>>
    BY <1>1, <1>6 DEF StatusIsLogged
  <2>2. CASE x = o
    BY <1>6, <1>7, <1>8, <2>2
  <2>3. CASE x # o
    BY <1>6, <1>7, <1>9, <2>3 DEF StatusIsLogged, IInv
  <2>4. QED
    BY <2>2, <2>3
<1>20. ForeignIsConfigured'
  <2>1. SUFFICES ASSUME NEW x \in Orders, NEW b \in DOMAIN payments'[x],
                        NEW i \in DOMAIN payments'[x][b]
                 PROVE  IsConfigured(payments[x][b][i])'
    BY DEF ForeignIsConfigured
  <2>2. CASE b \in DOMAIN payments[x] /\ payments'[x][b] = payments[x][b]
    BY <1>1, <2>2 DEF ForeignIsConfigured, IInv, IsConfigured
  <2>3. CASE payments'[x][b] = batch
    BY <1>1, <1>4, <2>3 DEF IsConfigured
  <2>4. QED
    BY <1>14, <2>2, <2>3
<1>21. QED
  BY <1>10, <1>11, <1>12, <1>13, <1>15, <1>17, <1>18, <1>19, <1>20 DEF IInv

\* The void row names the shift and the cashier that the check compared.
LEMMA VoidCommitStep ==
  ASSUME IInv, NEW h \in Handlers, VoidCommit(h)
  PROVE  IInv' /\ Keeps
<1>1. /\ req[h] \in Request /\ req[h].pc = "void"
      /\ voidLogs' = AddRow(voidLogs, req[h].order,
                            [by |-> req[h].cashier, shift |-> req[h].shift])
      /\ SetStatus(req[h].order, "voided") /\ Finish(h)
      /\ UNCHANGED <<payments, refunds, shifts, rates>>
  BY DEF VoidCommit, IInv, TypeOK
<1>2. StillTrue(req[h]) /\ TypeOK
  BY DEF IInv, ReadsStillHold
<1>3. PICK o \in DOMAIN orders : o = req[h].order /\ req[h].shift = orders[o].shift
  BY <1>1, <1>2 DEF StillTrue
<1>4. PICK row \in VoidRow :
         /\ row = [by |-> req[h].cashier, shift |-> req[h].shift]
         /\ row.shift = orders[o].shift
         /\ row.shift \in DOMAIN shifts
         /\ row.by = shifts[row.shift].cashier
  <2>1. /\ req[h].shift \in DOMAIN shifts
        /\ req[h].cashier = shifts[req[h].shift].cashier
    BY <1>1, <1>2 DEF StillTrue
  <2>2. [by |-> req[h].cashier, shift |-> req[h].shift] \in VoidRow
    BY <1>1, <1>2, <2>1 DEF Request, VoidRow, TypeOK
  <2>3. QED
    BY <1>3, <2>1, <2>2
<1>5. o \in Orders /\ "voided" \in OrderStatus
  BY <1>2 DEF TypeOK, OrderStatus
<1>6. /\ DOMAIN orders' = DOMAIN orders
      /\ orders' \in [DOMAIN orders -> OrderRow]
      /\ orders'[o].status = "voided"
      /\ \A x \in DOMAIN orders \ {o} : orders'[x] = orders[x]
      /\ \A x \in DOMAIN orders :
            /\ orders'[x].total = orders[x].total
            /\ orders'[x].shift = orders[x].shift
            /\ orders'[x].cashier = orders[x].cashier
  BY <1>1, <1>2, <1>3, <1>5, SetStatusKeeps
<1>7. /\ voidLogs' \in [Orders -> Seq(VoidRow)]
      /\ voidLogs'[o] = Append(voidLogs[o], row)
      /\ voidLogs'[o] # <<>>
      /\ \A x \in Orders \ {o} : voidLogs'[x] = voidLogs[x]
  <2>1. voidLogs \in [Orders -> Seq(VoidRow)]
    BY <1>2 DEF TypeOK
  <2>2. voidLogs' = AddRow(voidLogs, o, row)
    BY <1>1, <1>3, <1>4
  <2>3. QED
    BY <1>4, <1>5, <2>1, <2>2, AddRowType
<1>8. \A x \in DOMAIN orders : x \in Orders /\ (Covered(x) <=> Covered(x)')
  BY <1>1, <1>2, <1>6 DEF Covered, TypeOK
<1>9. Keeps
  BY <1>1, <1>6, <1>8 DEF Keeps
<1>10. ReadsStillHold' /\ req' \in [Handlers -> Request]
  BY <1>1, <1>2, <1>9, FinishReads DEF IInv
<1>11. TypeOK'
  BY <1>1, <1>2, <1>6, <1>7, <1>10 DEF TypeOK
<1>12. NoOrphans'
  BY <1>1, <1>6, <1>7 DEF NoOrphans, IInv
<1>13. OrderIsSellers'
  BY <1>1, <1>6 DEF OrderIsSellers, IInv
<1>14. PaymentsCover' /\ PaidIsCovered' /\ RefundIsBacked'
  <2>1. PaymentsCover'
    BY <1>1, <1>6 DEF PaymentsCover, IInv
  <2>2. PaidIsCovered' /\ RefundIsBacked'
    BY <1>1, <1>6, <1>8 DEF PaidIsCovered, RefundIsBacked, IInv
  <2>3. QED
    BY <2>1, <2>2
<1>15. StatusIsLogged'
  <2>1. SUFFICES ASSUME NEW x \in DOMAIN orders
                 PROVE  /\ orders'[x].status = "open" =>
                              payments[x] = <<>> /\ voidLogs'[x] = <<>> /\ refunds[x] = <<>>
                        /\ orders'[x].status = "paid" =>
                              payments[x] # <<>> \/ orders[x].total <= 0
                        /\ orders'[x].status = "voided" => voidLogs'[x] # <<>>
                        /\ orders'[x].status = "refunded" => refunds[x] # <<>>
    BY <1>1, <1>6 DEF StatusIsLogged
  <2>2. CASE x = o
    BY <1>6, <1>7, <2>2
  <2>3. CASE x # o
    BY <1>6, <1>7, <1>8, <2>3 DEF StatusIsLogged, IInv
  <2>4. QED
    BY <2>2, <2>3
<1>16. VoidIsAttributed'
  <2>1. SUFFICES ASSUME NEW x \in DOMAIN orders, NEW i \in DOMAIN voidLogs'[x]
                 PROVE  /\ voidLogs'[x][i].shift = orders[x].shift
                        /\ voidLogs'[x][i].by = orders[x].cashier
                        /\ voidLogs'[x][i].shift \in DOMAIN shifts
                        /\ shifts[voidLogs'[x][i].shift].cashier = voidLogs'[x][i].by
    BY <1>1, <1>6 DEF VoidIsAttributed
  <2>2. CASE i \in DOMAIN voidLogs[x] /\ voidLogs'[x][i] = voidLogs[x][i]
    BY <2>2 DEF VoidIsAttributed, IInv
  <2>3. CASE x = o /\ voidLogs'[x][i] = row
    <3>1. row.shift # NoShift
      BY <1>2, <1>4, PosAssumption DEF TypeOK, VoidRow
    <3>2. QED
      BY <1>3, <1>4, <2>3, <3>1 DEF OrderIsSellers, IInv
  <2>4. \/ i \in DOMAIN voidLogs[x] /\ voidLogs'[x][i] = voidLogs[x][i]
        \/ x = o /\ voidLogs'[x][i] = row
    <3>1. voidLogs[x] \in Seq(VoidRow)
      BY <1>2 DEF TypeOK
    <3>2. CASE x = o
      <4>1. /\ voidLogs'[x] = Append(voidLogs[x], row)
            /\ DOMAIN voidLogs'[x] = 1 .. Len(voidLogs[x]) + 1
        BY <1>4, <1>7, <3>1, <3>2
      <4>2. i \in 1 .. Len(voidLogs[x]) \/ i = Len(voidLogs[x]) + 1
        BY <3>1, <4>1
      <4>3. QED
        BY <1>4, <3>1, <3>2, <4>1, <4>2
    <3>3. CASE x # o
      BY <1>7, <1>8, <3>3
    <3>4. QED
      BY <3>2, <3>3
  <2>5. QED
    BY <2>2, <2>3, <2>4
<1>17. ForeignIsConfigured'
  BY <1>1 DEF ForeignIsConfigured, IsConfigured, IInv
<1>18. QED
  BY <1>9, <1>10, <1>11, <1>12, <1>13, <1>14, <1>15, <1>16, <1>17 DEF IInv

\* The refund row gives back the total of an order that was covered when it was
\* read, and so still is.
LEMMA RefundCommitStep ==
  ASSUME IInv, NEW h \in Handlers, RefundCommit(h)
  PROVE  IInv' /\ Keeps
<1>1. /\ req[h] \in Request /\ req[h].pc = "refund"
      /\ refunds' = AddRow(refunds, req[h].order, orders[req[h].order].total)
      /\ SetStatus(req[h].order, "refunded") /\ Finish(h)
      /\ UNCHANGED <<payments, voidLogs, shifts, rates>>
  BY DEF RefundCommit, IInv, TypeOK
<1>2. StillTrue(req[h]) /\ TypeOK
  BY DEF IInv, ReadsStillHold
<1>3. PICK o \in DOMAIN orders : o = req[h].order /\ Covered(o)
  BY <1>1, <1>2 DEF StillTrue
<1>4. PICK total \in Totals : total = orders[o].total
  BY <1>2 DEF TypeOK, OrderRow
<1>5. o \in Orders /\ "refunded" \in OrderStatus
  BY <1>2 DEF TypeOK, OrderStatus
<1>6. /\ DOMAIN orders' = DOMAIN orders
      /\ orders' \in [DOMAIN orders -> OrderRow]
      /\ orders'[o].status = "refunded"
      /\ \A x \in DOMAIN orders \ {o} : orders'[x] = orders[x]
      /\ \A x \in DOMAIN orders :
            /\ orders'[x].total = orders[x].total
            /\ orders'[x].shift = orders[x].shift
            /\ orders'[x].cashier = orders[x].cashier
  BY <1>1, <1>2, <1>3, <1>5, SetStatusKeeps
<1>7. /\ refunds' \in [Orders -> Seq(Totals)]
      /\ refunds'[o] = Append(refunds[o], total)
      /\ refunds'[o] # <<>>
      /\ \A x \in Orders \ {o} : refunds'[x] = refunds[x]
  <2>1. refunds \in [Orders -> Seq(Totals)]
    BY <1>2 DEF TypeOK
  <2>2. refunds' = AddRow(refunds, o, total)
    BY <1>1, <1>3, <1>4
  <2>3. QED
    BY <1>4, <1>5, <2>1, <2>2, AddRowType
<1>8. \A x \in DOMAIN orders : x \in Orders /\ (Covered(x) <=> Covered(x)')
  BY <1>1, <1>2, <1>6 DEF Covered, TypeOK
<1>9. Keeps
  BY <1>1, <1>6, <1>8 DEF Keeps
<1>10. ReadsStillHold' /\ req' \in [Handlers -> Request]
  BY <1>1, <1>2, <1>9, FinishReads DEF IInv
<1>11. TypeOK'
  BY <1>1, <1>2, <1>6, <1>7, <1>10 DEF TypeOK
<1>12. NoOrphans'
  BY <1>1, <1>6, <1>7 DEF NoOrphans, IInv
<1>13. OrderIsSellers' /\ VoidIsAttributed'
  BY <1>1, <1>6 DEF OrderIsSellers, VoidIsAttributed, IInv
<1>14. PaymentsCover' /\ PaidIsCovered'
  <2>1. PaymentsCover'
    BY <1>1, <1>6 DEF PaymentsCover, IInv
  <2>2. PaidIsCovered'
    BY <1>1, <1>3, <1>6, <1>8 DEF PaidIsCovered, IInv
  <2>3. QED
    BY <2>1, <2>2
<1>15. StatusIsLogged'
  <2>1. SUFFICES ASSUME NEW x \in DOMAIN orders
                 PROVE  /\ orders'[x].status = "open" =>
                              payments[x] = <<>> /\ voidLogs[x] = <<>> /\ refunds'[x] = <<>>
                        /\ orders'[x].status = "paid" =>
                              payments[x] # <<>> \/ orders[x].total <= 0
                        /\ orders'[x].status = "voided" => voidLogs[x] # <<>>
                        /\ orders'[x].status = "refunded" => refunds'[x] # <<>>
    BY <1>1, <1>6 DEF StatusIsLogged
  <2>2. CASE x = o
    BY <1>6, <1>7, <2>2
  <2>3. CASE x # o
    BY <1>6, <1>7, <1>8, <2>3 DEF StatusIsLogged, IInv
  <2>4. QED
    BY <2>2, <2>3
<1>16. RefundIsBacked'
  <2>1. SUFFICES ASSUME NEW x \in DOMAIN orders, refunds'[x] # <<>>
                 PROVE  /\ Covered(x)
                        /\ \A i \in DOMAIN refunds'[x] : refunds'[x][i] = orders[x].total
    BY <1>6, <1>8 DEF RefundIsBacked
  <2>2. \A i \in DOMAIN refunds[x] : refunds[x][i] = orders[x].total
    BY <1>8 DEF RefundIsBacked, IInv
  <2>3. CASE x = o
    <3>1. refunds[x] \in Seq(Totals)
      BY <1>2, <1>8 DEF TypeOK
    <3>2. /\ refunds'[x] = Append(refunds[x], total)
          /\ DOMAIN refunds'[x] = 1 .. Len(refunds[x]) + 1
      BY <1>4, <1>7, <2>3, <3>1
    <3>3. ASSUME NEW i \in DOMAIN refunds'[x]
          PROVE  refunds'[x][i] = orders[x].total
      <4>1. i \in 1 .. Len(refunds[x]) \/ i = Len(refunds[x]) + 1
        BY <3>1, <3>2
      <4>2. QED
        BY <1>4, <2>2, <2>3, <3>1, <3>2, <4>1
    <3>4. QED
      BY <1>3, <2>3, <3>3
  <2>4. CASE x # o
    BY <1>7, <1>8, <2>1, <2>2, <2>4 DEF RefundIsBacked, IInv
  <2>5. QED
    BY <2>3, <2>4
<1>17. ForeignIsConfigured'
  BY <1>1 DEF ForeignIsConfigured, IsConfigured, IInv
<1>18. QED
  BY <1>9, <1>10, <1>11, <1>12, <1>13, <1>14, <1>15, <1>16, <1>17 DEF IInv

\* Steps that write the shifts only.
LEMMA ShiftsStep ==
  ASSUME IInv, UNCHANGED <<orders, payments, voidLogs, refunds, rates>>,
         \A s \in DOMAIN shifts :
            /\ s \in DOMAIN shifts'
            /\ shifts'[s].cashier = shifts[s].cashier
            /\ shifts'[s].status = "open" => shifts[s].status = "open",
         DOMAIN shifts' \subseteq Shifts, shifts' \in [DOMAIN shifts' -> ShiftRow],
         req' = req \/ \E h \in Handlers : Finish(h)
  PROVE  IInv' /\ Keeps
<1>1. Keeps
  BY DEF Keeps, Covered
<1>2. ReadsStillHold' /\ req' \in [Handlers -> Request]
  <2>1. CASE req' = req
    <3>1. SUFFICES ASSUME NEW k \in Handlers PROVE StillTrue(req[k])'
      BY <2>1 DEF ReadsStillHold, IInv, TypeOK
    <3>2. PICK q \in Request : q = req'[k] /\ StillTrue(q)
      BY <2>1 DEF ReadsStillHold, IInv, TypeOK
    <3>3. StillTrue(q)'
      BY <1>1, <3>2, KnowledgeStays DEF IInv
    <3>4. QED
      BY <3>2, <3>3 DEF StillTrue
  <2>2. CASE \E h \in Handlers : Finish(h)
    BY <1>1, <2>2, FinishReads DEF IInv
  <2>3. QED
    BY <2>1, <2>2
<1>3. TypeOK'
  BY <1>2 DEF TypeOK, IInv
<1>4. NoOrphans' /\ OrderIsSellers' /\ VoidIsAttributed' /\ StatusIsLogged'
  BY DEF NoOrphans, OrderIsSellers, VoidIsAttributed, StatusIsLogged, IInv
<1>5. PaymentsCover' /\ PaidIsCovered' /\ RefundIsBacked' /\ ForeignIsConfigured'
  BY DEF PaymentsCover, PaidIsCovered, RefundIsBacked, Covered, ForeignIsConfigured,
         IsConfigured, IInv
<1>6. QED
  BY <1>1, <1>2, <1>3, <1>4, <1>5 DEF IInv

LEMMA OpenShiftInsertStep ==
  ASSUME IInv, NEW h \in Handlers, NEW s \in Shifts, OpenShiftInsert(h, s)
  PROVE  IInv' /\ Keeps
<1>1. [status |-> "open", cashier |-> req[h].cashier] \in ShiftRow
  BY DEF IInv, TypeOK, Request, ShiftRow
<1>2. /\ DOMAIN shifts' = DOMAIN shifts \cup {s}
      /\ \A x \in DOMAIN shifts : shifts'[x] = shifts[x]
      /\ shifts' \in [DOMAIN shifts' -> ShiftRow]
  BY <1>1 DEF OpenShiftInsert, InsertedShift, IInv, TypeOK
<1>3. QED
  BY <1>2, ShiftsStep DEF OpenShiftInsert, InsertedShift, IInv, TypeOK

LEMMA CloseShiftStep ==
  ASSUME IInv, NEW s \in Shifts, CloseShift(s)
  PROVE  IInv' /\ Keeps
<1>1. shifts \in [DOMAIN shifts -> ShiftRow] /\ DOMAIN shifts \subseteq Shifts
  BY DEF IInv, TypeOK
<1>2. /\ DOMAIN shifts' = DOMAIN shifts
      /\ \A x \in DOMAIN shifts :
            /\ shifts'[x].cashier = shifts[x].cashier
            /\ shifts'[x].status = "open" => shifts[x].status = "open"
      /\ shifts' \in [DOMAIN shifts' -> ShiftRow]
  BY <1>1 DEF CloseShift, Close, ShiftRow
<1>3. QED
  BY <1>1, <1>2, ShiftsStep DEF CloseShift, Close

\* What was converted keeps the rate it was converted at.
LEMMA SetRateStep ==
  ASSUME IInv, NEW c \in Foreign, NEW r \in Rates \cup {0}, SetRate(c, r)
  PROVE  IInv' /\ Keeps
<1>1. /\ rates \in [Foreign -> Rates \cup {0}]
      /\ rates' = [rates EXCEPT ![c] = r]
      /\ UNCHANGED <<orders, payments, voidLogs, refunds, shifts, req>>
  BY DEF SetRate, SetExchangeRate, IInv, TypeOK
<1>2. rates' \in [Foreign -> Rates \cup {0}]
  BY <1>1
<1>3. Keeps
  BY <1>1 DEF Keeps, Covered
<1>4. ReadsStillHold'
  <2>1. SUFFICES ASSUME NEW k \in Handlers PROVE StillTrue(req[k])'
    BY DEF ReadsStillHold
  <2>2. PICK q \in Request : q = req'[k] /\ StillTrue(q)
    BY <1>1 DEF ReadsStillHold, IInv, TypeOK
  <2>3. StillTrue(q)'
    BY <1>3, <2>2, KnowledgeStays DEF IInv
  <2>4. QED
    BY <2>2, <2>3 DEF StillTrue
<1>5. TypeOK'
  BY <1>1, <1>2 DEF TypeOK, IInv
<1>6. NoOrphans' /\ OrderIsSellers' /\ VoidIsAttributed' /\ StatusIsLogged'
  BY <1>1 DEF NoOrphans, OrderIsSellers, VoidIsAttributed, StatusIsLogged, IInv
<1>7. PaymentsCover' /\ PaidIsCovered' /\ RefundIsBacked'
  BY <1>1 DEF PaymentsCover, PaidIsCovered, RefundIsBacked, Covered, IInv
<1>8. ForeignIsConfigured'
  BY <1>1 DEF ForeignIsConfigured, IsConfigured, IInv
<1>9. QED
  BY <1>3, <1>4, <1>5, <1>6, <1>7, <1>8 DEF IInv
----------------------------------------------------------------------------
(* The invariant. *)

LEMMA InitStep == Init => IInv
<1> SUFFICES ASSUME Init PROVE IInv
  OBVIOUS
<1>1. DOMAIN orders = {} /\ DOMAIN shifts = {}
  BY DEF Init
<1>2. TypeOK
  <2>1. req \in [Handlers -> Request]
    BY IdleType DEF Init
  <2>2. QED
    BY <1>1, <2>1 DEF Init, TypeOK
<1>3. ReadsStillHold
  BY IdleType DEF Init, ReadsStillHold, StillTrue
<1>4. NoOrphans
  BY DEF Init, NoOrphans
<1>5. /\ OrderIsSellers /\ PaymentsCover /\ PaidIsCovered /\ RefundIsBacked
      /\ StatusIsLogged /\ VoidIsAttributed
  BY <1>1 DEF OrderIsSellers, PaymentsCover, PaidIsCovered, RefundIsBacked, StatusIsLogged,
              VoidIsAttributed
<1>6. ForeignIsConfigured
  BY DEF Init, ForeignIsConfigured
<1>7. QED
  BY <1>2, <1>3, <1>4, <1>5, <1>6 DEF IInv

LEMMA NextStep == IInv /\ Next => IInv' /\ Keeps
<1> SUFFICES ASSUME IInv, Next PROVE IInv' /\ Keeps
  OBVIOUS
<1>1. CASE \E h \in Handlers :
              \/ \E c \in Cashiers, t \in Totals : CreateOrderRead(h, c, t)
              \/ \E o \in Orders : CreateOrderInsert(h, o)
  BY <1>1, CreateOrderReadStep, CreateOrderInsertStep
<1>2. CASE \E h \in Handlers :
              \/ \E o \in Orders, lines \in Tenders : PayRead(h, o, lines)
              \/ PayRate(h)
              \/ PayCommit(h)
  BY <1>2, PayReadStep, PayRateStep, PayCommitStep
<1>3. CASE \E h \in Handlers :
              \/ \E c \in Cashiers, o \in Orders : VoidRead(h, c, o)
              \/ VoidCommit(h)
  BY <1>3, VoidReadStep, VoidCommitStep
<1>4. CASE \E h \in Handlers :
              \/ \E o \in Orders : RefundRead(h, o)
              \/ RefundCommit(h)
  BY <1>4, RefundReadStep, RefundCommitStep
<1>5. CASE \E h \in Handlers :
              \/ \E c \in Cashiers : OpenShiftRead(h, c)
              \/ \E s \in Shifts : OpenShiftInsert(h, s)
              \/ Abort(h)
  BY <1>5, OpenShiftReadStep, OpenShiftInsertStep, FinishStep DEF Abort
<1>6. CASE \E s \in Shifts : CloseShift(s)
  BY <1>6, CloseShiftStep
<1>7. CASE \E c \in Foreign, r \in Rates \cup {0} : SetRate(c, r)
  BY <1>7, SetRateStep
<1>8. QED
  BY <1>1, <1>2, <1>3, <1>4, <1>5, <1>6, <1>7 DEF Next

LEMMA StutterStep == IInv /\ UNCHANGED vars => IInv' /\ Keeps
<1> SUFFICES ASSUME IInv, UNCHANGED vars PROVE IInv' /\ Keeps
  OBVIOUS
<1>1. UNCHANGED tables /\ req' = req
  BY DEF vars, tables
<1>2. req' \in [Handlers -> Request] /\ ReadsStillHold'
  BY <1>1 DEF tables, IInv, TypeOK, ReadsStillHold, StillTrue, IsConfigured, Covered
<1>3. QED
  BY <1>1, <1>2, StillTables, StillKeeps

\* The types and all the safety invariants of PosOrders hold in every reachable
\* state, whatever requests overlap.
THEOREM Invariance == Spec => []IInv
<1>1. IInv /\ [Next]_vars => IInv'
  BY NextStep, StutterStep
<1>2. QED
  BY <1>1, InitStep, PTL DEF Spec

\* Every table and every request in flight keeps its type.
THEOREM TypeCorrect == Spec => []TypeOK
<1>1. IInv => TypeOK
  BY DEF IInv
<1>2. QED
  BY <1>1, Invariance, PTL

\* No order is shown as paid or refunded without a payment that covers it.
THEOREM PaymentCovers == Spec => []PaidIsCovered
<1>1. IInv => PaidIsCovered
  BY DEF IInv
<1>2. QED
  BY <1>1, Invariance, PTL

\* Nothing is given back but the total of an order that was paid in full.
THEOREM RefundBacked == Spec => []RefundIsBacked
<1>1. IInv => RefundIsBacked
  BY DEF IInv
<1>2. QED
  BY <1>1, Invariance, PTL

\* The status column agrees with the log tables.
THEOREM StatusLogged == Spec => []StatusIsLogged
<1>1. IInv => StatusIsLogged
  BY DEF IInv
<1>2. QED
  BY <1>1, Invariance, PTL

\* Every void is logged under the seller and the seller's shift.
THEOREM VoidAttributed == Spec => []VoidIsAttributed
<1>1. IInv => VoidIsAttributed
  BY DEF IInv
<1>2. QED
  BY <1>1, Invariance, PTL

\* Every payment in a foreign currency was converted at a configured rate.
THEOREM ForeignConfigured == Spec => []ForeignIsConfigured
<1>1. IInv => ForeignIsConfigured
  BY DEF IInv
<1>2. QED
  BY <1>1, Invariance, PTL

\* No step changes what another request may have read of an order or a shift,
\* but for their status, which never becomes open again.
THEOREM RowsKept == Spec => RowsAreKept
<1>1. IInv /\ [Next]_vars => Keeps
  BY NextStep, StutterStep
<1>2. QED
  BY <1>1, Invariance, PTL DEF Spec, RowsAreKept
----------------------------------------------------------------------------
(* The refinement: each of the four steps that write an order's row is one *)
(* entry in the book, every other step leaves the book as it is.           *)


\* A step that changes the entry of one order.
LEMMA OneEntry ==
  ASSUME NEW o \in Orders, NEW phase, NEW settled, NEW voids, NEW givenBack,
         EntryOf(o)' = [phase |-> phase, settled |-> settled,
                        voids |-> voids, givenBack |-> givenBack],
         \A x \in Orders \ {o} : EntryOf(x)' = EntryOf(x)
  PROVE  Book!Write(o, phase, settled, voids, givenBack)
  BY DEF Book!Write, book

\* A step that changes no entry.
LEMMA NoEntry ==
  ASSUME \A x \in Orders : EntryOf(x)' = EntryOf(x)
  PROVE  UNCHANGED book
  BY DEF book

\* An entry depends on the rows of its order only.
LEMMA SameEntry ==
  ASSUME NEW o \in Orders, o \in DOMAIN orders <=> o \in DOMAIN orders',
         o \in DOMAIN orders => orders'[o] = orders[o],
         payments'[o] = payments[o], voidLogs'[o] = voidLogs[o], refunds'[o] = refunds[o]
  PROVE  EntryOf(o)' = EntryOf(o)
<1>1. CASE o \in DOMAIN orders
  <2>1. Covered(o)' = Covered(o)
    BY <1>1 DEF Covered
  <2>2. QED
    BY <1>1, <2>1 DEF EntryOf
<1>2. CASE o \notin DOMAIN orders
  BY <1>2 DEF EntryOf
<1>3. QED
  BY <1>1, <1>2

LEMMA PlaceStep ==
  ASSUME IInv, NEW h \in Handlers, NEW o \in Orders, CreateOrderInsert(h, o)
  PROVE  Book!Place(o)
<1>1. /\ o \notin DOMAIN orders /\ DOMAIN orders' = DOMAIN orders \cup {o}
      /\ orders'[o].status = "open"
      /\ \A x \in DOMAIN orders : orders'[x] = orders[x]
      /\ UNCHANGED <<payments, voidLogs, refunds>>
  BY DEF CreateOrderInsert, InsertedOrder, NewOrder
<1>2. payments[o] = <<>> /\ voidLogs[o] = <<>> /\ refunds[o] = <<>>
  BY <1>1 DEF IInv, NoOrphans
<1>3. PICK free \in BOOLEAN : free = Covered(o)'
  BY DEF Covered
<1>4. EntryOf(o) = [phase |-> "none", settled |-> FALSE, voids |-> 0, givenBack |-> 0]
  BY <1>1 DEF EntryOf
<1>5. EntryOf(o)' = [phase |-> "open", settled |-> free, voids |-> 0, givenBack |-> 0]
  BY <1>1, <1>2, <1>3 DEF EntryOf
<1>6. \A x \in Orders \ {o} : EntryOf(x)' = EntryOf(x)
  BY <1>1, SameEntry
<1>7. book[o].phase = "none"
  BY <1>4 DEF book
<1>8. Book!Write(o, "open", free, 0, 0)
  BY <1>5, <1>6, OneEntry
<1>9. QED
  BY <1>3, <1>7, <1>8 DEF Book!Place

LEMMA SettleStep ==
  ASSUME IInv, NEW h \in Handlers, PayCommit(h)
  PROVE  \E o \in Orders : Book!Settle(o)
<1>1. IInv'
  BY PayCommitStep
<1>2. /\ req[h] \in Request /\ req[h].pc = "pay"
      /\ InsertRows(req[h].order, req[h].rated)
      /\ SetStatus(req[h].order, "paid")
      /\ UNCHANGED <<voidLogs, refunds>>
  BY DEF PayCommit, IInv, TypeOK
<1>3. StillTrue(req[h]) /\ TypeOK /\ "paid" \in OrderStatus
  BY DEF IInv, ReadsStillHold, OrderStatus
<1>4. PICK o \in DOMAIN orders : o = req[h].order
  BY <1>2, <1>3 DEF StillTrue
<1>5. o \in Orders
  BY <1>3 DEF TypeOK
<1>6. /\ DOMAIN orders' = DOMAIN orders
      /\ orders'[o].status = "paid"
      /\ \A x \in DOMAIN orders \ {o} : orders'[x] = orders[x]
  BY <1>2, <1>3, <1>4, SetStatusKeeps
<1>7. \A x \in Orders \ {o} : payments'[x] = payments[x]
  BY <1>2, <1>3, <1>4 DEF InsertRows, AddRow, TypeOK
<1>8. \A x \in Orders \ {o} : EntryOf(x)' = EntryOf(x)
  BY <1>2, <1>6, <1>7, SameEntry
<1>9. Covered(o)' = TRUE
  BY <1>1, <1>6 DEF IInv, PaidIsCovered, Covered
<1>10. EntryOf(o)' = [phase |-> "paid", settled |-> TRUE,
                      voids |-> Len(voidLogs[o]), givenBack |-> Len(refunds[o])]
  BY <1>2, <1>6, <1>9 DEF EntryOf
<1>11. /\ book[o].voids = Len(voidLogs[o])
       /\ book[o].givenBack = Len(refunds[o])
       /\ book[o].phase = orders[o].status
       /\ book[o].settled = Covered(o)
  BY <1>5 DEF book, EntryOf
<1>12. book[o].phase # "none"
  BY <1>3, <1>11 DEF TypeOK, OrderRow, OrderStatus
<1>13. Book!Write(o, "paid", TRUE, book[o].voids, book[o].givenBack)
  <2>1. Book!Write(o, "paid", TRUE, Len(voidLogs[o]), Len(refunds[o]))
    BY <1>5, <1>8, <1>10, OneEntry
  <2>2. QED
    BY <1>11, <2>1
<1>14. QED
  BY <1>5, <1>12, <1>13 DEF Book!Settle

LEMMA CancelStep ==
  ASSUME IInv, NEW h \in Handlers, VoidCommit(h)
  PROVE  \E o \in Orders : Book!Cancel(o)
<1>1. /\ req[h] \in Request /\ req[h].pc = "void"
      /\ voidLogs' = AddRow(voidLogs, req[h].order,
                            [by |-> req[h].cashier, shift |-> req[h].shift])
      /\ SetStatus(req[h].order, "voided")
      /\ UNCHANGED <<payments, refunds>>
  BY DEF VoidCommit, IInv, TypeOK
<1>2. StillTrue(req[h]) /\ TypeOK /\ "voided" \in OrderStatus
  BY DEF IInv, ReadsStillHold, OrderStatus
<1>3. PICK o \in DOMAIN orders : o = req[h].order
  BY <1>1, <1>2 DEF StillTrue
<1>4. o \in Orders
  BY <1>2 DEF TypeOK
<1>5. /\ DOMAIN orders' = DOMAIN orders
      /\ orders'[o].status = "voided"
      /\ orders'[o].total = orders[o].total
      /\ \A x \in DOMAIN orders \ {o} : orders'[x] = orders[x]
  BY <1>1, <1>2, <1>3, SetStatusKeeps
<1>6. \A x \in Orders \ {o} : voidLogs'[x] = voidLogs[x]
  BY <1>1, <1>2, <1>3 DEF AddRow, TypeOK
<1>7. \A x \in Orders \ {o} : EntryOf(x)' = EntryOf(x)
  BY <1>1, <1>5, <1>6, SameEntry
<1>8. Covered(o)' = Covered(o)
  BY <1>1, <1>5 DEF Covered
<1>9. Len(voidLogs'[o]) = Len(voidLogs[o]) + 1
  <2>1. voidLogs \in [Orders -> Seq(VoidRow)]
    BY <1>2 DEF TypeOK
  <2>2. voidLogs'[o] = Append(voidLogs[o], [by |-> req[h].cashier, shift |-> req[h].shift])
    BY <1>1, <1>3, <1>4, <2>1 DEF AddRow
  <2>3. QED
    BY <1>4, <2>1, <2>2
<1>10. EntryOf(o)' = [phase |-> "voided", settled |-> Covered(o),
                      voids |-> Len(voidLogs[o]) + 1, givenBack |-> Len(refunds[o])]
  BY <1>1, <1>5, <1>8, <1>9 DEF EntryOf
<1>11. /\ book[o].voids = Len(voidLogs[o])
       /\ book[o].givenBack = Len(refunds[o])
       /\ book[o].phase = orders[o].status
       /\ book[o].settled = Covered(o)
  BY <1>4 DEF book, EntryOf
<1>12. book[o].phase # "none"
  BY <1>2, <1>11 DEF TypeOK, OrderRow, OrderStatus
<1>13. Book!Write(o, "voided", book[o].settled, book[o].voids + 1, book[o].givenBack)
  <2>1. Book!Write(o, "voided", Covered(o), Len(voidLogs[o]) + 1, Len(refunds[o]))
    BY <1>4, <1>7, <1>10, OneEntry
  <2>2. QED
    BY <1>11, <2>1
<1>14. QED
  BY <1>4, <1>12, <1>13 DEF Book!Cancel

LEMMA GiveBackStep ==
  ASSUME IInv, NEW h \in Handlers, RefundCommit(h)
  PROVE  \E o \in Orders : Book!GiveBack(o)
<1>1. /\ req[h] \in Request /\ req[h].pc = "refund"
      /\ refunds' = AddRow(refunds, req[h].order, orders[req[h].order].total)
      /\ SetStatus(req[h].order, "refunded")
      /\ UNCHANGED <<payments, voidLogs>>
  BY DEF RefundCommit, IInv, TypeOK
<1>2. StillTrue(req[h]) /\ TypeOK /\ "refunded" \in OrderStatus
  BY DEF IInv, ReadsStillHold, OrderStatus
<1>3. PICK o \in DOMAIN orders : o = req[h].order /\ Covered(o)
  BY <1>1, <1>2 DEF StillTrue
<1>4. o \in Orders
  BY <1>2 DEF TypeOK
<1>5. /\ DOMAIN orders' = DOMAIN orders
      /\ orders'[o].status = "refunded"
      /\ orders'[o].total = orders[o].total
      /\ \A x \in DOMAIN orders \ {o} : orders'[x] = orders[x]
  BY <1>1, <1>2, <1>3, SetStatusKeeps
<1>6. \A x \in Orders \ {o} : refunds'[x] = refunds[x]
  BY <1>1, <1>2, <1>3 DEF AddRow, TypeOK
<1>7. \A x \in Orders \ {o} : EntryOf(x)' = EntryOf(x)
  BY <1>1, <1>5, <1>6, SameEntry
<1>8. Covered(o)' = TRUE /\ Covered(o) = TRUE
  BY <1>1, <1>3, <1>5 DEF Covered
<1>9. Len(refunds'[o]) = Len(refunds[o]) + 1
  <2>1. refunds \in [Orders -> Seq(Totals)]
    BY <1>2 DEF TypeOK
  <2>2. refunds'[o] = Append(refunds[o], orders[req[h].order].total)
    BY <1>1, <1>3, <1>4, <2>1 DEF AddRow
  <2>3. QED
    BY <1>4, <2>1, <2>2
<1>10. EntryOf(o)' = [phase |-> "refunded", settled |-> TRUE,
                      voids |-> Len(voidLogs[o]), givenBack |-> Len(refunds[o]) + 1]
  BY <1>1, <1>5, <1>8, <1>9 DEF EntryOf
<1>11. /\ book[o].voids = Len(voidLogs[o])
       /\ book[o].givenBack = Len(refunds[o])
       /\ book[o].phase = orders[o].status
       /\ book[o].settled = Covered(o)
  BY <1>4 DEF book, EntryOf
<1>12. book[o].settled
  BY <1>8, <1>11
<1>13. Book!Write(o, "refunded", TRUE, book[o].voids, book[o].givenBack + 1)
  <2>1. Book!Write(o, "refunded", TRUE, Len(voidLogs[o]), Len(refunds[o]) + 1)
    BY <1>4, <1>7, <1>10, OneEntry
  <2>2. QED
    BY <1>11, <2>1
<1>14. QED
  BY <1>4, <1>12, <1>13 DEF Book!GiveBack

\* The other steps write no order, payment, void or refund.
LEMMA QuietStep ==
  ASSUME UNCHANGED <<orders, payments, voidLogs, refunds>>
  PROVE  UNCHANGED book
  BY NoEntry, SameEntry

LEMMA BookInit == Init => Book!Init
<1> SUFFICES ASSUME Init PROVE Book!Init
  OBVIOUS
<1>1. ASSUME NEW o \in Orders
      PROVE  EntryOf(o) = [phase |-> "none", settled |-> FALSE, voids |-> 0, givenBack |-> 0]
  BY DEF Init, EntryOf
<1>2. QED
  BY <1>1 DEF book, Book!Init

LEMMA BookNext == IInv /\ [Next]_vars => [Book!Next]_book
<1> SUFFICES ASSUME IInv, [Next]_vars PROVE [Book!Next]_book
  OBVIOUS
<1>1. CASE \E h \in Handlers, o \in Orders : CreateOrderInsert(h, o)
  BY <1>1, PlaceStep DEF Book!Next
<1>2. CASE \E h \in Handlers : PayCommit(h)
  BY <1>2, SettleStep DEF Book!Next
<1>3. CASE \E h \in Handlers : VoidCommit(h)
  BY <1>3, CancelStep DEF Book!Next
<1>4. CASE \E h \in Handlers : RefundCommit(h)
  BY <1>4, GiveBackStep DEF Book!Next
<1>5. CASE UNCHANGED <<orders, payments, voidLogs, refunds>>
  BY <1>5, QuietStep
<1>6. QED
  BY <1>1, <1>2, <1>3, <1>4, <1>5
     DEF Next, vars, tables, CreateOrderRead, PayRead, Known, PayRate, VoidRead, RefundRead,
         OpenShiftRead, OpenShiftInsert, InsertedShift, CloseShift, Close, SetRate,
         SetExchangeRate, Abort

\* Whatever requests overlap, each order goes through a life the book allows:
\* placed once, then settled, voided and refunded in single steps, and refunded
\* only once it was settled.
THEOREM Refinement == Spec => ImplementsBook
<1>1. Spec => []IInv
  BY Invariance
<1>2. QED
  BY <1>1, BookInit, BookNext, PTL DEF Spec, ImplementsBook, Book!Spec
----------------------------------------------------------------------------
(* The rows the summary joins. *)

\* The rows an order appears with in the LEFT JOIN.
RowsOf(o) == IF PaymentRows(o) = {} THEN {NoPayment} ELSE PaymentRows(o)

\* What a joined row was tendered for, nothing without a payment.
Exact(r) ==
  IF r[2] = NoPayment THEN 0
  ELSE LET p == payments[r[1]][r[2][1]][r[2][2]] IN p.line.amount * p.rate

\* What the column keeps of it.
Kept(r) == IF r[2] = NoPayment THEN 0 ELSE AmountLAK(r[1], r[2])

\* What it may have lost.
Slack(r) == IF r[2] = NoPayment THEN 0 ELSE Half

\* Rounding to whole cents takes half a cent at most.
LEMMA InCentsLoses ==
  ASSUME NEW x \in Int
  PROVE  InCents(x) \in Int /\ x <= InCents(x) + Half
<1>1. Half \in Nat \ {0} /\ Cent = 2 * Half /\ Cent \in Nat \ {0}
  BY PosAssumption DEF Cent
<1>2. ASSUME NEW a \in Int, NEW c \in Nat \ {0}
      PROVE  a \div c \in Int /\ c * (a \div c) <= a /\ a < c * (a \div c) + c
  OBVIOUS
<1>3. ASSUME NEW a \in Int
      PROVE  \E n \in Int : n = Cent * (a \div Cent) /\ n <= a /\ a < n + Cent
  <2>1. a \div Cent \in Int /\ Cent * (a \div Cent) <= a /\ a < Cent * (a \div Cent) + Cent
    BY <1>1, <1>2
  <2>2. \A m, n \in Int : m * n \in Int
    OBVIOUS
  <2>3. Cent * (a \div Cent) \in Int
    BY <1>1, <2>1, <2>2
  <2>4. QED
    BY <2>1, <2>3
<1>4. CASE x >= 0
  <2>1. PICK n \in Int :
           n = Cent * ((x + Half) \div Cent) /\ n <= x + Half /\ x + Half < n + Cent
    <3>1. x + Half \in Int
      BY <1>1
    <3>2. QED
      BY <1>3, <3>1
  <2>2. InCents(x) = n
    BY <1>4, <2>1 DEF InCents
  <2>3. QED
    BY <1>1, <2>1, <2>2
<1>5. CASE x < 0
  <2>1. PICK n \in Int :
           n = Cent * ((Half - x) \div Cent) /\ n <= Half - x /\ Half - x < n + Cent
    <3>1. Half - x \in Int
      BY <1>1
    <3>2. QED
      BY <1>3, <3>1
  <2>2. InCents(x) = -n
    BY <1>5, <2>1 DEF InCents
  <2>3. QED
    BY <1>1, <2>1, <2>2
<1>6. QED
  BY <1>4, <1>5

\* A row stands for a line of a committed payment, and is worth an amount.
LEMMA PaymentRow ==
  ASSUME TypeOK, NEW o \in Orders
  PROVE  /\ IsFiniteSet(PaymentRows(o)) /\ IsFiniteSet(DOMAIN payments[o])
         /\ \A b \in DOMAIN payments[o] :
               IsFiniteSet(DOMAIN payments[o][b]) /\ payments[o][b] \in Seq(RatedLine)
         /\ \A b \in DOMAIN payments[o] : \A i \in DOMAIN payments[o][b] :
               <<b, i>> \in PaymentRows(o)
         /\ \A row \in PaymentRows(o) :
               /\ row # NoPayment
               /\ \E b \in DOMAIN payments[o] : \E i \in DOMAIN payments[o][b] : row = <<b, i>>
               /\ Exact(<<o, row>>) \in Int
               /\ AmountLAK(o, row) = InCents(Exact(<<o, row>>))
<1>1. payments[o] \in Seq(Seq(RatedLine)) /\ DOMAIN payments[o] = 1 .. Len(payments[o])
  BY DEF TypeOK
<1>2. \A b \in DOMAIN payments[o] :
         payments[o][b] \in Seq(RatedLine) /\ DOMAIN payments[o][b] = 1 .. Len(payments[o][b])
  BY <1>1
<1> DEFINE f == [b \in DOMAIN payments[o] |-> {b} \X DOMAIN payments[o][b]]
<1>3. PaymentRows(o) = UNION {f[b] : b \in DOMAIN payments[o]}
  BY DEF PaymentRows
<1>4. IsFiniteSet(DOMAIN payments[o])
  <2>1. Len(payments[o]) \in Int /\ 1 \in Int
    BY <1>1
  <2>2. QED
    BY <1>1, <2>1, FS_Interval
<1>5. ASSUME NEW b \in DOMAIN payments[o]
      PROVE  IsFiniteSet(f[b]) /\ IsFiniteSet(DOMAIN payments[o][b])
  <2>1. Len(payments[o][b]) \in Int /\ 1 \in Int
    BY <1>2
  <2>2. IsFiniteSet(DOMAIN payments[o][b]) /\ IsFiniteSet({b})
    BY <1>2, <2>1, FS_Interval, FS_Singleton
  <2>3. IsFiniteSet({b} \X DOMAIN payments[o][b])
    BY <2>2, FS_Product
  <2>4. QED
    BY <2>2, <2>3
<1>6. IsFiniteSet(PaymentRows(o))
  <2> HIDE DEF f
  <2>1. QED
    BY <1>3, <1>4, <1>5, FiniteUnion
<1>7. \A b \in DOMAIN payments[o] : \A i \in DOMAIN payments[o][b] : <<b, i>> \in PaymentRows(o)
  BY DEF PaymentRows
<1>8. ASSUME NEW row \in PaymentRows(o)
      PROVE  /\ row # NoPayment
             /\ \E b \in DOMAIN payments[o] : \E i \in DOMAIN payments[o][b] : row = <<b, i>>
             /\ Exact(<<o, row>>) \in Int
             /\ AmountLAK(o, row) = InCents(Exact(<<o, row>>))
  <2>1. PICK b \in DOMAIN payments[o] : \E i \in DOMAIN payments[o][b] : row = <<b, i>>
    BY DEF PaymentRows
  <2>2. PICK i \in DOMAIN payments[o][b] : row = <<b, i>>
    BY <2>1
  <2>3. b # 0
    BY <1>1
  <2>4. payments[o][b][i] \in RatedLine
    BY <1>2
  <2>5. payments[o][b][i].line.amount \in Int /\ payments[o][b][i].rate \in Int
    BY <2>4 DEF RatedLine, Line
  <2>6. \A x, y \in Int : x * y \in Int
    OBVIOUS
  <2>7. row # NoPayment
    BY <2>2, <2>3 DEF NoPayment
  <2>8. Exact(<<o, row>>) = payments[o][b][i].line.amount * payments[o][b][i].rate
    BY <2>2, <2>7 DEF Exact
  <2>9. AmountLAK(o, row) = InCents(payments[o][b][i].line.amount * payments[o][b][i].rate)
    BY <2>2 DEF AmountLAK
  <2>10. QED
    BY <2>1, <2>5, <2>6, <2>7, <2>8, <2>9
<1>9. QED
  BY <1>2, <1>4, <1>5, <1>6, <1>7, <1>8

\* Of an order that has no rows, or some, at least one row is joined.
LEMMA JoinedRows ==
  ASSUME TypeOK, IsFiniteSet(DOMAIN orders), NEW s
  PROVE  /\ IsFiniteSet(PaidOrders(s)) /\ PaidOrders(s) \subseteq DOMAIN orders
         /\ PaidOrders(s) \subseteq Orders
         /\ \A o \in PaidOrders(s) : IsFiniteSet(RowsOf(o)) /\ orders[o].total \in Int
         /\ Joined(s) = UNION {{o} \X RowsOf(o) : o \in PaidOrders(s)}
         /\ IsFiniteSet(Joined(s))
<1>1. IsFiniteSet(PaidOrders(s)) /\ PaidOrders(s) \subseteq DOMAIN orders
  BY FS_Subset DEF PaidOrders
<1>2. PaidOrders(s) \subseteq Orders
  BY <1>1 DEF TypeOK
<1>3. \A o \in PaidOrders(s) : IsFiniteSet(RowsOf(o))
  BY <1>2, PaymentRow, FS_Singleton DEF RowsOf
<1>4. \A o \in PaidOrders(s) : orders[o].total \in Int
  BY <1>1, PosAssumption DEF TypeOK, OrderRow
<1>5. Joined(s) = UNION {{o} \X RowsOf(o) : o \in PaidOrders(s)}
  BY DEF Joined, RowsOf
<1> DEFINE f == [o \in PaidOrders(s) |-> {o} \X RowsOf(o)]
<1>6. \A o \in PaidOrders(s) : IsFiniteSet(f[o])
  BY <1>3, FS_Singleton, FS_Product
<1>7. Joined(s) = UNION {f[o] : o \in PaidOrders(s)}
  BY <1>5
<1> HIDE DEF f
<1>8. IsFiniteSet(Joined(s))
  BY <1>1, <1>6, <1>7, FiniteUnion
<1>9. QED
  BY <1>1, <1>2, <1>3, <1>4, <1>5, <1>8

\* What a joined row is worth, what the column keeps of it and what it may lose.
LEMMA JoinedRow ==
  ASSUME TypeOK, IsFiniteSet(DOMAIN orders), NEW s, NEW r \in Joined(s)
  PROVE  /\ Exact(r) \in Int /\ Kept(r) \in Int /\ Slack(r) \in Int
         /\ Exact(r) <= Kept(r) + Slack(r)
<1>1. /\ PaidOrders(s) \subseteq Orders
      /\ Joined(s) = UNION {{o} \X RowsOf(o) : o \in PaidOrders(s)}
  BY JoinedRows
<1>2. PICK o \in PaidOrders(s) : \E row \in RowsOf(o) : r = <<o, row>>
  BY <1>1
<1>3. PICK row \in RowsOf(o) : r = <<o, row>>
  BY <1>2
<1>4. CASE row = NoPayment
  BY <1>3, <1>4 DEF Exact, Kept, Slack
<1>5. CASE row # NoPayment
  <2>1. row \in PaymentRows(o) /\ o \in Orders
    BY <1>1, <1>3, <1>5 DEF RowsOf
  <2>2. Exact(r) \in Int /\ AmountLAK(o, row) = InCents(Exact(r))
    BY <1>3, <2>1, PaymentRow
  <2>3. Kept(r) = InCents(Exact(r)) /\ Slack(r) = Half /\ Half \in Int
    BY <1>3, <1>5, <2>2, PosAssumption DEF Kept, Slack
  <2>4. InCents(Exact(r)) \in Int /\ Exact(r) <= InCents(Exact(r)) + Half
    BY <2>2, InCentsLoses
  <2>5. QED
    BY <2>2, <2>3, <2>4
<1>6. QED
  BY <1>4, <1>5

\* A figure of the joined rows is the sum over the paid orders of what their rows
\* come to.
LEMMA SumByOrder ==
  ASSUME TypeOK, IsFiniteSet(DOMAIN orders), NEW s,
         NEW f, \A r \in Joined(s) : f[r] \in Int,
         NEW g, \A o \in PaidOrders(s) : g[o] = SumFunctionOnSet(f, {o} \X RowsOf(o))
  PROVE  SumFunctionOnSet(f, Joined(s)) = SumFunctionOnSet(g, PaidOrders(s))
<1> DEFINE order == [r \in Joined(s) |-> r[1]]
<1>1. /\ IsFiniteSet(PaidOrders(s)) /\ IsFiniteSet(Joined(s))
      /\ Joined(s) = UNION {{o} \X RowsOf(o) : o \in PaidOrders(s)}
  BY JoinedRows
<1>2. \A r \in Joined(s) : order[r] \in PaidOrders(s)
  BY <1>1
<1>3. \A o \in PaidOrders(s) : GroupOf(Joined(s), order, o) = {o} \X RowsOf(o)
  BY <1>1 DEF GroupOf
<1> HIDE DEF order
<1>4. \A o \in PaidOrders(s) : g[o] = SumFunctionOnSet(f, GroupOf(Joined(s), order, o))
  BY <1>3
<1> DEFINE J == Joined(s)
           Sold == PaidOrders(s)
<1>5. IsFiniteSet(Sold) /\ IsFiniteSet(J)
  BY <1>1
<1>6. \A r \in J : f[r] \in Int
  OBVIOUS
<1>7. \A r \in J : order[r] \in Sold
  BY <1>2
<1>8. \A o \in Sold : g[o] = SumFunctionOnSet(f, GroupOf(J, order, o))
  BY <1>4
<1> HIDE DEF J, Sold
<1>9. SumFunctionOnSet(f, J) = SumFunctionOnSet(g, Sold)
  BY <1>5, <1>6, <1>7, <1>8, SumOfGroups
<1>10. QED
  BY <1>9 DEF J, Sold
----------------------------------------------------------------------------
(* What a paid order's rows come to. *)

\* The rows of a batch.
BatchRows(o, b) == {b} \X DOMAIN payments[o][b]

\* The rows of a batch are worth what was compared with the total.
LEMMA BatchIsPaid ==
  ASSUME TypeOK, NEW o \in Orders, NEW b \in DOMAIN payments[o],
         NEW f, \A row \in PaymentRows(o) : f[<<o, row>>] = Exact(<<o, row>>)
  PROVE  SumFunctionOnSet(f, {o} \X BatchRows(o, b)) = Paid(payments[o][b])
<1> DEFINE lines == payments[o][b]
           amount == [i \in DOMAIN lines |-> lines[i].line.amount * lines[i].rate]
           row == [i \in DOMAIN lines |-> <<o, <<b, i>>>>]
           D == DOMAIN lines
<1>1. IsFiniteSet(D)
  BY PaymentRow
<1>2. Paid(lines) = SumFunctionOnSet(amount, D)
  BY DEF Paid, SumFunction
<1>3. ASSUME NEW i \in D
      PROVE  f[row[i]] \in Int /\ amount[i] = f[row[i]]
  <2>1. <<b, i>> \in PaymentRows(o) /\ <<b, i>> # NoPayment /\ Exact(<<o, <<b, i>>>>) \in Int
    BY PaymentRow
  <2>2. Exact(<<o, <<b, i>>>>) = amount[i]
    BY <2>1 DEF Exact
  <2>3. row[i] = <<o, <<b, i>>>>
    OBVIOUS
  <2> HIDE DEF row, amount
  <2>4. QED
    BY <2>1, <2>2, <2>3
<1>4. ASSUME NEW i \in D, NEW j \in D, row[i] = row[j] PROVE i = j
  <2>1. row[i][2][2] = i /\ row[j][2][2] = j
    OBVIOUS
  <2> HIDE DEF row
  <2>2. QED
    BY <1>4, <2>1
<1>5. {row[i] : i \in D} = {o} \X BatchRows(o, b)
  <2>1. \A i \in D : row[i] = <<o, <<b, i>>>>
    OBVIOUS
  <2>2. \A x \in {o} \X BatchRows(o, b) : \E i \in D : x = <<o, <<b, i>>>>
    BY DEF BatchRows
  <2>3. \A i \in D : <<o, <<b, i>>>> \in {o} \X BatchRows(o, b)
    BY DEF BatchRows
  <2> HIDE DEF D, row
  <2>4. QED
    BY <2>1, <2>2, <2>3
<1> HIDE DEF lines, amount, row, D
<1>6. SumFunctionOnSet(f, {row[i] : i \in D}) = SumFunctionOnSet(amount, D)
  BY <1>1, <1>3, <1>4, SumRenamed
<1>7. QED
  BY <1>2, <1>5, <1>6 DEF lines, D

\* All rows of an order are worth the sum of its batches.
LEMMA RowsArePaid ==
  ASSUME TypeOK, NEW o \in Orders,
         NEW f, \A row \in PaymentRows(o) : f[<<o, row>>] = Exact(<<o, row>>),
         NEW g, \A b \in DOMAIN payments[o] : g[b] = Paid(payments[o][b])
  PROVE  SumFunctionOnSet(f, {o} \X PaymentRows(o)) = SumFunctionOnSet(g, DOMAIN payments[o])
<1> DEFINE R == {o} \X PaymentRows(o)
           Batches == DOMAIN payments[o]
           batch == [r \in R |-> r[2][1]]
<1>1. IsFiniteSet(R) /\ IsFiniteSet(Batches)
  BY PaymentRow, FS_Singleton, FS_Product
<1>2. \A r \in R : f[r] \in Int
  BY PaymentRow
<1>3. \A r \in R : batch[r] \in Batches
  BY DEF PaymentRows
<1>4. ASSUME NEW b \in Batches
      PROVE  g[b] = SumFunctionOnSet(f, GroupOf(R, batch, b))
  <2>1. GroupOf(R, batch, b) = {o} \X BatchRows(o, b)
    BY DEF PaymentRows, BatchRows, GroupOf
  <2>2. SumFunctionOnSet(f, {o} \X BatchRows(o, b)) = Paid(payments[o][b])
    BY BatchIsPaid
  <2>3. QED
    BY <2>1, <2>2
<1> HIDE DEF R, Batches, batch
<1>5. SumFunctionOnSet(f, R) = SumFunctionOnSet(g, Batches)
  BY <1>1, <1>2, <1>3, <1>4, SumOfGroups
<1>6. QED
  BY <1>5 DEF R, Batches

\* Unless its total is below 0, no payment of an order is, and one covers it.
LEMMA BatchesCover ==
  ASSUME TypeOK, PaymentsCover, NEW o \in DOMAIN orders, Covered(o), orders[o].total >= 0,
         NEW g, \A b \in DOMAIN payments[o] : g[b] = Paid(payments[o][b])
  PROVE  SumFunctionOnSet(g, DOMAIN payments[o]) >= orders[o].total
<1>1. o \in Orders /\ orders[o].total \in Int
  BY PosAssumption DEF TypeOK, OrderRow
<1>2. IsFiniteSet(DOMAIN payments[o])
  BY <1>1, PaymentRow
<1>3. ASSUME NEW b \in DOMAIN payments[o]
      PROVE  g[b] \in Nat /\ g[b] \in Int /\ g[b] >= orders[o].total
  <2>1. Paid(payments[o][b]) \in Int
    BY <1>1, PaidIsInt DEF TypeOK
  <2>2. Paid(payments[o][b]) >= orders[o].total
    BY DEF PaymentsCover
  <2>3. QED
    BY <1>1, <2>1, <2>2
<1>4. SumFunctionOnSet(g, DOMAIN payments[o]) \in Int
  BY <1>2, <1>3, SumTakesOut
<1>5. SumFunctionOnSet(g, DOMAIN payments[o]) >= 0
  BY <1>2, <1>3, SumNotNegative
<1>6. CASE orders[o].total <= 0
  BY <1>1, <1>4, <1>5, <1>6
<1>7. CASE \E b \in DOMAIN payments[o] : TRUE
  <2>1. PICK b \in DOMAIN payments[o] : TRUE
    BY <1>7
  <2>2. SumFunctionOnSet(g, DOMAIN payments[o]) >= g[b]
    BY <1>2, <1>3, SumOfMember
  <2>3. g[b] \in Int /\ g[b] >= orders[o].total
    BY <1>3
  <2>4. QED
    BY <1>1, <1>4, <2>2, <2>3
<1>8. QED
  BY <1>6, <1>7 DEF Covered

\* The joined rows of a paid order are worth its total at least.
LEMMA RowsCover ==
  ASSUME TypeOK, PaymentsCover, PaidIsCovered, IsFiniteSet(DOMAIN orders),
         NEW s, NEW o \in PaidOrders(s), orders[o].total >= 0,
         NEW f, \A r \in {o} \X RowsOf(o) : f[r] = Exact(r)
  PROVE  SumFunctionOnSet(f, {o} \X RowsOf(o)) >= orders[o].total
<1>1. o \in Orders /\ o \in DOMAIN orders /\ orders[o].total \in Int /\ Covered(o)
  BY JoinedRows DEF PaidOrders, PaidIsCovered
<1> DEFINE g == [b \in DOMAIN payments[o] |-> Paid(payments[o][b])]
<1>2. \A b \in DOMAIN payments[o] : g[b] = Paid(payments[o][b])
  OBVIOUS
<1> HIDE DEF g
<1>3. SumFunctionOnSet(g, DOMAIN payments[o]) >= orders[o].total
  BY <1>1, <1>2, BatchesCover
<1>4. \A row \in PaymentRows(o) : f[<<o, row>>] = Exact(<<o, row>>)
  BY DEF RowsOf
<1>5. SumFunctionOnSet(f, {o} \X PaymentRows(o)) = SumFunctionOnSet(g, DOMAIN payments[o])
  BY <1>1, <1>2, <1>4, RowsArePaid
<1>6. CASE PaymentRows(o) # {}
  BY <1>3, <1>5, <1>6 DEF RowsOf
<1>7. CASE PaymentRows(o) = {}
  <2>1. {o} \X RowsOf(o) = {<<o, NoPayment>>} /\ {o} \X PaymentRows(o) = {}
    BY <1>7 DEF RowsOf
  <2>2. f[<<o, NoPayment>>] = 0
    BY <2>1 DEF Exact
  <2>3. SumFunctionOnSet(f, {<<o, NoPayment>>}) = 0
    BY <2>2, SumOfOne
  <2>4. SumFunctionOnSet(f, {}) = 0
    <3>1. \A x \in {} : f[x] \in Int
      OBVIOUS
    <3>2. QED
      BY <3>1, FS_EmptySet, SumTakesOut
  <2>5. QED
    BY <1>3, <1>5, <2>1, <2>3, <2>4
<1>8. QED
  BY <1>6, <1>7
----------------------------------------------------------------------------
(* The takings of a shift. *)

\* The columns are three.
LEMMA SumOfColumns ==
  ASSUME NEW f, \A m \in Columns : f[m] \in Int
  PROVE  SumFunctionOnSet(f, Columns) = f["cash"] + (f["qr"] + f["transfer"])
<1> DEFINE T == {"transfer"}
           U == T \cup {"qr"}
<1>1. /\ T \in SUBSET Columns /\ "qr" \in Columns \ T
      /\ U \in SUBSET Columns /\ "cash" \in Columns \ U
      /\ Columns = U \cup {"cash"}
  BY DEF Columns
<1>2. f["cash"] \in Int /\ f["qr"] \in Int /\ f["transfer"] \in Int
  BY DEF Columns
<1>3. SumFunctionOnSet(f, T) = f["transfer"]
  BY <1>2, SumOfOne
<1> HIDE DEF T
<1>4. IsFiniteSet(Columns)
  <2>1. IsFiniteSet(T)
    BY FS_Singleton DEF T
  <2>2. IsFiniteSet(U)
    BY <2>1, FS_AddElement
  <2> HIDE DEF U
  <2>3. QED
    BY <1>1, <2>2, FS_AddElement
<1>5. SumFunctionOnSet(f, U) = f["qr"] + SumFunctionOnSet(f, T)
  BY <1>1, <1>4, SumAddsOne
<1> HIDE DEF U
<1>6. SumFunctionOnSet(f, U \cup {"cash"}) = f["cash"] + SumFunctionOnSet(f, U)
  BY <1>1, <1>4, SumAddsOne
<1>7. QED
  BY <1>1, <1>3, <1>5, <1>6

\* Each row of a payment counts for one column or for none.
LEMMA TakingsAreKept ==
  ASSUME TypeOK, IsFiniteSet(DOMAIN orders), NEW s
  PROVE  SumFunction([m \in Columns |-> MethodTotal(s, m)]) + Unlisted(s)
           = SumFunctionOnSet([r \in Joined(s) |-> Kept(r)], Joined(s))
<1> DEFINE By(m) == [r \in Joined(s) |->
                       IF PaidBy(m, r[1], r[2]) THEN AmountLAK(r[1], r[2]) ELSE 0]
           cash == By("cash")
           qr == By("qr")
           transfer == By("transfer")
           other == [r \in Joined(s) |->
                       IF r[2] # NoPayment /\ \A m \in Columns : ~PaidBy(m, r[1], r[2])
                       THEN AmountLAK(r[1], r[2]) ELSE 0]
           kept == [r \in Joined(s) |-> Kept(r)]
           two == [r \in Joined(s) |-> qr[r] + transfer[r]]
           three == [r \in Joined(s) |-> cash[r] + two[r]]
           all == [r \in Joined(s) |-> three[r] + other[r]]
           takings == [m \in Columns |-> MethodTotal(s, m)]
<1>1. IsFiniteSet(Joined(s))
  BY JoinedRows
<1>2. ASSUME NEW r \in Joined(s)
      PROVE  /\ Kept(r) \in Int
             /\ cash[r] \in Int /\ qr[r] \in Int /\ transfer[r] \in Int /\ other[r] \in Int
             /\ (cash[r] + (qr[r] + transfer[r])) + other[r] = Kept(r)
  <2>1. PICK a \in Int : a = Kept(r)
    BY JoinedRow
  <2>2. CASE r[2] = NoPayment
    BY <2>2 DEF PaidBy, Kept
  <2>3. CASE r[2] # NoPayment
    <3>1. PICK method : method = payments[r[1]][r[2][1]][r[2][2]].line.method
      OBVIOUS
    <3>2. /\ cash[r] = IF method = "cash" THEN a ELSE 0
          /\ qr[r] = IF method = "qr" THEN a ELSE 0
          /\ transfer[r] = IF method = "transfer" THEN a ELSE 0
          /\ other[r] = IF method \in {"cash", "qr", "transfer"} THEN 0 ELSE a
      BY <2>1, <2>3, <3>1 DEF PaidBy, Kept, Columns
    <3> HIDE DEF cash, qr, transfer, other
    <3>3. QED
      BY <2>1, <3>2
  <2>4. QED
    BY <2>2, <2>3
<1>3. /\ MethodTotal(s, "cash") = SumFunctionOnSet(cash, Joined(s))
      /\ MethodTotal(s, "qr") = SumFunctionOnSet(qr, Joined(s))
      /\ MethodTotal(s, "transfer") = SumFunctionOnSet(transfer, Joined(s))
      /\ Unlisted(s) = SumFunctionOnSet(other, Joined(s))
  BY DEF MethodTotal, Unlisted, SumFunction
<1>4. SumFunction(takings) = SumFunctionOnSet(takings, Columns)
  BY DEF SumFunction
<1>5. /\ takings["cash"] = MethodTotal(s, "cash")
      /\ takings["qr"] = MethodTotal(s, "qr")
      /\ takings["transfer"] = MethodTotal(s, "transfer")
  BY DEF Columns
<1>6. \A r \in Joined(s) : /\ two[r] = qr[r] + transfer[r]
                           /\ three[r] = cash[r] + two[r]
                           /\ all[r] = three[r] + other[r]
                           /\ kept[r] = Kept(r)
  OBVIOUS
<1>7. \A r \in Joined(s) : /\ cash[r] \in Int /\ qr[r] \in Int /\ transfer[r] \in Int
                           /\ other[r] \in Int
  BY <1>2
<1>8. \A r \in Joined(s) : /\ two[r] \in Int /\ three[r] \in Int
                           /\ kept[r] \in Int /\ all[r] = kept[r]
  <2> HIDE DEF cash, qr, transfer, other, two, three, all, kept
  <2>1. QED
    BY <1>2, <1>6, <1>7
<1>9. SumFunctionOnSet(two, Joined(s))
        = SumFunctionOnSet(qr, Joined(s)) + SumFunctionOnSet(transfer, Joined(s))
  <2> HIDE DEF qr, transfer
  <2>1. QED
    BY <1>1, <1>7, SumOfBoth
<1>10. SumFunctionOnSet(three, Joined(s))
        = SumFunctionOnSet(cash, Joined(s)) + SumFunctionOnSet(two, Joined(s))
  <2> HIDE DEF cash, two
  <2>1. QED
    BY <1>1, <1>7, <1>8, SumOfBoth
<1>11. SumFunctionOnSet(all, Joined(s))
        = SumFunctionOnSet(three, Joined(s)) + SumFunctionOnSet(other, Joined(s))
  <2> HIDE DEF three, other
  <2>1. QED
    BY <1>1, <1>7, <1>8, SumOfBoth
<1> HIDE DEF By, cash, qr, transfer, other, two, three, all, kept, takings
<1>12. SumFunctionOnSet(kept, Joined(s)) = SumFunctionOnSet(all, Joined(s))
  BY <1>1, <1>8, SumOfSame
<1>13. /\ MethodTotal(s, "cash") \in Int /\ MethodTotal(s, "qr") \in Int
       /\ MethodTotal(s, "transfer") \in Int /\ Unlisted(s) \in Int
  BY <1>1, <1>3, <1>7, SumTakesOut
<1>14. \A m \in Columns : takings[m] \in Int
  BY <1>5, <1>13 DEF Columns
<1>15. SumFunctionOnSet(takings, Columns)
         = takings["cash"] + (takings["qr"] + takings["transfer"])
  BY <1>14, SumOfColumns
<1>16. SumFunction(takings) + Unlisted(s) = SumFunctionOnSet(kept, Joined(s))
  BY <1>3, <1>4, <1>5, <1>9, <1>10, <1>11, <1>12, <1>15
<1>17. QED
  BY <1>16 DEF takings, kept

\* Each paid order's rows are worth its total, what the column keeps of a row is
\* worth it but for half a cent, and the columns share what is kept.
LEMMA TakingsCounted ==
  ASSUME TypeOK, PaymentsCover, PaidIsCovered, IsFiniteSet(DOMAIN orders), NEW s,
         \A o \in PaidOrders(s) : orders[o].total >= 0
  PROVE  SumFunction([m \in Columns |-> MethodTotal(s, m)]) + Unlisted(s) + Rounding(s)
           >= SalesOf(s)
<1> DEFINE exact == [r \in Joined(s) |-> Exact(r)]
           kept == [r \in Joined(s) |-> Kept(r)]
           slack == [r \in Joined(s) |-> Slack(r)]
           both == [r \in Joined(s) |-> kept[r] + slack[r]]
           g == [o \in PaidOrders(s) |-> SumFunctionOnSet(exact, {o} \X RowsOf(o))]
           sold == [o \in PaidOrders(s) |-> orders[o].total]
<1>1. /\ IsFiniteSet(PaidOrders(s)) /\ IsFiniteSet(Joined(s))
      /\ \A o \in PaidOrders(s) : IsFiniteSet(RowsOf(o)) /\ orders[o].total \in Int
      /\ Joined(s) = UNION {{o} \X RowsOf(o) : o \in PaidOrders(s)}
  BY JoinedRows
<1>2. \A r \in Joined(s) : /\ exact[r] = Exact(r) /\ kept[r] = Kept(r) /\ slack[r] = Slack(r)
                           /\ both[r] = kept[r] + slack[r]
  OBVIOUS
<1>3. SumFunction([m \in Columns |-> MethodTotal(s, m)]) + Unlisted(s)
        = SumFunctionOnSet(kept, Joined(s))
  BY TakingsAreKept
<1>4. Rounding(s) = SumFunctionOnSet(slack, Joined(s))
  BY DEF Rounding, Slack, SumFunction
<1>5. SalesOf(s) = SumFunctionOnSet(sold, PaidOrders(s))
  BY DEF SalesOf, SumFunction
<1>6. \A o \in PaidOrders(s) : /\ g[o] = SumFunctionOnSet(exact, {o} \X RowsOf(o))
                               /\ sold[o] = orders[o].total
  OBVIOUS
<1>7. \A r \in Joined(s) : kept[r] \in Int /\ slack[r] \in Int
  BY <1>2, JoinedRow
<1>8. SumFunctionOnSet(both, Joined(s))
        = SumFunctionOnSet(kept, Joined(s)) + SumFunctionOnSet(slack, Joined(s))
  <2> HIDE DEF kept, slack
  <2>1. QED
    BY <1>1, <1>7, SumOfBoth
<1> HIDE DEF exact, kept, slack, both, g, sold
<1>9. \A r \in Joined(s) : exact[r] \in Int /\ both[r] \in Int /\ exact[r] <= both[r]
  BY <1>2, <1>7, JoinedRow
<1>10. SumFunctionOnSet(exact, Joined(s)) <= SumFunctionOnSet(both, Joined(s))
  BY <1>1, <1>9, SumGrows
<1>11. SumFunctionOnSet(exact, Joined(s)) = SumFunctionOnSet(g, PaidOrders(s))
  BY <1>6, <1>9, SumByOrder
<1>12. ASSUME NEW o \in PaidOrders(s)
       PROVE  sold[o] \in Int /\ g[o] \in Int /\ sold[o] <= g[o]
  <2>1. \A r \in {o} \X RowsOf(o) : exact[r] \in Int /\ exact[r] = Exact(r)
    BY <1>1, <1>2, <1>9
  <2>2. g[o] >= orders[o].total
    BY <1>6, <2>1, RowsCover
  <2>3. IsFiniteSet({o} \X RowsOf(o))
    BY <1>1, FS_Singleton, FS_Product
  <2>4. g[o] \in Int
    BY <1>6, <2>1, <2>3, SumTakesOut
  <2>5. QED
    BY <1>1, <1>6, <2>2, <2>4
<1>13. SumFunctionOnSet(sold, PaidOrders(s)) <= SumFunctionOnSet(g, PaidOrders(s))
  BY <1>1, <1>12, SumGrows
<1>14. /\ SumFunctionOnSet(sold, PaidOrders(s)) \in Int
       /\ SumFunctionOnSet(g, PaidOrders(s)) \in Int
  BY <1>1, <1>12, SumTakesOut
<1>15. SumFunctionOnSet(both, Joined(s)) \in Int
  BY <1>1, <1>9, SumTakesOut
<1>16. QED
  BY <1>3, <1>4, <1>5, <1>8, <1>10, <1>11, <1>13, <1>14, <1>15

\* A void row names the shift of its order.
LEMMA VoidsCounted == IInv => VoidCountsAgree
<1> SUFFICES ASSUME IInv, NEW s
             PROVE  {r \in VoidRows : voidLogs[r[1]][r[2]].shift = s}
                      = {r \in VoidRows : r[1] \in DOMAIN orders /\ orders[r[1]].shift = s}
  BY DEF VoidCountsAgree, VoidCount
<1>1. ASSUME NEW r \in VoidRows
      PROVE  r[1] \in DOMAIN orders /\ voidLogs[r[1]][r[2]].shift = orders[r[1]].shift
  <2>1. PICK o \in Orders : \E i \in DOMAIN voidLogs[o] : r = <<o, i>>
    BY DEF VoidRows
  <2>2. PICK i \in DOMAIN voidLogs[o] : r = <<o, i>>
    BY <2>1
  <2>3. o \in DOMAIN orders
    <3>1. voidLogs[o] # <<>>
      OBVIOUS
    <3>2. QED
      BY <3>1 DEF IInv, NoOrphans
  <2>4. QED
    BY <2>2, <2>3 DEF IInv, VoidIsAttributed
<1>2. QED
  BY <1>1

\* There are finitely many orders, since one is inserted at a time.
Finite == IsFiniteSet(DOMAIN orders)

\* So it is in every reachable state.
LEMMA FinitelyMany == Spec => []Finite
<1>1. Init => Finite
  BY FS_EmptySet DEF Init, Finite
<1>2. ASSUME Finite, [Next]_vars
      PROVE  Finite'
  <2>1. \/ DOMAIN orders' = DOMAIN orders
        \/ \E o \in Orders : DOMAIN orders' = DOMAIN orders \cup {o}
    BY <1>2 DEF Next, vars, tables, CreateOrderRead, CreateOrderInsert, PayRead, PayRate,
       PayCommit, VoidRead, VoidCommit, RefundRead, RefundCommit, OpenShiftRead,
       OpenShiftInsert, Abort, CloseShift, SetRate, SetStatus
  <2>2. QED
    BY <1>2, <2>1, FS_AddElement DEF Finite
<1>3. QED
  BY <1>1, <1>2, PTL DEF Spec
----------------------------------------------------------------------------
\* What the takings by method lack of the sales of a shift is no more than was paid
\* by methods without a figure and half a cent a row, unless a paid order's total is
\* below 0: every payment that left rows covers its order, however requests overlap.
THEOREM TakingsFigure == Spec => []TakingsCoverSales
<1>1. IInv /\ Finite => TakingsCoverSales
  BY TakingsCounted DEF IInv, Finite, TakingsCoverSales
<1>2. QED
  BY <1>1, Invariance, FinitelyMany, PTL

\* The voids counted by the shift in the log are the voids of that shift's orders.
THEOREM VoidsFigure == Spec => []VoidCountsAgree
<1>1. QED
  BY VoidsCounted, Invariance, PTL
=============================================================================
