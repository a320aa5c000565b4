--------------------------- MODULE SessionProofs ----------------------------
(***************************************************************************)
(* Proofs about Session, for any number of users and of calls under way,   *)
(* any lifetime of the tokens and any number of accidents.                 *)
(***************************************************************************)
EXTENDS Session, TLAPS

\* Points of a call that holds the token it asks to replace, and of one that has
\* been given a new token which nobody has read yet.
Holding == {"check", "revoke", "store"}
Fresh == {"answer", "keep", "granted", "half"}

\* What a slot may hold: screens make calls, the user signs in or out.
Fits(s, c) ==
    /\ c.pc = "idle" => c = Idle
    /\ s \in Requests => c.kind = "api"
    /\ s = Ui /\ c.kind = "api" => c.pc = "idle"
    /\ c.kind = "api" => c.pc \notin {"granted", "half", "last", "clear"}
    /\ c.kind = "login" => c.pc \notin {"idle", "attach", "clear"} /\ c.user \in Users
    /\ c.kind = "logout" => c.pc \in {"sent", "clear"} /\ c.user \in Users
    /\ c.pc \in Holding \cup Fresh \cup {"last"} => c.refresh \in Token
    /\ c.pc \in Fresh \cup {"last"} => c.access = c.refresh

TInv == TypeOK /\ \A s \in Slots : Fits(s, call[s])
----------------------------------------------------------------------------
(* Slots. *)

\* Only one slot changes.
Only(s) == call' = [call EXCEPT ![s] = call'[s]]
Untouched(s) == \A x \in Slots : x # s => call'[x] = call[x]

LEMMA OnlyLeaves ==
  ASSUME TypeOK, NEW s \in Slots, Only(s)
  PROVE  Untouched(s)
  BY DEF TypeOK, Only, Untouched

LEMMA UiIsASlot == Ui \in Slots /\ Requests \subseteq Slots /\ Ui \notin Requests
  BY SessionAssumption DEF Slots

LEMMA TokenShape ==
  /\ None \notin Token
  /\ \A tok \in Token : tok.user \in Users /\ tok.at \in Nat
  /\ \A u \in Users : now \in 0 .. MaxTime => [user |-> u, at |-> now] \in Token
  BY SessionAssumption DEF Token

LEMMA SetSlot ==
  ASSUME TypeOK, NEW s \in Slots, NEW c, Set(s, c)
  PROVE  call'[s] = c /\ Only(s) /\ Untouched(s)
  BY DEF TypeOK, Set, Only, Untouched

LEMMA GoSlot ==
  ASSUME TypeOK, NEW s \in Slots, NEW pc \in Points, Go(s, pc)
  PROVE  /\ call'[s] \in Call /\ call'[s].pc = pc /\ call'[s].kind = call[s].kind
         /\ call'[s].user = call[s].user /\ call'[s].access = call[s].access
         /\ call'[s].refresh = call[s].refresh
         /\ Only(s) /\ Untouched(s)
  <1>1. call[s] \in Call
    BY DEF TypeOK
  <1>2. call'[s] = [call[s] EXCEPT !.pc = pc] /\ Only(s) /\ Untouched(s)
    BY DEF TypeOK, Go, Only, Untouched
  <1> QED
    BY <1>1, <1>2 DEF Call

LEMMA EndSlot ==
  ASSUME TypeOK, NEW s \in Slots, End(s)
  PROVE  call'[s] = Idle /\ Only(s) /\ Untouched(s)
  BY DEF TypeOK, End, Only, Untouched

LEMMA IdleFits ==
  ASSUME NEW s \in Slots
  PROVE  Idle \in Call /\ Fits(s, Idle)
  BY DEF Idle, Call, Points, Fits, Holding, Fresh

LEMMA Noticed ==
  ASSUME TypeOK, NEW new \in SUBSET Mishaps, Note(new)
  PROVE  mishap' \subseteq Mishaps /\ mishap \subseteq mishap' /\ new \subseteq mishap'
  BY DEF TypeOK, Note

LEMMA NotedIn ==
  ASSUME NEW m \in Mishaps, NEW b \in BOOLEAN
  PROVE  Noted(m, b) \in SUBSET Mishaps /\ (b => m \in Noted(m, b))
  BY DEF Noted
----------------------------------------------------------------------------
(* Every state is well-formed. *)

LEMMA InitTyped == Init => TInv
  BY IdleFits, SessionAssumption DEF Init, TInv, TypeOK, Stored, Cleared

\* A slot that is filled well makes a state well-formed.
LEMMA Filled ==
  ASSUME TInv, NEW s \in Slots, call'[s] \in Call, Fits(s, call'[s]), Only(s),
         now' \in 0 .. MaxTime, rows' \subseteq Token, store' \in Stored,
         shown' \in Users \cup {None}, handed' \subseteq Token, mishap' \subseteq Mishaps
  PROVE  TInv'
  <1>1. call' \in [Slots -> Call]
    BY DEF TInv, TypeOK, Only
  <1>2. \A x \in Slots : Fits(x, call'[x])
    BY OnlyLeaves DEF TInv, Untouched
  <1> QED
    BY <1>1, <1>2 DEF TInv, TypeOK

LEMMA AskTyped ==
  ASSUME TInv, NEW r \in Requests, Ask(r)
  PROVE  /\ call'[r].pc = "attach" /\ call'[r].kind = "api" /\ call'[r].user = shown
         /\ call'[r].refresh = None /\ call'[r].access = None
         /\ Untouched(r) /\ mishap \subseteq mishap' /\ (Busy(Ui) => "overlap" \in mishap')
         /\ TInv'
  <1> USE DEF TInv
  <1>0. r \in Slots /\ r # Ui
    BY UiIsASlot
  <1> DEFINE c == [Idle EXCEPT !.pc = "attach", !.user = shown]
  <1>1. c \in Call /\ c.pc = "attach" /\ c.kind = "api" /\ c.user = shown
        /\ c.refresh = None /\ c.access = None
    BY DEF TypeOK, Call, Idle, Points
  <1>2. Fits(r, c)
    BY <1>0, <1>1 DEF Fits, Holding, Fresh
  <1>3. call'[r] = c /\ Only(r) /\ Untouched(r)
    BY <1>0, SetSlot DEF Ask
  <1> HIDE DEF c
  <1>4. Noted("overlap", Busy(Ui)) \in SUBSET Mishaps
        /\ (Busy(Ui) => "overlap" \in Noted("overlap", Busy(Ui)))
    BY NotedIn DEF Busy, Mishaps
  <1>5. mishap' \subseteq Mishaps /\ mishap \subseteq mishap'
        /\ (Busy(Ui) => "overlap" \in mishap')
    BY <1>4, Noticed DEF Ask
  <1>6. TInv'
    BY <1>0, <1>1, <1>2, <1>3, <1>5, Filled DEF Ask, TypeOK
  <1> QED
    BY <1>1, <1>3, <1>5, <1>6

\* A call that goes on with what it holds.
LEMMA GoTyped ==
  ASSUME TInv, NEW s \in Slots, NEW pc \in Points, Go(s, pc),
         call[s].pc # "idle", pc # "idle",
         call[s].kind = "api" => pc \notin {"granted", "half", "last", "clear"},
         call[s].kind = "login" => pc \notin {"idle", "attach", "clear"},
         call[s].kind = "logout" => pc \in {"sent", "clear"},
         pc \in Holding \cup Fresh \cup {"last"} => call[s].pc \in Holding \cup Fresh \cup {"last"},
         pc \in Fresh \cup {"last"} => call[s].pc \in Fresh \cup {"last"}
  PROVE  call'[s] \in Call /\ Fits(s, call'[s]) /\ Only(s)
  <1>1. call'[s] \in Call /\ Only(s)
        /\ call'[s].pc = pc /\ call'[s].kind = call[s].kind
        /\ call'[s].user = call[s].user /\ call'[s].access = call[s].access
        /\ call'[s].refresh = call[s].refresh
    BY GoSlot DEF TInv
  <1>2. Fits(s, call[s])
    BY DEF TInv
  <1> QED
    BY <1>1, <1>2 DEF Fits

LEMMA AttachTyped ==
  ASSUME TInv, NEW r \in Requests, Attach(r)
  PROVE  /\ call'[r].pc = "sent" /\ call'[r].kind = "api" /\ call'[r].refresh = call[r].refresh
         /\ call'[r].access \in {store.access, call[r].access}
         /\ call'[r].user = call[r].user
         /\ Untouched(r) /\ TInv'
  <1> USE DEF TInv
  <1>0. r \in Slots /\ r # Ui
    BY UiIsASlot
  <1> DEFINE tok == IF store.access = None THEN call[r].access ELSE store.access
             c == [call[r] EXCEPT !.pc = "sent", !.access = tok]
  <1>1. /\ call[r] \in Call /\ call[r].kind = "api"
        /\ tok \in Token \cup {None} /\ tok \in {store.access, call[r].access}
    BY <1>0 DEF TypeOK, Stored, Fits, Call
  <1>2. /\ c \in Call /\ c.pc = "sent" /\ c.kind = "api" /\ c.user = call[r].user
        /\ c.refresh = call[r].refresh /\ c.access \in {store.access, call[r].access}
    BY <1>1 DEF Call, Points
  <1>3. call'[r] = c /\ Only(r) /\ Untouched(r)
    BY <1>0, SetSlot DEF Attach
  <1> HIDE DEF c
  <1>4. Fits(r, c)
    BY <1>0, <1>2 DEF Fits, Holding, Fresh
  <1>5. TInv'
    BY <1>0, <1>2, <1>3, <1>4, Filled DEF Attach, TypeOK
  <1> QED
    BY <1>2, <1>3, <1>5

LEMMA EndTyped ==
  ASSUME TInv, NEW s \in Slots, End(s),
         rows' \subseteq Token, store' \in Stored, shown' \in Users \cup {None},
         mishap' \subseteq Mishaps, UNCHANGED <<now, handed>>
  PROVE  call'[s] = Idle /\ Untouched(s) /\ TInv'
  <1>1. call'[s] = Idle /\ Only(s) /\ Untouched(s)
    BY EndSlot DEF TInv
  <1> QED
    BY <1>1, IdleFits, Filled DEF TInv, TypeOK

LEMMA DenyTyped ==
  ASSUME TInv, NEW s \in Slots, Deny(s) \/ (s = Ui /\ WrongPin)
  PROVE  /\ call'[s].pc = "denied" /\ call'[s].kind = call[s].kind
         /\ call[s].kind \in {"api", "login"} /\ call[s].pc = "sent"
         /\ call'[s].user = call[s].user /\ call'[s].access = call[s].access
         /\ call'[s].refresh = call[s].refresh
         /\ Untouched(s) /\ TInv'
  <1>1. Go(s, "denied") /\ call[s].kind \in {"api", "login"} /\ call[s].pc = "sent"
    BY DEF Deny, WrongPin, At
  <1>2. call'[s] \in Call /\ Fits(s, call'[s]) /\ Only(s)
    BY <1>1, GoTyped DEF Points, Holding, Fresh
  <1>3. TInv'
    BY <1>2, Filled DEF Deny, WrongPin, TInv, TypeOK
  <1> QED
    BY <1>1, <1>3, GoSlot DEF Points, TInv

LEMMA ReadRefreshTyped ==
  ASSUME TInv, NEW s \in Slots, ReadRefresh(s)
  PROVE  /\ \/ store.refresh = None /\ call'[s] = Idle
            \/ /\ store.refresh \in Token /\ call'[s].refresh = store.refresh
               /\ call'[s].pc = "check" /\ call'[s].kind = call[s].kind
               /\ call'[s].user = call[s].user /\ call'[s].access = call[s].access
         /\ call[s].pc = "denied" /\ Untouched(s) /\ TInv'
  <1> USE DEF TInv
  <1>1. CASE store.refresh = None
    BY <1>1, EndTyped DEF ReadRefresh, TypeOK, At
  <1>2. CASE store.refresh # None
    <2> DEFINE c == [call[s] EXCEPT !.pc = "check", !.refresh = store.refresh]
    <2>1. call[s] \in Call /\ store.refresh \in Token /\ call[s].pc = "denied" /\ Fits(s, call[s])
      BY <1>2 DEF TypeOK, Stored, ReadRefresh, At
    <2>2. /\ c \in Call /\ c.pc = "check" /\ c.kind = call[s].kind /\ c.user = call[s].user
          /\ c.refresh = store.refresh /\ c.access = call[s].access
      BY <2>1 DEF Call, Points
    <2>3. call'[s] = c /\ Only(s) /\ Untouched(s)
      BY <1>2, SetSlot DEF ReadRefresh
    <2> HIDE DEF c
    <2>4. Fits(s, c)
      BY <2>1, <2>2 DEF Fits, Holding, Fresh
    <2>5. TInv'
      BY <2>2, <2>3, <2>4, Filled DEF ReadRefresh, TypeOK
    <2> QED
      BY <2>1, <2>2, <2>3, <2>5
  <1> QED
    BY <1>1, <1>2

LEMMA KeepAccessTyped ==
  ASSUME TInv, NEW s \in Slots, KeepAccess(s)
  PROVE  /\ call[s].pc = "answer" /\ call'[s].pc = "keep" /\ call'[s].kind = call[s].kind
         /\ call'[s].user = call[s].user /\ call'[s].access = call[s].access
         /\ call'[s].refresh = call[s].refresh
         /\ call[s].access \in Token /\ call[s].access = call[s].refresh
         /\ store'.access = call[s].access /\ store'.refresh = store.refresh
         /\ store'.data = store.data
         /\ Untouched(s) /\ TInv'
  <1>1. Go(s, "keep") /\ call[s].pc = "answer" /\ Fits(s, call[s])
    BY DEF KeepAccess, At, TInv
  <1>2. call'[s] \in Call /\ Fits(s, call'[s]) /\ Only(s)
    BY <1>1, GoTyped DEF Points, Holding, Fresh, Fits
  <1>3. call[s].access \in Token /\ call[s].access = call[s].refresh
    BY <1>1 DEF Fits, Fresh
  <1>4. /\ store' \in Stored
        /\ store'.access = call[s].access /\ store'.refresh = store.refresh
        /\ store'.data = store.data
    BY <1>3 DEF KeepAccess, TInv, TypeOK, Stored
  <1>5. TInv'
    BY <1>2, <1>4, Filled DEF KeepAccess, TInv, TypeOK
  <1> QED
    BY <1>1, <1>3, <1>4, <1>5, GoSlot DEF Points, TInv

LEMMA KeepRefreshTyped ==
  ASSUME TInv, NEW s \in Slots, KeepRefresh(s)
  PROVE  /\ call[s].pc = "keep" /\ call'[s].kind = call[s].kind
         /\ \/ call[s].kind = "login" /\ call'[s].pc = "sent"
            \/ call[s].kind = "api" /\ call'[s].pc = "attach"
         /\ call'[s].user = call[s].user /\ call'[s].access = call[s].access
         /\ call'[s].refresh = call[s].refresh
         /\ call[s].refresh \in Token
         /\ store'.refresh = call[s].refresh /\ store'.access = store.access
         /\ store'.data = store.data
         /\ Untouched(s) /\ TInv'
  <1>1. call[s].pc = "keep" /\ Fits(s, call[s]) /\ call[s] \in Call
    BY DEF KeepRefresh, At, TInv, TypeOK
  <1>2. PICK pc \in {"sent", "attach"} :
           /\ Go(s, pc)
           /\ \/ call[s].kind = "login" /\ pc = "sent"
              \/ call[s].kind = "api" /\ pc = "attach"
    BY <1>1 DEF KeepRefresh, Fits, Call
  <1>3. call'[s] \in Call /\ Fits(s, call'[s]) /\ Only(s)
    BY <1>1, <1>2, GoTyped DEF Points, Holding, Fresh
  <1>4. call[s].refresh \in Token
    BY <1>1 DEF Fits, Fresh
  <1>5. /\ store' \in Stored
        /\ store'.refresh = call[s].refresh /\ store'.access = store.access
        /\ store'.data = store.data
    BY <1>4 DEF KeepRefresh, WriteRefresh, TInv, TypeOK, Stored
  <1>6. TInv'
    BY <1>3, <1>5, Filled DEF KeepRefresh, TInv, TypeOK
  <1> QED
    BY <1>1, <1>2, <1>4, <1>5, <1>6, GoSlot DEF Points, TInv

LEMMA CheckTyped ==
  ASSUME TInv, NEW s \in Slots, Check(s)
  PROVE  /\ call[s].pc = "check" /\ call[s].refresh \in Token
         /\ \/ call'[s] = Idle
            \/ /\ call'[s].pc = "revoke" /\ call'[s].kind = call[s].kind
               /\ call'[s].user = call[s].user /\ call'[s].access = call[s].access
               /\ call'[s].refresh = call[s].refresh
               /\ call[s].refresh \in rows
               /\ LetIn(call[s].refresh) # {} => "twins" \in mishap'
         /\ mishap \subseteq mishap'
         /\ Untouched(s) /\ TInv'
  <1> USE DEF TInv
  <1>0. call[s].pc = "check" /\ call[s].refresh \in Token /\ Fits(s, call[s])
    BY DEF Check, At, Fits, Holding
  <1>1. CASE Valid(call[s].refresh)
    <2>1. Go(s, "revoke") /\ Note(Noted("twins", LetIn(call[s].refresh) # {}))
      BY <1>1 DEF Check
    <2>2. call'[s] \in Call /\ Fits(s, call'[s]) /\ Only(s)
      BY <1>0, <2>1, GoTyped DEF Points, Holding, Fresh, Fits
    <2> DEFINE new == Noted("twins", LetIn(call[s].refresh) # {})
    <2>3. new \in SUBSET Mishaps /\ (LetIn(call[s].refresh) # {} => "twins" \in new)
      BY NotedIn DEF Mishaps
    <2>4. mishap' \subseteq Mishaps /\ mishap \subseteq mishap' /\ new \subseteq mishap'
      BY <2>1, <2>3, Noticed
    <2>5. TInv'
      BY <2>2, <2>4, Filled DEF Check, TypeOK
    <2> QED
      BY <1>0, <1>1, <2>1, <2>3, <2>4, <2>5, GoSlot DEF Points, Valid
  <1>2. CASE ~Valid(call[s].refresh)
    BY <1>0, <1>2, EndTyped DEF Check, TypeOK
  <1> QED
    BY <1>1, <1>2

\* A token that is deleted, or should have been.
LEMMA DeleteTyped ==
  ASSUME TInv, NEW tok,
         (Delete(tok) /\ UNCHANGED mishap) \/ (UNCHANGED rows /\ Note({"fault"}))
  PROVE  /\ rows' = rows \ {tok} \/ (rows' = rows /\ "fault" \in mishap')
         /\ mishap \subseteq mishap' /\ mishap' \subseteq Mishaps /\ rows' \subseteq Token
  BY Noticed DEF Delete, Mishaps, TInv, TypeOK

LEMMA RevokeTyped ==
  ASSUME TInv, NEW s \in Slots, Revoke(s)
  PROVE  /\ call[s].pc = "revoke" /\ call'[s].pc = "store" /\ call'[s].kind = call[s].kind
         /\ call'[s].user = call[s].user /\ call'[s].access = call[s].access
         /\ call'[s].refresh = call[s].refresh
         /\ rows' = rows \ {call[s].refresh} \/ (rows' = rows /\ "fault" \in mishap')
         /\ mishap \subseteq mishap'
         /\ Untouched(s) /\ TInv'
  <1>1. Go(s, "store") /\ call[s].pc = "revoke" /\ Fits(s, call[s])
    BY DEF Revoke, At, TInv
  <1>2. call'[s] \in Call /\ Fits(s, call'[s]) /\ Only(s)
    BY <1>1, GoTyped DEF Points, Holding, Fresh, Fits
  <1>3. /\ rows' = rows \ {call[s].refresh} \/ (rows' = rows /\ "fault" \in mishap')
        /\ mishap \subseteq mishap' /\ mishap' \subseteq Mishaps /\ rows' \subseteq Token
    BY DeleteTyped DEF Revoke
  <1>4. TInv'
    BY <1>2, <1>3, Filled DEF Revoke, TInv, TypeOK
  <1> QED
    BY <1>1, <1>3, <1>4, GoSlot DEF Points, TInv

LEMMA IssueTyped ==
  ASSUME TInv, NEW s \in Slots, NEW u \in Users, NEW pc \in {"answer", "granted"},
         Issue(s, u, pc), call[s].pc # "idle", call[s].kind \in {"api", "login"},
         pc = "granted" => call[s].kind = "login",
         UNCHANGED <<now, store, shown>>
  PROVE  \E tok \in Token :
            /\ tok.user = u /\ handed' = handed \cup {tok}
            /\ call'[s].pc = pc /\ call'[s].kind = call[s].kind
            /\ call'[s].user = call[s].user
            /\ call'[s].access = tok /\ call'[s].refresh = tok
            /\ rows \subseteq rows' /\ rows' \subseteq rows \cup {tok}
            /\ tok \in rows' \/ "fault" \in mishap'
            /\ tok \in handed => "twins" \in mishap'
            /\ mishap \subseteq mishap'
            /\ Untouched(s) /\ TInv'
  <1> USE DEF TInv
  <1> DEFINE tok == [user |-> u, at |-> now]
             c == [call[s] EXCEPT !.pc = pc, !.access = tok, !.refresh = tok]
  <1>1. tok \in Token /\ tok.user = u
    BY TokenShape DEF TypeOK
  <1>2. handed' = handed \cup {tok} /\ Set(s, c)
    BY DEF Issue
  <1>3. /\ rows \subseteq rows' /\ rows' \subseteq rows \cup {tok} /\ rows' \subseteq Token
        /\ tok \in rows' \/ "fault" \in mishap'
        /\ tok \in handed => "twins" \in mishap'
        /\ mishap \subseteq mishap' /\ mishap' \subseteq Mishaps
    <2> DEFINE new == Noted("twins", tok \in handed)
    <2>1. \/ rows' = rows \cup {tok} /\ Note(new)
          \/ UNCHANGED rows /\ Note(new \cup {"fault"})
      BY DEF Issue
    <2> HIDE DEF tok
    <2>2. new \in SUBSET Mishaps /\ (tok \in handed => "twins" \in new)
      BY DEF Noted, Mishaps
    <2>3. new \cup {"fault"} \in SUBSET Mishaps
      BY <2>2 DEF Mishaps
    <2> HIDE DEF new
    <2>4. /\ rows \subseteq rows' /\ rows' \subseteq rows \cup {tok}
          /\ rows' \subseteq Token
      BY <1>1, <2>1 DEF TypeOK
    <2>5. CASE rows' = rows \cup {tok} /\ Note(new)
      BY <2>2, <2>5, <2>4, Noticed
    <2>6. CASE UNCHANGED rows /\ Note(new \cup {"fault"})
      BY <2>2, <2>3, <2>6, <2>4, Noticed
    <2> QED
      BY <2>1, <2>5, <2>6
  <1> HIDE DEF tok
  <1>4. call[s] \in Call /\ Fits(s, call[s])
    BY DEF TypeOK
  <1>5. /\ c \in Call /\ c.pc = pc /\ c.kind = call[s].kind /\ c.user = call[s].user
        /\ c.refresh = tok /\ c.access = tok
    BY <1>1, <1>4 DEF Call, Points
  <1>6. call'[s] = c /\ Only(s) /\ Untouched(s)
    BY <1>2, SetSlot
  <1> HIDE DEF c
  <1>7. Fits(s, c)
    BY <1>1, <1>4, <1>5 DEF Fits, Holding, Fresh
  <1>8. handed' \subseteq Token
    BY <1>1, <1>2 DEF TypeOK
  <1>9. TInv'
    BY <1>3, <1>5, <1>6, <1>7, <1>8, Filled DEF TypeOK
  <1> QED
    BY <1>1, <1>2, <1>3, <1>5, <1>6, <1>9

LEMMA StoreNewTyped ==
  ASSUME TInv, NEW s \in Slots, StoreNew(s)
  PROVE  /\ call[s].pc = "store" /\ call[s].refresh \in Token
         /\ \E tok \in Token :
               /\ tok.user = call[s].refresh.user /\ handed' = handed \cup {tok}
               /\ call'[s].pc = "answer" /\ call'[s].kind = call[s].kind
               /\ call'[s].user = call[s].user
               /\ call'[s].access = tok /\ call'[s].refresh = tok
               /\ rows \subseteq rows' /\ rows' \subseteq rows \cup {tok}
               /\ tok \in rows' \/ "fault" \in mishap'
               /\ tok \in handed => "twins" \in mishap'
         /\ mishap \subseteq mishap'
         /\ Untouched(s) /\ TInv'
  <1>1. call[s].pc = "store" /\ Fits(s, call[s]) /\ call[s] \in Call
    BY DEF StoreNew, At, TInv, TypeOK
  <1>2. call[s].refresh \in Token /\ call[s].kind \in {"api", "login"}
    BY <1>1 DEF Fits, Holding, Call
  <1>3. call[s].refresh.user \in Users
    BY <1>2, TokenShape
  <1>4. Issue(s, call[s].refresh.user, "answer") /\ UNCHANGED <<now, store, shown>>
    BY DEF StoreNew
  <1> QED
    BY <1>1, <1>2, <1>3, <1>4, IssueTyped

LEMMA GrantTyped ==
  ASSUME TInv, Grant
  PROVE  /\ call[Ui].pc = "sent" /\ call[Ui].kind = "login"
         /\ \E tok \in Token :
               /\ tok.user = call[Ui].user /\ handed' = handed \cup {tok}
               /\ call'[Ui].pc = "granted" /\ call'[Ui].kind = "login"
               /\ call'[Ui].user = call[Ui].user
               /\ call'[Ui].access = tok /\ call'[Ui].refresh = tok
               /\ rows \subseteq rows' /\ rows' \subseteq rows \cup {tok}
               /\ tok \in rows' \/ "fault" \in mishap'
               /\ tok \in handed => "twins" \in mishap'
         /\ mishap \subseteq mishap'
         /\ Untouched(Ui) /\ TInv'
  <1>1. call[Ui].pc = "sent" /\ call[Ui].kind = "login" /\ call[Ui].user \in Users
    BY UiIsASlot DEF Grant, At, TInv, Fits
  <1>2. Issue(Ui, call[Ui].user, "granted") /\ UNCHANGED <<now, store, shown>>
    BY DEF Grant
  <1> QED
    BY <1>1, <1>2, UiIsASlot, IssueTyped

\* The first step of a sign-in or sign-out.
LEMMA StartTyped ==
  ASSUME TInv, NEW c \in Call, Fits(Ui, c), Set(Ui, c), Note(Noted("overlap", Others)),
         UNCHANGED <<now, rows, store, shown, handed>>
  PROVE  /\ call'[Ui] = c
         /\ mishap \subseteq mishap' /\ (Others => "overlap" \in mishap')
         /\ Untouched(Ui) /\ TInv'
  <1> USE DEF TInv
  <1>1. call'[Ui] = c /\ Only(Ui) /\ Untouched(Ui)
    BY UiIsASlot, SetSlot
  <1>2. Noted("overlap", Others) \in SUBSET Mishaps
        /\ (Others => "overlap" \in Noted("overlap", Others))
    BY DEF Noted, Mishaps
  <1>3. mishap' \subseteq Mishaps /\ mishap \subseteq mishap' /\ (Others => "overlap" \in mishap')
    BY <1>2, Noticed
  <1>4. TInv'
    BY <1>1, <1>3, UiIsASlot, Filled DEF TypeOK
  <1> QED
    BY <1>1, <1>3, <1>4

LEMMA LoginTyped ==
  ASSUME TInv, NEW u \in Users, Login(u)
  PROVE  /\ call'[Ui].pc = "sent" /\ call'[Ui].kind = "login" /\ call'[Ui].user = u
         /\ call'[Ui].access = None /\ call'[Ui].refresh = None
         /\ mishap \subseteq mishap' /\ (Others => "overlap" \in mishap')
         /\ Untouched(Ui) /\ TInv'
  <1>1. PICK c : c = [Idle EXCEPT !.kind = "login", !.pc = "sent", !.user = u]
    OBVIOUS
  <1>2. /\ c \in Call /\ c.pc = "sent" /\ c.kind = "login" /\ c.user = u
        /\ c.access = None /\ c.refresh = None
    BY <1>1 DEF Idle, Call, Points
  <1>3. Fits(Ui, c)
    BY <1>2, UiIsASlot DEF Fits, Holding, Fresh
  <1>4. Set(Ui, c) /\ Note(Noted("overlap", Others))
        /\ UNCHANGED <<now, rows, store, shown, handed>>
    BY <1>1 DEF Login
  <1> QED
    BY <1>2, <1>3, <1>4, StartTyped

LEMMA LogoutTyped ==
  ASSUME TInv, Logout
  PROVE  /\ \/ store.refresh = None /\ call'[Ui].pc = "clear"
            \/ store.refresh \in Token /\ call'[Ui].pc = "sent"
         /\ call'[Ui].kind = "logout" /\ call'[Ui].user = shown
         /\ call'[Ui].access = None /\ call'[Ui].refresh = store.refresh
         /\ mishap \subseteq mishap' /\ (Others => "overlap" \in mishap')
         /\ Untouched(Ui) /\ TInv'
  <1>1. PICK pc : pc = IF store.refresh = None THEN "clear" ELSE "sent"
    OBVIOUS
  <1>2. PICK c : c = [Idle EXCEPT !.kind = "logout", !.user = shown,
                                  !.refresh = store.refresh, !.pc = pc]
    OBVIOUS
  <1>3. shown \in Users /\ store.refresh \in Token \cup {None}
    BY DEF Logout, TInv, TypeOK, Stored
  <1>4. /\ c \in Call /\ c.pc = pc /\ c.kind = "logout" /\ c.user = shown
        /\ c.access = None /\ c.refresh = store.refresh
    BY <1>1, <1>2, <1>3 DEF Idle, Call, Points
  <1>5. Fits(Ui, c)
    BY <1>1, <1>3, <1>4, UiIsASlot DEF Fits, Holding, Fresh
  <1>6. Set(Ui, c) /\ Note(Noted("overlap", Others))
        /\ UNCHANGED <<now, rows, store, shown, handed>>
    BY <1>1, <1>2 DEF Logout
  <1> QED
    BY <1>1, <1>3, <1>4, <1>5, <1>6, StartTyped

\* The three writes of a login.
LEMMA SignInTyped ==
  ASSUME TInv, SignIn
  PROVE  /\ Untouched(Ui) /\ TInv'
         /\ call[Ui].kind = "login" /\ call[Ui].user \in Users
         /\ call[Ui].refresh \in Token /\ call[Ui].access = call[Ui].refresh
         /\ \/ /\ call[Ui].pc \in {"granted", "half"}
               /\ \/ /\ call[Ui].pc = "granted" /\ call'[Ui].pc = "half"
                     /\ store'.access = call[Ui].access
                     /\ store'.refresh = store.refresh /\ store'.data = store.data
                  \/ /\ call[Ui].pc = "half" /\ call'[Ui].pc = "last"
                     /\ store'.access = store.access
                     /\ store'.refresh = call[Ui].refresh /\ store'.data = store.data
               /\ call'[Ui].kind = "login" /\ call'[Ui].user = call[Ui].user
               /\ call'[Ui].access = call[Ui].access /\ call'[Ui].refresh = call[Ui].refresh
               /\ shown' = shown
            \/ /\ call[Ui].pc = "last" /\ call'[Ui] = Idle
               /\ store'.access = store.access /\ store'.refresh = store.refresh
               /\ store'.data = call[Ui].user /\ shown' = call[Ui].user
  <1> USE DEF TInv
  <1>1. Ui \in Slots /\ call[Ui] \in Call /\ Fits(Ui, call[Ui])
    BY UiIsASlot DEF TypeOK
  <1>2. call[Ui].pc \in {"granted", "half", "last"}
    BY DEF SignIn, At
  <1>3. call[Ui].kind = "login" /\ call[Ui].user \in Users
        /\ call[Ui].refresh \in Token /\ call[Ui].access = call[Ui].refresh
    BY <1>1, <1>2 DEF Fits, Call, Fresh
  <1>4. CASE /\ At(Ui, "granted")
             /\ store' = [store EXCEPT !.access = call[Ui].access]
             /\ Go(Ui, "half")
             /\ UNCHANGED <<now, rows, shown, handed, mishap>>
    <2>1. call'[Ui] \in Call /\ Fits(Ui, call'[Ui]) /\ Only(Ui)
      BY <1>1, <1>3, <1>4, GoTyped DEF At, Points, Holding, Fresh
    <2>2. store' \in Stored /\ store'.access = call[Ui].access
          /\ store'.refresh = store.refresh /\ store'.data = store.data
      BY <1>3, <1>4 DEF TypeOK, Stored
    <2>3. TInv'
      BY <1>1, <1>4, <2>1, <2>2, Filled DEF TypeOK
    <2> QED
      BY <1>1, <1>3, <1>4, <2>2, <2>3, GoSlot DEF At, Points
  <1>5. CASE /\ At(Ui, "half")
             /\ store' = [store EXCEPT !.refresh = call[Ui].refresh]
             /\ Go(Ui, "last")
             /\ UNCHANGED <<now, rows, shown, handed, mishap>>
    <2>1. call'[Ui] \in Call /\ Fits(Ui, call'[Ui]) /\ Only(Ui)
      BY <1>1, <1>3, <1>5, GoTyped DEF At, Points, Holding, Fresh
    <2>2. store' \in Stored /\ store'.access = store.access
          /\ store'.refresh = call[Ui].refresh /\ store'.data = store.data
      BY <1>3, <1>5 DEF TypeOK, Stored
    <2>3. TInv'
      BY <1>1, <1>5, <2>1, <2>2, Filled DEF TypeOK
    <2> QED
      BY <1>1, <1>3, <1>5, <2>2, <2>3, GoSlot DEF At, Points
  <1>6. CASE /\ At(Ui, "last")
             /\ store' = [store EXCEPT !.data = call[Ui].user]
             /\ shown' = call[Ui].user
             /\ End(Ui)
             /\ UNCHANGED <<now, rows, handed, mishap>>
    <2>1. store' \in Stored /\ store'.access = store.access
          /\ store'.refresh = store.refresh /\ store'.data = call[Ui].user
      BY <1>3, <1>6 DEF TypeOK, Stored
    <2>2. call'[Ui] = Idle /\ Untouched(Ui) /\ TInv'
      BY <1>1, <1>3, <1>6, <2>1, EndTyped DEF TypeOK
    <2> QED
      BY <1>3, <1>6, <2>1, <2>2 DEF At
  <1> QED
    BY <1>4, <1>5, <1>6 DEF SignIn

LEMMA LogoutServedTyped ==
  ASSUME TInv, LogoutServed
  PROVE  /\ call[Ui].pc = "sent" /\ call[Ui].kind = "logout"
         /\ call'[Ui].pc = "clear" /\ call'[Ui].kind = "logout"
         /\ call'[Ui].user = call[Ui].user /\ call'[Ui].access = call[Ui].access
         /\ call'[Ui].refresh = call[Ui].refresh
         /\ rows' = rows \ {call[Ui].refresh} \/ (rows' = rows /\ "fault" \in mishap')
         /\ mishap \subseteq mishap'
         /\ Untouched(Ui) /\ TInv'
  <1>1. Ui \in Slots /\ Go(Ui, "clear") /\ call[Ui].pc = "sent" /\ call[Ui].kind = "logout"
    BY UiIsASlot DEF LogoutServed, At
  <1>2. call'[Ui] \in Call /\ Fits(Ui, call'[Ui]) /\ Only(Ui)
    BY <1>1, GoTyped DEF Points, Holding, Fresh
  <1>3. /\ rows' = rows \ {call[Ui].refresh} \/ (rows' = rows /\ "fault" \in mishap')
        /\ mishap \subseteq mishap' /\ mishap' \subseteq Mishaps /\ rows' \subseteq Token
    BY DeleteTyped DEF LogoutServed
  <1>4. TInv'
    BY <1>1, <1>2, <1>3, Filled DEF LogoutServed, TInv, TypeOK
  <1> QED
    BY <1>1, <1>3, <1>4, GoSlot DEF Points, TInv

LEMMA ClearTyped ==
  ASSUME TInv, Clear
  PROVE  /\ call[Ui].pc = "clear" /\ call[Ui].kind = "logout" /\ call'[Ui] = Idle
         /\ store' = Cleared /\ store'.access = None /\ store'.refresh = None
         /\ store'.data = None /\ shown' = None
         /\ Untouched(Ui) /\ TInv'
  <1>1. Ui \in Slots /\ call[Ui] \in Call /\ Fits(Ui, call[Ui]) /\ call[Ui].pc = "clear"
    BY UiIsASlot DEF TInv, TypeOK, Clear, At
  <1>2. call[Ui].kind = "logout"
    BY <1>1 DEF Fits, Call
  <1>3. store' = Cleared /\ store' \in Stored /\ store'.access = None
        /\ store'.refresh = None /\ store'.data = None
    BY DEF Clear, Wipe, Cleared, Stored
  <1> QED
    BY <1>1, <1>2, <1>3, EndTyped DEF Clear, TInv, TypeOK

LEMMA LoseTyped ==
  ASSUME TInv, NEW s \in Slots, Lose(s)
  PROVE  /\ \/ call[s].kind \in {"api", "login"} /\ call'[s] = Idle
            \/ /\ call[s].kind = "logout" /\ call'[s].pc = "clear" /\ call'[s].kind = "logout"
               /\ call'[s].user = call[s].user /\ call'[s].access = call[s].access
               /\ call'[s].refresh = call[s].refresh
               /\ s = Ui
         /\ call[s].pc \in {"sent", "check", "revoke", "store", "answer", "granted"}
         /\ call[s].pc \in {"store", "answer", "granted"} \/ call[s].kind = "logout"
               => "lost" \in mishap'
         /\ mishap \subseteq mishap'
         /\ Untouched(s) /\ TInv'
  <1> USE DEF TInv
  <1>1. /\ call[s] \in Call /\ Fits(s, call[s])
        /\ call[s].pc \in {"sent", "check", "revoke", "store", "answer", "granted"}
    BY DEF TypeOK, Lose
  <1>2. \E new \in SUBSET Mishaps :
           /\ Note(new)
           /\ call[s].pc \in {"store", "answer", "granted"} \/ call[s].kind = "logout"
                 => "lost" \in new
    BY DEF Lose, Noted, Mishaps
  <1>3. /\ mishap' \subseteq Mishaps /\ mishap \subseteq mishap'
        /\ call[s].pc \in {"store", "answer", "granted"} \/ call[s].kind = "logout"
              => "lost" \in mishap'
    BY <1>2, Noticed
  <1>4. CASE call[s].kind = "logout"
    <2>1. Go(s, "clear") /\ call[s].pc = "sent" /\ s = Ui
      BY <1>1, <1>4 DEF Lose, Fits, Slots
    <2>2. call'[s] \in Call /\ Fits(s, call'[s]) /\ Only(s)
      BY <1>4, <2>1, GoTyped DEF Points, Holding, Fresh
    <2>3. TInv'
      BY <1>3, <2>2, Filled DEF Lose, TypeOK
    <2> QED
      BY <1>1, <1>3, <1>4, <2>1, <2>3, GoSlot DEF Points
  <1>5. CASE call[s].kind # "logout"
    <2>1. End(s) /\ call[s].kind \in {"api", "login"}
      BY <1>1, <1>5 DEF Lose, Call
    <2> QED
      BY <1>1, <1>3, <2>1, EndTyped DEF Lose, TypeOK
  <1> QED
    BY <1>4, <1>5

LEMMA RestartTyped ==
  ASSUME TInv, Restart
  PROVE  /\ \A s \in Slots : call'[s] = Idle
         /\ shown' = Restored
         /\ (\E s \in Slots : Busy(s)) => "crash" \in mishap'
         /\ mishap \subseteq mishap'
         /\ TInv'
  <1> USE DEF TInv
  <1>1. \E new \in SUBSET Mishaps :
           Note(new) /\ ((\E s \in Slots : Busy(s)) => "crash" \in new)
    BY DEF Restart, Noted, Mishaps
  <1>2. mishap' \subseteq Mishaps /\ mishap \subseteq mishap'
        /\ ((\E s \in Slots : Busy(s)) => "crash" \in mishap')
    BY <1>1, Noticed
  <1>3. \A s \in Slots : call'[s] = Idle
    BY DEF Restart
  <1>4. shown' \in Users \cup {None}
    BY DEF Restart, Restored, TypeOK, Stored
  <1>5. call' \in [Slots -> Call]
    BY IdleFits DEF Restart
  <1>6. TypeOK'
    BY <1>2, <1>4, <1>5 DEF Restart, TypeOK
  <1> QED
    BY <1>2, <1>3, <1>6, IdleFits DEF Restart

LEMMA AcceptTyped ==
  ASSUME TInv, NEW r \in Slots, Accept(r)
  PROVE  call'[r] = Idle /\ call[r].kind = "api" /\ Untouched(r) /\ TInv'
  BY EndTyped DEF Accept, TInv, TypeOK

LEMMA NextTyped ==
  ASSUME TInv, [Next]_vars
  PROVE  TInv'
  <1>1. ASSUME NEW r \in Requests, Ask(r) \/ Attach(r) \/ Accept(r) \/ Deny(r)
        PROVE  TInv'
    BY <1>1, UiIsASlot, AskTyped, AttachTyped, AcceptTyped, DenyTyped
  <1>2. ASSUME NEW s \in Slots,
               \/ ReadRefresh(s) \/ KeepAccess(s) \/ KeepRefresh(s)
               \/ Check(s) \/ Revoke(s) \/ StoreNew(s) \/ Lose(s)
        PROVE  TInv'
    BY <1>2, ReadRefreshTyped, KeepAccessTyped, KeepRefreshTyped, CheckTyped, RevokeTyped,
       StoreNewTyped, LoseTyped
  <1>3. ASSUME NEW u \in Users, Login(u)
        PROVE  TInv'
    BY <1>3, LoginTyped
  <1>4. CASE Grant \/ WrongPin \/ SignIn \/ Logout \/ LogoutServed \/ Clear \/ Restart
    BY <1>4, UiIsASlot, GrantTyped, DenyTyped, SignInTyped, LogoutTyped, LogoutServedTyped,
       ClearTyped, RestartTyped
  <1>5. CASE Tick
    BY <1>5, SessionAssumption DEF Tick, TInv, TypeOK
  <1>6. CASE UNCHANGED vars
    BY <1>6 DEF vars, TInv, TypeOK
  <1> QED
    BY <1>1, <1>2, <1>3, <1>4, <1>5, <1>6 DEF Next

LEMMA MishapsStay ==
  ASSUME TInv, [Next]_vars
  PROVE  mishap \subseteq mishap'
  BY UiIsASlot DEF Next, vars, Note, Ask, Attach, Accept, Deny, ReadRefresh, KeepAccess,
     KeepRefresh, Check, Revoke, StoreNew, Issue, Lose, Login, Grant, WrongPin, SignIn, Logout,
     LogoutServed, Clear, Restart, Tick

----------------------------------------------------------------------------
(***************************************************************************)
(* One user at a time.  Without an overlap and a crash the tablet is in    *)
(* one of four states, of one user in each but the first, and only in the  *)
(* second do the screens make calls.                                       *)
(***************************************************************************)
Owns(u, tok) == tok # None => tok.user = u
OneUser(u) ==
    /\ Owns(u, store.access) /\ Owns(u, store.refresh)
    /\ \A s \in Slots : Owns(u, call[s].access) /\ Owns(u, call[s].refresh)

Quiet == \A r \in Requests : ~Busy(r)

SignedOut == ~Busy(Ui) /\ Quiet /\ shown = None /\ store = Cleared
SignedIn(u) ==
    ~Busy(Ui) /\ shown = u /\ store.data = u /\ store.access # None /\ OneUser(u)
SigningIn(u) ==
    /\ Quiet /\ call[Ui].kind = "login" /\ call[Ui].user = u /\ shown = None
    /\ call[Ui].pc \in {"sent", "denied", "granted", "half", "last"}
    /\ call[Ui].pc \in {"sent", "denied", "granted"} => store = Cleared
    /\ call[Ui].pc = "half" => store.refresh = None
    /\ call[Ui].pc \in {"half", "last"} => store.access # None
    /\ OneUser(u)
SigningOut(u) ==
    Quiet /\ call[Ui].kind = "logout" /\ call[Ui].user = u /\ shown = u /\ OneUser(u)

InTurn == SignedOut \/ \E u \in Users : SignedIn(u) \/ SigningIn(u) \/ SigningOut(u)
InTurnInv == mishap \cap {"overlap", "crash"} = {} => InTurn

\* The tokens stay one user's when the only slot that changes holds such.
LEMMA StillOneUser ==
  ASSUME NEW u, OneUser(u), NEW s \in Slots, Untouched(s),
         Owns(u, call'[s].access), Owns(u, call'[s].refresh),
         Owns(u, store'.access), Owns(u, store'.refresh)
  PROVE  OneUser(u)'
  BY DEF OneUser, Owns, Untouched

LEMMA NoTokens ==
  /\ Idle.access = None /\ Idle.refresh = None /\ Idle.pc = "idle" /\ Idle.kind = "api"
  /\ Cleared.access = None /\ Cleared.refresh = None /\ Cleared.data = None
  BY DEF Idle, Cleared

\* Only when somebody is signed in, and does not sign out, do the screens call.
LEMMA CallsWhenSignedIn ==
  ASSUME TInv, InTurn, NEW r \in Requests, Busy(r)
  PROVE  \E u \in Users : SignedIn(u)
  BY DEF InTurn, SignedOut, SigningIn, SigningOut, Quiet

LEMMA UiIdle ==
  ASSUME TInv, InTurn, ~Busy(Ui)
  PROVE  \/ shown = None /\ store = Cleared
         \/ \E u \in Users : SignedIn(u)
  BY UiIsASlot DEF InTurn, SignedOut, SigningIn, SigningOut, Busy, At, TInv, Fits

\* A step of a screen's call.
LEMMA StillSignedIn ==
  ASSUME TInv, NEW u \in Users, SignedIn(u), NEW r \in Requests, Untouched(r),
         Owns(u, call'[r].access), Owns(u, call'[r].refresh),
         Owns(u, store'.access), Owns(u, store'.refresh),
         store'.data = store.data, store'.access # None, shown' = shown
  PROVE  InTurn'
  <1>1. OneUser(u)'
    BY UiIsASlot, StillOneUser DEF SignedIn
  <1>2. call'[Ui] = call[Ui]
    BY UiIsASlot DEF Untouched
  <1> QED
    BY <1>1, <1>2 DEF InTurn, SignedIn, Busy, At

LEMMA InitInTurn == Init => InTurnInv
  BY UiIsASlot, NoTokens DEF Init, InTurnInv, InTurn, SignedOut, Busy, At, Quiet

LEMMA RequestInTurn ==
  ASSUME TInv, InTurn, NEW r \in Requests, "overlap" \notin mishap',
         \/ Ask(r) \/ Attach(r) \/ Accept(r) \/ Deny(r) \/ ReadRefresh(r) \/ KeepAccess(r)
         \/ KeepRefresh(r) \/ Check(r) \/ Revoke(r) \/ StoreNew(r) \/ Lose(r)
  PROVE  InTurn'
  <1>0. r \in Slots /\ r # Ui /\ call[r].kind = "api"
    BY UiIsASlot DEF TInv, Fits
  <1>1. \E u \in Users : SignedIn(u)
    <2>1. CASE Ask(r)
      <3>1. ~Busy(Ui) /\ shown # None
        BY <2>1, AskTyped DEF Ask
      <3> QED
        BY <3>1, UiIsASlot
        DEF InTurn, SignedOut, SigningIn, SigningOut, Busy, At, TInv, Fits
    <2>2. CASE ~Ask(r)
      <3>1. Busy(r)
        BY <2>2 DEF Attach, Accept, Deny, ReadRefresh, KeepAccess, KeepRefresh, Check, Revoke,
                    StoreNew, Lose, Busy, At
      <3> QED
        BY <3>1, CallsWhenSignedIn
    <2> QED
      BY <2>1, <2>2
  <1>2. PICK u \in Users : SignedIn(u)
    BY <1>1
  <1>3. /\ Owns(u, store.access) /\ Owns(u, store.refresh) /\ store.access # None
        /\ Owns(u, call[r].access) /\ Owns(u, call[r].refresh)
    BY <1>0, <1>2 DEF SignedIn, OneUser
  <1>4. CASE Ask(r)
    BY <1>2, <1>3, <1>4, AskTyped, StillSignedIn DEF Ask, Owns
  <1>5. CASE Attach(r)
    BY <1>2, <1>3, <1>5, AttachTyped, StillSignedIn DEF Attach, Owns
  <1>6. CASE Accept(r)
    BY <1>0, <1>2, <1>3, <1>6, AcceptTyped, NoTokens, StillSignedIn DEF Accept, Owns
  <1>7. CASE Deny(r)
    BY <1>0, <1>2, <1>3, <1>7, DenyTyped, StillSignedIn DEF Deny, Owns
  <1>8. CASE ReadRefresh(r)
    BY <1>0, <1>2, <1>3, <1>8, ReadRefreshTyped, NoTokens, StillSignedIn DEF ReadRefresh, Owns
  <1>9. CASE KeepAccess(r)
    BY <1>0, <1>2, <1>3, <1>9, KeepAccessTyped, TokenShape, StillSignedIn DEF KeepAccess, Owns
  <1>10. CASE KeepRefresh(r)
    BY <1>0, <1>2, <1>3, <1>10, KeepRefreshTyped, StillSignedIn DEF KeepRefresh, Owns
  <1>11. CASE Check(r)
    BY <1>0, <1>2, <1>3, <1>11, CheckTyped, NoTokens, StillSignedIn DEF Check, Owns
  <1>12. CASE Revoke(r)
    BY <1>0, <1>2, <1>3, <1>12, RevokeTyped, StillSignedIn DEF Revoke, Owns
  <1>13. CASE StoreNew(r)
    BY <1>0, <1>2, <1>3, <1>13, StoreNewTyped, TokenShape, StillSignedIn DEF StoreNew, Owns
  <1>14. CASE Lose(r)
    BY <1>0, <1>2, <1>3, <1>14, LoseTyped, NoTokens, StillSignedIn DEF Lose, Owns
  <1> QED
    BY <1>4, <1>5, <1>6, <1>7, <1>8, <1>9, <1>10, <1>11, <1>12, <1>13, <1>14

\* A sign-in or sign-out starts when no call runs.
LEMMA StartInTurn ==
  ASSUME TInv, InTurn, "overlap" \notin mishap', Logout \/ \E u \in Users : Login(u)
  PROVE  InTurn'
  <1>0. ~Busy(Ui) /\ UNCHANGED store /\ UNCHANGED shown
    BY DEF Login, Logout
  <1>1. ~Others /\ Untouched(Ui)
    BY LoginTyped, LogoutTyped
  <1>2. Quiet /\ Quiet'
    BY <1>1, UiIsASlot DEF Others, Quiet, Untouched, Busy, At
  <1>3. \A r \in Requests : call[r].access = None /\ call[r].refresh = None
    BY <1>2, UiIsASlot, NoTokens DEF Quiet, Busy, At, TInv, Fits
  <1>4. ASSUME NEW u \in Users, Login(u)
        PROVE  InTurn'
    <2>1. shown = None /\ store = Cleared
      BY <1>0, <1>4, UiIdle, SessionAssumption DEF Login, SignedIn
    <2>2. OneUser(u)'
      BY <1>0, <1>1, <1>3, <1>4, <2>1, LoginTyped, NoTokens, UiIsASlot
      DEF OneUser, Owns, Untouched, Slots
    <2>3. SigningIn(u)'
      BY <1>0, <1>2, <1>4, <2>1, <2>2, LoginTyped DEF SigningIn
    <2> QED
      BY <2>3 DEF InTurn
  <1>5. CASE Logout
    <2>1. PICK u \in Users : SignedIn(u)
      BY <1>0, <1>5, UiIdle DEF Logout
    <2>2. OneUser(u)'
      BY <1>0, <1>1, <1>5, <2>1, LogoutTyped, UiIsASlot, StillOneUser
      DEF SignedIn, OneUser, Owns
    <2>3. SigningOut(u)'
      BY <1>0, <1>2, <1>5, <2>1, <2>2, LogoutTyped DEF SigningOut, SignedIn
    <2> QED
      BY <2>3 DEF InTurn
  <1> QED
    BY <1>4, <1>5

\* The steps of a sign-in or sign-out under way.
LEMMA UiInTurn ==
  ASSUME TInv, InTurn,
         \/ ReadRefresh(Ui) \/ KeepAccess(Ui) \/ KeepRefresh(Ui)
         \/ Check(Ui) \/ Revoke(Ui) \/ StoreNew(Ui) \/ Lose(Ui)
         \/ Grant \/ WrongPin \/ SignIn \/ LogoutServed \/ Clear
  PROVE  InTurn'
  <1>0. Busy(Ui) /\ Ui \in Slots /\ Fits(Ui, call[Ui])
    BY UiIsASlot DEF ReadRefresh, KeepAccess, KeepRefresh, Check, Revoke, StoreNew, Lose,
                     Grant, WrongPin, SignIn, LogoutServed, Clear, Busy, At, TInv
  <1>1. PICK u \in Users : SigningIn(u) \/ SigningOut(u)
    BY <1>0 DEF InTurn, SignedOut, SignedIn
  <1>2. OneUser(u) /\ Quiet /\ call[Ui].user = u /\ u # None
    BY <1>1, SessionAssumption DEF SigningIn, SigningOut
  <1>3. /\ Owns(u, store.access) /\ Owns(u, store.refresh)
        /\ Owns(u, call[Ui].access) /\ Owns(u, call[Ui].refresh)
    BY <1>0, <1>2 DEF OneUser
  <1>4. Untouched(Ui) => Quiet'
    BY <1>2, UiIsASlot DEF Quiet, Untouched, Busy, At
  <1>5. CASE SigningIn(u)
    <2>1. /\ call[Ui].kind = "login" /\ shown = None
          /\ call[Ui].pc \in {"sent", "denied", "granted", "half", "last"}
      BY <1>5 DEF SigningIn
    <2>2. CASE ReadRefresh(Ui)
      <3>1. store = Cleared /\ UNCHANGED store /\ UNCHANGED shown
        BY <1>5, <2>2 DEF ReadRefresh, SigningIn, At
      <3>2. call'[Ui] = Idle /\ Untouched(Ui)
        BY <1>0, <2>2, <3>1, ReadRefreshTyped, NoTokens, TokenShape
      <3> QED
        BY <1>4, <2>1, <3>1, <3>2, NoTokens DEF InTurn, SignedOut, Busy, At
    <2>3. CASE Lose(Ui)
      <3>1. store = Cleared /\ UNCHANGED store /\ UNCHANGED shown
        BY <1>5, <2>1, <2>3, LoseTyped, <1>0 DEF Lose, SigningIn, At
      <3>2. call'[Ui] = Idle /\ Untouched(Ui)
        BY <1>0, <2>1, <2>3, LoseTyped
      <3> QED
        BY <1>4, <2>1, <3>1, <3>2, NoTokens DEF InTurn, SignedOut, Busy, At
    <2>4. CASE Grant
      <3>1. store = Cleared /\ UNCHANGED store /\ UNCHANGED shown
        BY <1>5, <2>4 DEF Grant, SigningIn, At
      <3>2. OneUser(u)'
        BY <1>0, <1>2, <1>3, <2>4, <3>1, GrantTyped, StillOneUser DEF Owns
      <3>3. SigningIn(u)'
        BY <1>2, <1>4, <2>1, <2>4, <3>1, <3>2, GrantTyped DEF SigningIn
      <3> QED
        BY <3>3 DEF InTurn
    <2>5. CASE WrongPin
      <3>1. store = Cleared /\ UNCHANGED store /\ UNCHANGED shown
        BY <1>5, <2>5 DEF WrongPin, SigningIn, At
      <3>2. OneUser(u)'
        BY <1>0, <1>2, <1>3, <2>5, <3>1, DenyTyped, StillOneUser
      <3>3. SigningIn(u)'
        BY <1>0, <1>2, <1>4, <2>1, <2>5, <3>1, <3>2, DenyTyped DEF SigningIn
      <3> QED
        BY <3>3 DEF InTurn
    <2>6. CASE SignIn
      <3>1. OneUser(u)'
        BY <1>0, <1>2, <1>3, <2>6, SignInTyped, StillOneUser, NoTokens DEF Owns
      <3>2. CASE call[Ui].pc = "granted"
        <4>1. store.refresh = None /\ store'.access # None
          BY <1>5, <2>6, <3>2, SignInTyped, NoTokens, TokenShape DEF SigningIn
        <4>2. SigningIn(u)'
          BY <1>2, <1>4, <2>1, <2>6, <3>1, <3>2, <4>1, SignInTyped DEF SigningIn
        <4> QED
          BY <4>2 DEF InTurn
      <3>3. CASE call[Ui].pc = "half"
        <4>1. store.access # None
          BY <1>5, <3>3 DEF SigningIn
        <4>2. SigningIn(u)'
          BY <1>2, <1>4, <2>1, <2>6, <3>1, <3>3, <4>1, SignInTyped DEF SigningIn
        <4> QED
          BY <4>2 DEF InTurn
      <3>4. CASE call[Ui].pc = "last"
        <4>1. store.access # None
          BY <1>5, <3>4 DEF SigningIn
        <4>2. SignedIn(u)'
          BY <1>2, <2>1, <2>6, <3>1, <3>4, <4>1, SignInTyped, NoTokens DEF SignedIn, Busy, At
        <4> QED
          BY <4>2 DEF InTurn
      <3> QED
        BY <2>6, <3>2, <3>3, <3>4, SignInTyped
    <2> QED
      BY <1>0, <2>1, <2>2, <2>3, <2>4, <2>5, <2>6, KeepAccessTyped, KeepRefreshTyped, CheckTyped,
         RevokeTyped, StoreNewTyped, LogoutServedTyped, ClearTyped
  <1>6. CASE SigningOut(u)
    <2>1. call[Ui].kind = "logout" /\ shown = u /\ call[Ui].pc \in {"sent", "clear"}
      BY <1>0, <1>6 DEF SigningOut, Fits
    <2>2. CASE Lose(Ui) \/ LogoutServed
      <3>1. UNCHANGED store /\ UNCHANGED shown
        BY <2>2 DEF Lose, LogoutServed
      <3>2. OneUser(u)'
        BY <1>0, <1>2, <1>3, <2>1, <2>2, <3>1, LoseTyped, LogoutServedTyped, StillOneUser
      <3>3. SigningOut(u)'
        BY <1>0, <1>2, <1>4, <2>1, <2>2, <3>1, <3>2, LoseTyped, LogoutServedTyped
        DEF SigningOut
      <3> QED
        BY <3>3 DEF InTurn
    <2>3. CASE Clear
      BY <1>4, <2>3, ClearTyped, NoTokens DEF InTurn, SignedOut, Busy, At
    <2> QED
      BY <1>0, <2>1, <2>2, <2>3, ReadRefreshTyped, KeepAccessTyped, KeepRefreshTyped, CheckTyped,
         RevokeTyped, StoreNewTyped, GrantTyped, DenyTyped, SignInTyped
  <1> QED
    BY <1>1, <1>5, <1>6

\* The app is started again between two calls: it finds what it left.
LEMMA RestartInTurn ==
  ASSUME TInv, InTurn, Restart, "crash" \notin mishap'
  PROVE  InTurn'
  <1>1. \A s \in Slots : ~Busy(s) /\ call[s] = Idle /\ call'[s] = Idle
    BY RestartTyped DEF TInv, Fits, Busy, At
  <1>2. UNCHANGED store /\ shown' = Restored /\ ~Busy(Ui) /\ ~Busy(Ui)' /\ Quiet'
    BY <1>1, UiIsASlot, NoTokens DEF Restart, Quiet, Busy, At
  <1>3. CASE SignedOut
    BY <1>2, <1>3, NoTokens DEF InTurn, SignedOut, Restored
  <1>4. ASSUME NEW u \in Users, SignedIn(u)
        PROVE  InTurn'
    <2>1. shown' = shown
      BY <1>2, <1>4 DEF SignedIn, Restored
    <2>2. OneUser(u)'
      BY <1>1, <1>2, <1>4 DEF SignedIn, OneUser, Owns
    <2> QED
      BY <1>2, <1>4, <2>1, <2>2 DEF InTurn, SignedIn
  <1> QED
    BY <1>1, <1>3, <1>4, UiIsASlot, NoTokens DEF InTurn, SigningIn, SigningOut

LEMMA NextInTurn ==
  ASSUME TInv, InTurnInv, [Next]_vars
  PROVE  InTurnInv'
  <1> SUFFICES ASSUME mishap' \cap {"overlap", "crash"} = {}
               PROVE  InTurn'
    BY DEF InTurnInv
  <1>0. mishap \subseteq mishap'
    BY MishapsStay
  <1>1. InTurn /\ "overlap" \notin mishap' /\ "crash" \notin mishap'
    BY <1>0 DEF InTurnInv
  <1>2. ASSUME NEW r \in Requests,
               \/ Ask(r) \/ Attach(r) \/ Accept(r) \/ Deny(r) \/ ReadRefresh(r)
               \/ KeepAccess(r) \/ KeepRefresh(r) \/ Check(r) \/ Revoke(r) \/ StoreNew(r)
               \/ Lose(r)
        PROVE  InTurn'
    BY <1>1, <1>2, RequestInTurn
  <1>3. CASE \/ ReadRefresh(Ui) \/ KeepAccess(Ui) \/ KeepRefresh(Ui)
             \/ Check(Ui) \/ Revoke(Ui) \/ StoreNew(Ui) \/ Lose(Ui)
             \/ Grant \/ WrongPin \/ SignIn \/ LogoutServed \/ Clear
    BY <1>1, <1>3, UiInTurn
  <1>4. CASE Logout \/ \E u \in Users : Login(u)
    BY <1>1, <1>4, StartInTurn
  <1>5. CASE Restart
    BY <1>1, <1>5, RestartInTurn
  <1>6. CASE Tick \/ UNCHANGED vars
    BY <1>1, <1>6 DEF Tick, vars, InTurn, SignedOut, SignedIn, SigningIn, SigningOut, OneUser,
                      Quiet, Busy, At
  <1> QED
    BY <1>2, <1>3, <1>4, <1>5, <1>6 DEF Next, Slots

----------------------------------------------------------------------------
(***************************************************************************)
(* The session is kept.  A new pair has a row, and no other call, nor the  *)
(* storage, has its token: that no other call deletes the row follows, and *)
(* the row is there when the pair is stored.                               *)
(***************************************************************************)
Known ==
    /\ store.refresh \in handed \cup {None}
    /\ \A s \in Slots : call[s].refresh \in handed \cup {None}

\* Calls that will delete a token, and calls that will store one.
Holds(s) == call[s].pc \in Holding \/ (call[s].kind = "logout" /\ At(s, "sent"))
IsFresh(s) == call[s].pc \in Fresh

NewIn(s) ==
    /\ call[s].refresh \in rows /\ call[s].refresh # store.refresh
    /\ \A x \in Slots :
          x # s /\ (Holds(x) \/ IsFresh(x)) => call[x].refresh # call[s].refresh
FreshIsNew == \A s \in Slots : IsFresh(s) => NewIn(s)

StoredIsGood == store.refresh \in rows \cup {None} \/ BeingReplaced

KeptInv == mishap \subseteq {"overlap"} => FreshIsNew /\ StoredIsGood

LEMMA InitKept == Init => Known /\ KeptInv
  BY NoTokens DEF Init, Known, KeptInv, FreshIsNew, IsFresh, Fresh, StoredIsGood

LEMMA NextKnown ==
  ASSUME TInv, Known, [Next]_vars
  PROVE  Known'
  <1> USE DEF Known
  <1>1. ASSUME NEW s \in Slots,
               \/ (s \in Requests /\ (Ask(s) \/ Attach(s) \/ Accept(s) \/ Deny(s)))
               \/ ReadRefresh(s) \/ KeepAccess(s) \/ KeepRefresh(s)
               \/ Check(s) \/ Revoke(s) \/ Lose(s)
        PROVE  Known'
    <2>1. /\ Untouched(s) /\ UNCHANGED handed
          /\ call'[s].refresh \in {None, store.refresh, call[s].refresh}
          /\ store'.refresh \in {store.refresh, call[s].refresh}
      BY <1>1, NoTokens, AskTyped, AttachTyped, AcceptTyped, DenyTyped, ReadRefreshTyped,
         KeepAccessTyped, KeepRefreshTyped, CheckTyped, RevokeTyped, LoseTyped
      DEF Ask, Attach, Accept, Deny, ReadRefresh, KeepAccess, KeepRefresh, Check, Revoke, Lose
    <2> QED
      BY <2>1 DEF Untouched
  <1>2. ASSUME NEW s \in Slots, StoreNew(s) \/ (s = Ui /\ Grant)
        PROVE  Known'
    <2>1. PICK tok \in Token : handed' = handed \cup {tok} /\ call'[s].refresh = tok
      BY <1>2, StoreNewTyped, GrantTyped
    <2>2. Untouched(s) /\ UNCHANGED store
      BY <1>2, StoreNewTyped, GrantTyped DEF StoreNew, Grant
    <2> QED
      BY <2>1, <2>2 DEF Untouched
  <1>3. CASE WrongPin \/ SignIn \/ Logout \/ LogoutServed \/ Clear \/ \E u \in Users : Login(u)
    <2>1. /\ Untouched(Ui) /\ UNCHANGED handed
          /\ call'[Ui].refresh \in {None, store.refresh, call[Ui].refresh}
          /\ store'.refresh \in {None, store.refresh, call[Ui].refresh}
      BY <1>3, UiIsASlot, NoTokens, DenyTyped, SignInTyped, LogoutTyped, LogoutServedTyped,
         ClearTyped, LoginTyped
      DEF WrongPin, SignIn, Logout, LogoutServed, Clear, Login
    <2> QED
      BY <2>1, UiIsASlot DEF Untouched
  <1>4. CASE Restart
    BY <1>4, NoTokens, RestartTyped DEF Restart
  <1>5. CASE Tick \/ UNCHANGED vars
    BY <1>5 DEF Tick, vars
  <1> QED
    BY <1>1, <1>2, <1>3, <1>4, <1>5, UiIsASlot DEF Next

\* A step of a call that stays clear of rows and storage, and neither comes to
\* hold a token that is fresh elsewhere nor leaves a place that matters.
LEMMA AsideKept ==
  ASSUME TInv, Known, FreshIsNew, StoredIsGood, NEW s \in Slots, Untouched(s),
         UNCHANGED rows, store'.refresh = store.refresh,
         IsFresh(s)' => IsFresh(s) /\ call'[s].refresh = call[s].refresh,
         Holds(s)' => call'[s].refresh = store.refresh
                      \/ (Holds(s) /\ call'[s].refresh = call[s].refresh),
         call[s].pc # "store",
         call[s].pc \in {"answer", "keep"} =>
            call'[s].pc \in {"answer", "keep"} /\ call'[s].refresh = call[s].refresh,
         s = Ui /\ call[Ui].pc = "clear" => call'[Ui].pc = "clear"
  PROVE  FreshIsNew' /\ StoredIsGood'
  <1>1. \A x \in Slots : x # s => /\ call'[x] = call[x]
                                  /\ IsFresh(x)' <=> IsFresh(x)
                                  /\ Holds(x)' <=> Holds(x)
    BY DEF Untouched, IsFresh, Holds, At
  <1>2. FreshIsNew'
    <2> SUFFICES ASSUME NEW f \in Slots, IsFresh(f)'
                 PROVE  NewIn(f)'
      BY DEF FreshIsNew
    <2>1. IsFresh(f) /\ call'[f].refresh = call[f].refresh
      BY <1>1
    <2>2. NewIn(f)
      BY <2>1 DEF FreshIsNew
    <2>3. \A x \in Slots : x # f /\ (Holds(x)' \/ IsFresh(x)') => call'[x].refresh # call[f].refresh
      BY <1>1, <2>2 DEF NewIn
    <2> QED
      BY <2>1, <2>2, <2>3 DEF NewIn
  <1>3. StoredIsGood'
    <2>1. CASE store.refresh \in rows \cup {None}
      BY <2>1 DEF StoredIsGood
    <2>2. CASE BeingReplaced
      BY <1>1, <2>2, UiIsASlot DEF StoredIsGood, BeingReplaced, At
    <2> QED
      BY <2>1, <2>2 DEF StoredIsGood
  <1> QED
    BY <1>2, <1>3

\* A call that deletes the token it holds.
LEMMA DeleteKept ==
  ASSUME TInv, Known, FreshIsNew, StoredIsGood, NEW s \in Slots, Untouched(s),
         Holds(s), rows' = rows \ {call[s].refresh}, store'.refresh = store.refresh,
         call'[s].refresh = call[s].refresh, ~IsFresh(s)',
         \/ call[s].pc = "revoke" /\ call'[s].pc = "store"
         \/ s = Ui /\ call[s].pc = "sent" /\ call'[s].pc = "clear"
  PROVE  FreshIsNew' /\ StoredIsGood'
  <1>1. \A x \in Slots : x # s => /\ call'[x] = call[x]
                                  /\ IsFresh(x)' <=> IsFresh(x)
                                  /\ Holds(x)' <=> Holds(x)
    BY DEF Untouched, IsFresh, Holds, At
  <1>2. \A f \in Slots : f # s /\ IsFresh(f) => call[f].refresh # call[s].refresh
    BY DEF FreshIsNew, NewIn
  <1>3. FreshIsNew'
    <2> SUFFICES ASSUME NEW f \in Slots, IsFresh(f)'
                 PROVE  NewIn(f)'
      BY DEF FreshIsNew
    <2>1. f # s /\ IsFresh(f) /\ call'[f].refresh = call[f].refresh
      BY <1>1
    <2>2. NewIn(f)
      BY <2>1 DEF FreshIsNew
    <2>3. \A x \in Slots : x # f /\ (Holds(x)' \/ IsFresh(x)') => call'[x].refresh # call[f].refresh
      BY <1>1, <1>2, <2>1, <2>2 DEF NewIn
    <2> QED
      BY <1>2, <2>1, <2>2, <2>3 DEF NewIn
  <1>4. StoredIsGood'
    <2>1. CASE store.refresh = call[s].refresh
      BY <2>1 DEF StoredIsGood, BeingReplaced, At
    <2>2. CASE store.refresh \in rows \cup {None} /\ store.refresh # call[s].refresh
      BY <2>2 DEF StoredIsGood
    <2>3. CASE BeingReplaced
      <3>1. CASE call[Ui].pc = "clear"
        BY <1>1, <3>1, UiIsASlot DEF StoredIsGood, BeingReplaced, At
      <3>2. CASE \E x \in Slots : At(x, "store") /\ call[x].refresh = store.refresh
        BY <1>1, <3>2 DEF StoredIsGood, BeingReplaced, At
      <3>3. CASE \E x \in Slots : call[x].pc \in {"answer", "keep"} /\ call[x].refresh \in rows
        <4>1. PICK x \in Slots : call[x].pc \in {"answer", "keep"} /\ call[x].refresh \in rows
          BY <3>3
        <4>2. x # s /\ call'[x] = call[x] /\ call[x].refresh \in rows'
          BY <1>1, <1>2, <4>1 DEF IsFresh, Fresh
        <4> QED
          BY <4>1, <4>2 DEF StoredIsGood, BeingReplaced, At
      <3> QED
        BY <2>3, <3>1, <3>2, <3>3 DEF BeingReplaced, At
    <2> QED
      BY <2>1, <2>2, <2>3 DEF StoredIsGood
  <1> QED
    BY <1>3, <1>4

\* A call that is given a token nobody ever had.
LEMMA IssueKept ==
  ASSUME TInv, Known, FreshIsNew, StoredIsGood, NEW s \in Slots, Untouched(s),
         NEW tok \in Token, tok \notin handed, tok \in rows',
         rows \subseteq rows', store'.refresh = store.refresh, call'[s].refresh = tok,
         IsFresh(s)', ~Holds(s)',
         \/ call'[s].pc = "answer"
         \/ call[s].pc = "sent"
  PROVE  FreshIsNew' /\ StoredIsGood'
  <1>1. \A x \in Slots : x # s => /\ call'[x] = call[x]
                                  /\ IsFresh(x)' <=> IsFresh(x)
                                  /\ Holds(x)' <=> Holds(x)
    BY DEF Untouched, IsFresh, Holds, At
  <1>2. tok # None /\ store.refresh # tok /\ \A x \in Slots : call[x].refresh # tok
    BY TokenShape DEF Known
  <1>3. FreshIsNew'
    <2>1. NewIn(s)'
      BY <1>1, <1>2 DEF NewIn
    <2>2. ASSUME NEW f \in Slots, f # s, IsFresh(f)'
          PROVE  NewIn(f)'
      <3>1. IsFresh(f) /\ call'[f] = call[f] /\ NewIn(f)
        BY <1>1, <2>2 DEF FreshIsNew
      <3>2. \A x \in Slots : x # f /\ (Holds(x)' \/ IsFresh(x)')
                             => call'[x].refresh # call[f].refresh
        BY <1>1, <1>2, <3>1 DEF NewIn
      <3> QED
        BY <3>1, <3>2 DEF NewIn
    <2> QED
      BY <2>1, <2>2 DEF FreshIsNew
  <1>4. StoredIsGood'
    <2>1. CASE store.refresh \in rows \cup {None}
      BY <2>1 DEF StoredIsGood
    <2>2. CASE BeingReplaced
      <3>1. CASE call'[s].pc = "answer"
        BY <3>1 DEF StoredIsGood, BeingReplaced, At
      <3>2. CASE call[s].pc = "sent"
        BY <1>1, <2>2, <3>2, UiIsASlot DEF StoredIsGood, BeingReplaced, At
      <3> QED
        BY <3>1, <3>2
    <2> QED
      BY <2>1, <2>2 DEF StoredIsGood
  <1> QED
    BY <1>3, <1>4

\* The new token is stored.
LEMMA StoringKept ==
  ASSUME TInv, FreshIsNew, NEW s \in Slots, Untouched(s), IsFresh(s),
         UNCHANGED rows, store'.refresh = call[s].refresh,
         ~IsFresh(s)', ~Holds(s)'
  PROVE  FreshIsNew' /\ StoredIsGood'
  <1>1. \A x \in Slots : x # s => /\ call'[x] = call[x]
                                  /\ IsFresh(x)' <=> IsFresh(x)
                                  /\ Holds(x)' <=> Holds(x)
    BY DEF Untouched, IsFresh, Holds, At
  <1>2. NewIn(s)
    BY DEF FreshIsNew
  <1>3. ASSUME NEW f \in Slots, IsFresh(f)'
        PROVE  NewIn(f)'
    <2>1. f # s /\ IsFresh(f) /\ call'[f] = call[f] /\ NewIn(f)
      BY <1>1, <1>3 DEF FreshIsNew
    <2>2. \A x \in Slots : x # f /\ (Holds(x)' \/ IsFresh(x)') => call'[x].refresh # call[f].refresh
      BY <1>1, <2>1 DEF NewIn
    <2> QED
      BY <2>1, <2>2 DEF NewIn
  <1> QED
    BY <1>2, <1>3 DEF FreshIsNew, NewIn, StoredIsGood

LEMMA NextKept ==
  ASSUME TInv, Known, KeptInv, [Next]_vars
  PROVE  KeptInv'
  <1> SUFFICES ASSUME mishap' \subseteq {"overlap"}
               PROVE  FreshIsNew' /\ StoredIsGood'
    BY DEF KeptInv
  <1>0. FreshIsNew /\ StoredIsGood
    BY MishapsStay DEF KeptInv
  <1>1. "twins" \notin mishap' /\ "lost" \notin mishap' /\ "crash" \notin mishap'
        /\ "fault" \notin mishap'
    OBVIOUS
  <1>2. ASSUME NEW r \in Requests, Ask(r)
        PROVE  FreshIsNew' /\ StoredIsGood'
    <2>1. r \in Slots /\ r # Ui /\ call[r].pc = "idle" /\ UNCHANGED <<rows, store>>
      BY <1>2, UiIsASlot DEF Ask, Busy, At
    <2> QED
      BY <1>0, <1>2, <2>1, AskTyped, AsideKept DEF IsFresh, Holds, Fresh, Holding, At
  <1>3. ASSUME NEW r \in Requests, Attach(r)
        PROVE  FreshIsNew' /\ StoredIsGood'
    <2>1. r \in Slots /\ r # Ui /\ call[r].pc = "attach" /\ UNCHANGED <<rows, store>>
      BY <1>3, UiIsASlot DEF Attach, At
    <2> QED
      BY <1>0, <1>3, <2>1, AttachTyped, AsideKept DEF IsFresh, Holds, Fresh, Holding, At
  <1>4. ASSUME NEW r \in Requests, Accept(r)
        PROVE  FreshIsNew' /\ StoredIsGood'
    <2>1. r \in Slots /\ r # Ui /\ call[r].pc = "sent" /\ UNCHANGED <<rows, store>>
      BY <1>4, UiIsASlot DEF Accept, At
    <2> QED
      BY <1>0, <1>4, <2>1, AcceptTyped, NoTokens, AsideKept
      DEF IsFresh, Holds, Fresh, Holding, At
  <1>5. ASSUME NEW s \in Slots, Deny(s) \/ (s = Ui /\ WrongPin)
        PROVE  FreshIsNew' /\ StoredIsGood'
    <2>1. UNCHANGED <<rows, store>>
      BY <1>5 DEF Deny, WrongPin
    <2> QED
      BY <1>0, <1>5, <2>1, DenyTyped, AsideKept DEF IsFresh, Holds, Fresh, Holding, At
  <1>6. ASSUME NEW s \in Slots, ReadRefresh(s)
        PROVE  FreshIsNew' /\ StoredIsGood'
    <2>1. UNCHANGED <<rows, store>>
      BY <1>6 DEF ReadRefresh
    <2> QED
      BY <1>0, <1>6, <2>1, ReadRefreshTyped, NoTokens, AsideKept
      DEF IsFresh, Holds, Fresh, Holding, At
  <1>7. ASSUME NEW s \in Slots, KeepAccess(s)
        PROVE  FreshIsNew' /\ StoredIsGood'
    <2>1. UNCHANGED rows
      BY <1>7 DEF KeepAccess
    <2>2. /\ call[s].kind # "logout"
          /\ IsFresh(s) /\ call'[s].refresh = call[s].refresh /\ ~Holds(s)'
      BY <1>7, KeepAccessTyped DEF IsFresh, Holds, Fresh, Holding, At, TInv, Fits
    <2> QED
      BY <1>0, <1>7, <2>1, <2>2, KeepAccessTyped, AsideKept
  <1>8. ASSUME NEW s \in Slots, KeepRefresh(s)
        PROVE  FreshIsNew' /\ StoredIsGood'
    <2>1. UNCHANGED rows
      BY <1>8 DEF KeepRefresh
    <2> QED
      BY <1>0, <1>8, <2>1, KeepRefreshTyped, StoringKept DEF IsFresh, Holds, Fresh, Holding, At
  <1>9. ASSUME NEW s \in Slots, Check(s)
        PROVE  FreshIsNew' /\ StoredIsGood'
    <2>1. UNCHANGED <<rows, store>>
      BY <1>9 DEF Check
    <2> QED
      BY <1>0, <1>9, <2>1, CheckTyped, NoTokens, AsideKept
      DEF IsFresh, Holds, Fresh, Holding, At
  <1>10. ASSUME NEW s \in Slots, Revoke(s)
         PROVE  FreshIsNew' /\ StoredIsGood'
    <2>1. UNCHANGED store
      BY <1>10 DEF Revoke
    <2> QED
      BY <1>0, <1>1, <1>10, <2>1, RevokeTyped, DeleteKept
      DEF IsFresh, Holds, Fresh, Holding, At
  <1>11. ASSUME NEW s \in Slots, StoreNew(s) \/ (s = Ui /\ Grant)
         PROVE  FreshIsNew' /\ StoredIsGood'
    <2>1. UNCHANGED store
      BY <1>11 DEF StoreNew, Grant
    <2>2. PICK tok \in Token :
             /\ call'[s].kind = call[s].kind /\ call'[s].refresh = tok
             /\ \/ call[s].pc = "store" /\ call'[s].pc = "answer"
                \/ call[s].pc = "sent" /\ call'[s].pc = "granted"
             /\ rows \subseteq rows' /\ tok \in rows' /\ tok \notin handed
             /\ Untouched(s)
      BY <1>1, <1>11, StoreNewTyped, GrantTyped
    <2>3. IsFresh(s)' /\ ~Holds(s)'
      BY <2>2 DEF IsFresh, Holds, Fresh, Holding, At
    <2> QED
      BY <1>0, <2>1, <2>2, <2>3, IssueKept
  <1>12. ASSUME NEW s \in Slots, Lose(s)
         PROVE  FreshIsNew' /\ StoredIsGood'
    <2>1. UNCHANGED <<rows, store>>
      BY <1>12 DEF Lose
    <2>2. call[s].pc \in {"sent", "check", "revoke"} /\ call'[s] = Idle /\ Untouched(s)
      BY <1>1, <1>12, LoseTyped
    <2> QED
      BY <1>0, <2>1, <2>2, NoTokens, AsideKept DEF IsFresh, Holds, Fresh, Holding, At
  <1>13. ASSUME NEW u \in Users, Login(u)
         PROVE  FreshIsNew' /\ StoredIsGood'
    <2>1. Ui \in Slots /\ call[Ui].pc = "idle" /\ UNCHANGED <<rows, store>>
      BY <1>13, UiIsASlot DEF Login, Busy, At
    <2> QED
      BY <1>0, <1>13, <2>1, LoginTyped, AsideKept DEF IsFresh, Holds, Fresh, Holding, At
  <1>14. CASE SignIn
    <2>1. UNCHANGED rows /\ Ui \in Slots
      BY <1>14, UiIsASlot DEF SignIn
    <2>2. CASE call[Ui].pc = "half"
      BY <1>0, <1>14, <2>1, <2>2, SignInTyped, StoringKept DEF IsFresh, Holds, Fresh, Holding, At
    <2>3. CASE call[Ui].pc # "half"
      BY <1>0, <1>14, <2>1, <2>3, SignInTyped, NoTokens, AsideKept
      DEF IsFresh, Holds, Fresh, Holding, At
    <2> QED
      BY <2>2, <2>3
  <1>15. CASE Logout
    <2>1. Ui \in Slots /\ call[Ui].pc = "idle" /\ UNCHANGED <<rows, store>>
      BY <1>15, UiIsASlot DEF Logout, Busy, At
    <2> QED
      BY <1>0, <1>15, <2>1, LogoutTyped, AsideKept DEF IsFresh, Holds, Fresh, Holding, At
  <1>16. CASE LogoutServed
    <2>1. UNCHANGED store /\ Ui \in Slots
      BY <1>16, UiIsASlot DEF LogoutServed
    <2> QED
      BY <1>0, <1>1, <1>16, <2>1, LogoutServedTyped, DeleteKept
      DEF IsFresh, Holds, Fresh, Holding, At
  <1>17. CASE Clear
    <2>1. UNCHANGED rows /\ Ui \in Slots
      BY <1>17, UiIsASlot DEF Clear
    <2>2. /\ Untouched(Ui) /\ call[Ui].pc = "clear" /\ call'[Ui] = Idle
          /\ store'.refresh = None
      BY <1>17, ClearTyped
    <2>3. \A x \in Slots : /\ IsFresh(x)' => /\ IsFresh(x) /\ call'[x] = call[x] /\ x # Ui
                           /\ Holds(x)' => Holds(x) /\ call'[x] = call[x]
      BY <2>2, NoTokens DEF Untouched, IsFresh, Holds, Fresh, Holding, At
    <2>4. \A x \in Slots : IsFresh(x)' => call[x].refresh # None
      BY <2>3, TokenShape DEF IsFresh, TInv, Fits
    <2>5. FreshIsNew'
      BY <1>0, <2>1, <2>2, <2>3, <2>4 DEF FreshIsNew, NewIn
    <2> QED
      BY <2>2, <2>5 DEF StoredIsGood
  <1>18. CASE Restart
    <2>1. \A s \in Slots : ~Busy(s) /\ call[s] = Idle /\ call'[s] = Idle
      BY <1>1, <1>18, RestartTyped DEF TInv, Fits, Busy, At
    <2>2. UNCHANGED <<rows, store>>
      BY <1>18 DEF Restart
    <2>3. ~BeingReplaced
      BY <2>1, UiIsASlot, NoTokens DEF BeingReplaced, At
    <2> QED
      BY <1>0, <2>1, <2>2, <2>3, NoTokens DEF FreshIsNew, StoredIsGood, IsFresh, Fresh
  <1>19. CASE Tick \/ UNCHANGED vars
    BY <1>0, <1>19 DEF Tick, vars, FreshIsNew, StoredIsGood, NewIn, IsFresh, Holds,
                        BeingReplaced, At
  <1> QED
    BY <1>2, <1>3, <1>4, <1>5, <1>6, <1>7, <1>8, <1>9, <1>10, <1>11, <1>12, <1>13, <1>14,
       <1>15, <1>16, <1>17, <1>18, <1>19, UiIsASlot DEF Next

----------------------------------------------------------------------------
(***************************************************************************)
(* Nothing else is live.  Without an accident one call at most is past the *)
(* check of Refresh or has a new pair, and until that is stored the server *)
(* does not know the token in storage.                                     *)
(***************************************************************************)
Renewing(s) == call[s].pc \in {"revoke", "store"} \cup Fresh

OneRenews == \A s, x \in Slots : Renewing(s) /\ Renewing(x) => s = x
OldIsKnown ==
    /\ \A s \in Slots : At(s, "revoke") => call[s].refresh = store.refresh
    /\ call[Ui].kind = "logout" /\ At(Ui, "sent") => call[Ui].refresh = store.refresh
OldIsGone ==
    /\ \A s \in Slots : call[s].pc \in {"store", "answer", "keep"} => store.refresh \notin rows
    /\ At(Ui, "clear") => store.refresh \notin rows
LiveIsHeld ==
    \A tok \in rows :
        tok = store.refresh \/ \E t \in Slots : IsFresh(t) /\ call[t].refresh = tok

OneLive == OneRenews /\ OldIsKnown /\ OldIsGone /\ LiveIsHeld
LiveInv == mishap = {} => OneLive

Calm == TInv /\ Known /\ InTurn /\ FreshIsNew /\ OneLive

LEMMA InitLive == Init => LiveInv
  BY UiIsASlot, NoTokens DEF Init, LiveInv, OneLive, OneRenews, OldIsKnown, OldIsGone, LiveIsHeld,
     Renewing, Fresh, At

\* A step of a call that stays clear of rows and of the stored refresh token.
LEMMA AsideLive ==
  ASSUME TInv, OneLive, NEW s \in Slots, Untouched(s),
         UNCHANGED rows, store'.refresh = store.refresh,
         IsFresh(s) => ~(call[s].refresh \in rows) \/ call[s].refresh = store.refresh
                       \/ (IsFresh(s)' /\ call'[s].refresh = call[s].refresh),
         Renewing(s)' => Renewing(s),
         call'[s].pc # "revoke",
         call'[s].pc \in {"store", "answer", "keep"} =>
            call[s].pc \in {"store", "answer", "keep"},
         s = Ui => /\ call'[Ui].kind = "logout" /\ call'[Ui].pc = "sent"
                         => call'[Ui].refresh = store.refresh
                   /\ call'[Ui].pc = "clear" => store.refresh \notin rows
  PROVE  OneLive'
  <1>1. \A x \in Slots : x # s => /\ call'[x] = call[x]
                                  /\ IsFresh(x)' <=> IsFresh(x)
                                  /\ Renewing(x)' <=> Renewing(x)
    BY DEF Untouched, IsFresh, Renewing
  <1>2. OneRenews'
    BY <1>1 DEF OneLive, OneRenews
  <1>3. OldIsKnown'
    BY <1>1, UiIsASlot DEF OneLive, OldIsKnown, At
  <1>4. OldIsGone'
    BY <1>1, UiIsASlot DEF OneLive, OldIsGone, At
  <1>5. LiveIsHeld'
    BY <1>1 DEF OneLive, LiveIsHeld
  <1> QED
    BY <1>2, <1>3, <1>4, <1>5 DEF OneLive

\* A call is let in with the token in storage, while no other call renews it.
LEMMA CheckLive ==
  ASSUME Calm, NEW s \in Slots, Check(s), "twins" \notin mishap', call'[s] # Idle
  PROVE  OneLive'
  <1>1. /\ call[s].pc = "check" /\ call[s].refresh \in rows
        /\ call'[s].pc = "revoke" /\ call'[s].kind = call[s].kind
        /\ call'[s].refresh = call[s].refresh
        /\ LetIn(call[s].refresh) = {} /\ Untouched(s) /\ UNCHANGED <<rows, store>>
    BY CheckTyped DEF Calm, Check
  <1>2. call[s].refresh = store.refresh
    <2>1. \A t \in Slots : IsFresh(t) => call[t].refresh # call[s].refresh
      BY <1>1 DEF Calm, FreshIsNew, NewIn, Holds, Holding, IsFresh, Fresh
    <2> QED
      BY <1>1, <2>1 DEF Calm, OneLive, LiveIsHeld
  <1>3. \A x \in Slots : ~Renewing(x)
    <2> SUFFICES ASSUME NEW x \in Slots, Renewing(x)
                 PROVE  FALSE
      OBVIOUS
    <2>1. CASE call[x].pc = "revoke"
      BY <1>1, <1>2, <2>1 DEF Calm, OneLive, OldIsKnown, LetIn, At
    <2>2. CASE call[x].pc \in {"store", "answer", "keep"}
      BY <1>1, <1>2, <2>2 DEF Calm, OneLive, OldIsGone
    <2>3. CASE call[x].pc \in {"granted", "half"}
      <3>1. x = Ui /\ call[Ui].kind = "login"
        BY <2>3, UiIsASlot DEF Calm, TInv, TypeOK, Fits, Slots, Call
      <3>2. s \in Requests /\ Busy(s)
        BY <1>1, <2>3, <3>1 DEF Slots, Busy, At
      <3>3. PICK u \in Users : SignedIn(u)
        BY <3>2, CallsWhenSignedIn DEF Calm
      <3> QED
        BY <2>3, <3>1, <3>3 DEF SignedIn, Busy, At
    <2> QED
      BY <2>1, <2>2, <2>3 DEF Renewing, Fresh
  <1>4. \A x \in Slots : x # s => call'[x] = call[x] /\ (IsFresh(x)' <=> IsFresh(x))
                                  /\ (Renewing(x)' <=> Renewing(x))
    BY <1>1 DEF Untouched, IsFresh, Renewing
  <1>5. OneRenews'
    BY <1>3, <1>4 DEF OneRenews
  <1>6. OldIsKnown'
    BY <1>1, <1>2, <1>4, UiIsASlot DEF Calm, OneLive, OldIsKnown, At
  <1>7. OldIsGone'
    BY <1>1, <1>4, UiIsASlot DEF Calm, OneLive, OldIsGone, At
  <1>8. LiveIsHeld'
    BY <1>1, <1>4 DEF Calm, OneLive, LiveIsHeld, IsFresh, Fresh
  <1> QED
    BY <1>5, <1>6, <1>7, <1>8 DEF OneLive

\* The stored token is deleted.
LEMMA DeleteLive ==
  ASSUME TInv, OneLive, NEW s \in Slots, Untouched(s),
         rows' = rows \ {store.refresh}, store'.refresh = store.refresh,
         ~IsFresh(s), call'[s].pc = "store" \/ (s = Ui /\ call'[s].pc = "clear"),
         call'[s].kind = call[s].kind, call'[s].pc = "store" => call[s].pc = "revoke"
  PROVE  OneLive'
  <1>1. \A x \in Slots : x # s => /\ call'[x] = call[x]
                                  /\ IsFresh(x)' <=> IsFresh(x)
                                  /\ Renewing(x)' <=> Renewing(x)
    BY DEF Untouched, IsFresh, Renewing
  <1>2. OneRenews'
    BY <1>1 DEF OneLive, OneRenews, Renewing, Fresh
  <1>3. OldIsKnown'
    BY <1>1, UiIsASlot DEF OneLive, OldIsKnown, At
  <1>4. OldIsGone'
    BY DEF OldIsGone
  <1>5. LiveIsHeld'
    BY <1>1 DEF OneLive, LiveIsHeld
  <1> QED
    BY <1>2, <1>3, <1>4, <1>5 DEF OneLive

\* A new token is handed to the one call that renews it.
LEMMA IssueLive ==
  ASSUME TInv, Known, OneLive, NEW s \in Slots, Untouched(s),
         NEW tok \in Token, tok \notin handed, rows' = rows \cup {tok},
         store'.refresh = store.refresh, call'[s].refresh = tok,
         ~IsFresh(s), call'[s].kind # "logout",
         \/ call[s].pc = "store" /\ call'[s].pc = "answer"
         \/ call'[s].pc = "granted" /\ \A x \in Slots : x # s => ~Renewing(x)
  PROVE  OneLive'
  <1>1. \A x \in Slots : x # s => /\ call'[x] = call[x]
                                  /\ IsFresh(x)' <=> IsFresh(x)
                                  /\ Renewing(x)' <=> Renewing(x)
    BY DEF Untouched, IsFresh, Renewing
  <1>2. store.refresh # tok
    BY TokenShape DEF Known
  <1>3. OneRenews'
    BY <1>1 DEF OneLive, OneRenews, Renewing, Fresh
  <1>4. OldIsKnown'
    BY <1>1, UiIsASlot DEF OneLive, OldIsKnown, At
  <1>5. OldIsGone'
    BY <1>1, <1>2, UiIsASlot DEF OneLive, OldIsGone, At
  <1>6. LiveIsHeld'
    <2> SUFFICES ASSUME NEW t \in rows', t # store.refresh
                 PROVE  \E x \in Slots : IsFresh(x)' /\ call'[x].refresh = t
      BY DEF LiveIsHeld
    <2>1. CASE t = tok
      BY <2>1 DEF IsFresh, Fresh
    <2>2. CASE t \in rows
      <3>1. PICK x \in Slots : IsFresh(x) /\ call[x].refresh = t
        BY <2>2 DEF OneLive, LiveIsHeld
      <3> QED
        BY <1>1, <3>1
    <2> QED
      BY <2>1, <2>2
  <1> QED
    BY <1>3, <1>4, <1>5, <1>6 DEF OneLive

\* The new token is stored.
LEMMA StoringLive ==
  ASSUME TInv, OneLive, NEW s \in Slots, Untouched(s), IsFresh(s), UNCHANGED rows,
         store'.refresh = call[s].refresh, store.refresh \notin rows,
         call'[s].pc \in {"sent", "attach", "last"}, call'[s].kind # "logout",
         call[Ui].kind = "logout" => s = Ui
  PROVE  OneLive'
  <1>1. \A x \in Slots : x # s => /\ call'[x] = call[x]
                                  /\ IsFresh(x)' <=> IsFresh(x)
                                  /\ Renewing(x)' <=> Renewing(x)
    BY DEF Untouched, IsFresh, Renewing
  <1>2. \A x \in Slots : x # s => ~Renewing(x)
    BY DEF OneLive, OneRenews, Renewing, IsFresh
  <1>3. \A x \in Slots : ~Renewing(x)'
    BY <1>1, <1>2 DEF Renewing, Fresh
  <1>4. OneRenews'
    BY <1>3 DEF OneRenews
  <1>5. OldIsKnown'
    BY <1>1, <1>3, UiIsASlot DEF OldIsKnown, Renewing, At
  <1>6. OldIsGone'
    BY <1>1, <1>3, UiIsASlot DEF OldIsGone, Renewing, Fresh, At, TInv, TypeOK, Fits, Call
  <1>7. LiveIsHeld'
    BY <1>2 DEF OneLive, LiveIsHeld, Renewing, IsFresh
  <1> QED
    BY <1>4, <1>5, <1>6, <1>7 DEF OneLive

LEMMA NextLive ==
  ASSUME TInv, Known, InTurnInv, KeptInv, LiveInv, [Next]_vars
  PROVE  LiveInv'
  <1> SUFFICES ASSUME mishap' = {}
               PROVE  OneLive'
    BY DEF LiveInv
  <1>0. mishap = {}
    BY MishapsStay
  <1>1. OneLive /\ Calm
    BY <1>0 DEF LiveInv, InTurnInv, KeptInv, Calm
  <1>2. None \notin rows
    BY TokenShape DEF TInv, TypeOK
  <1>3. ASSUME NEW r \in Requests, Ask(r) \/ Attach(r) \/ Accept(r) \/ Deny(r)
        PROVE  OneLive'
    <2>1. /\ r \in Slots /\ r # Ui /\ Untouched(r) /\ UNCHANGED <<rows, store>>
          /\ call[r].pc \in {"idle", "attach", "sent"}
          /\ call'[r].pc \in {"idle", "attach", "sent", "denied"}
      BY <1>3, UiIsASlot, NoTokens, AskTyped, AttachTyped, AcceptTyped, DenyTyped
      DEF Ask, Attach, Accept, Deny, Busy, At
    <2> QED
      BY <1>1, <2>1, AsideLive DEF IsFresh, Renewing, Fresh
  <1>4. ASSUME NEW s \in Slots, ReadRefresh(s) \/ (s = Ui /\ WrongPin)
        PROVE  OneLive'
    <2>1. /\ Untouched(s) /\ UNCHANGED <<rows, store>>
          /\ call[s].pc \in {"sent", "denied"}
          /\ call'[s].pc \in {"idle", "check", "denied"}
      BY <1>4, NoTokens, ReadRefreshTyped, DenyTyped DEF ReadRefresh, WrongPin
    <2> QED
      BY <1>1, <2>1, AsideLive DEF IsFresh, Renewing, Fresh
  <1>5. ASSUME NEW s \in Slots, KeepAccess(s)
        PROVE  OneLive'
    <2>1. UNCHANGED rows
      BY <1>5 DEF KeepAccess
    <2> QED
      BY <1>1, <1>5, <2>1, KeepAccessTyped, AsideLive DEF IsFresh, Renewing, Fresh
  <1>6. ASSUME NEW s \in Slots, KeepRefresh(s)
        PROVE  OneLive'
    <2>1. UNCHANGED rows
      BY <1>6 DEF KeepRefresh
    <2>2. call[s].pc = "keep" /\ store.refresh \notin rows /\ IsFresh(s) /\ Busy(s)
      BY <1>1, <1>6, KeepRefreshTyped DEF OneLive, OldIsGone, IsFresh, Fresh, Busy, At
    <2>3. call[Ui].kind = "logout" => s = Ui
      <3> SUFFICES ASSUME s # Ui
                   PROVE  call[Ui].kind # "logout"
        OBVIOUS
      <3>1. PICK u \in Users : SignedIn(u)
        BY <1>1, <2>2, CallsWhenSignedIn DEF Calm, Slots
      <3> QED
        BY <3>1, UiIsASlot DEF SignedIn, Busy, At, TInv, Fits
    <2> QED
      BY <1>1, <1>6, <2>1, <2>2, <2>3, KeepRefreshTyped, StoringLive
  <1>7. ASSUME NEW s \in Slots, Check(s)
        PROVE  OneLive'
    <2>1. CASE call'[s] = Idle
      <3>1. UNCHANGED <<rows, store>>
        BY <1>7 DEF Check
      <3> QED
        BY <1>1, <1>7, <2>1, <3>1, NoTokens, CheckTyped, AsideLive DEF IsFresh, Renewing, Fresh
    <2>2. CASE call'[s] # Idle
      BY <1>1, <1>7, <2>2, CheckLive
    <2> QED
      BY <2>1, <2>2
  <1>8. ASSUME NEW s \in Slots, Revoke(s)
        PROVE  OneLive'
    <2>1. UNCHANGED store
      BY <1>8 DEF Revoke
    <2>2. call[s].pc = "revoke" /\ call[s].refresh = store.refresh
      BY <1>1, <1>8, RevokeTyped DEF OneLive, OldIsKnown, At
    <2> QED
      BY <1>1, <1>8, <2>1, <2>2, RevokeTyped, DeleteLive DEF IsFresh, Fresh
  <1>9. ASSUME NEW s \in Slots, StoreNew(s)
        PROVE  OneLive'
    <2>1. UNCHANGED store
      BY <1>9 DEF StoreNew
    <2>2. call[s].kind # "logout" /\ call[s].pc = "store"
      BY <1>9, StoreNewTyped DEF TInv, Fits
    <2>3. PICK tok \in Token :
             /\ tok \notin handed /\ rows' = rows \cup {tok}
             /\ call'[s].refresh = tok /\ call'[s].kind = call[s].kind
             /\ call'[s].pc = "answer" /\ Untouched(s)
      BY <1>9, StoreNewTyped
    <2> QED
      BY <1>1, <2>1, <2>2, <2>3, IssueLive DEF IsFresh, Fresh
  <1>10. CASE Grant
    <2>1. UNCHANGED store /\ Ui \in Slots
      BY <1>10, UiIsASlot DEF Grant
    <2>2. PICK tok \in Token :
             /\ tok \notin handed /\ rows' = rows \cup {tok}
             /\ call'[Ui].refresh = tok /\ call'[Ui].kind = "login"
             /\ call'[Ui].pc = "granted" /\ Untouched(Ui)
      BY <1>10, GrantTyped
    <2>3. call[Ui].pc = "sent" /\ call[Ui].kind = "login"
      BY <1>10, GrantTyped
    <2>4. \A x \in Slots : x # Ui => ~Renewing(x)
      <3> SUFFICES ASSUME NEW x \in Requests, Renewing(x)
                   PROVE  FALSE
        BY DEF Slots
      <3>1. PICK u \in Users : SignedIn(u)
        BY <1>1, CallsWhenSignedIn DEF Calm, Renewing, Fresh, Busy, At
      <3> QED
        BY <2>3, <3>1 DEF SignedIn, Busy, At
    <2> QED
      BY <1>1, <2>1, <2>2, <2>3, <2>4, IssueLive DEF IsFresh, Fresh
  <1>11. ASSUME NEW s \in Slots, Lose(s)
         PROVE  OneLive'
    <2>1. UNCHANGED <<rows, store>>
      BY <1>11 DEF Lose
    <2>2. call[s].pc \in {"sent", "check", "revoke"} /\ call'[s] = Idle /\ Untouched(s)
      BY <1>11, LoseTyped
    <2> QED
      BY <1>1, <2>1, <2>2, NoTokens, AsideLive DEF IsFresh, Renewing, Fresh
  <1>12. ASSUME NEW u \in Users, Login(u)
         PROVE  OneLive'
    <2>1. Ui \in Slots /\ call[Ui].pc = "idle" /\ UNCHANGED <<rows, store>>
      BY <1>12, UiIsASlot DEF Login, Busy, At
    <2> QED
      BY <1>1, <1>12, <2>1, LoginTyped, AsideLive DEF IsFresh, Renewing, Fresh
  <1>13. CASE SignIn
    <2>1. UNCHANGED rows /\ Ui \in Slots
      BY <1>13, UiIsASlot DEF SignIn
    <2>2. CASE call[Ui].pc = "half"
      <3>1. store.refresh = None
        BY <1>1, <1>13, <2>2, SignInTyped
        DEF Calm, InTurn, SignedOut, SignedIn, SigningIn, SigningOut, Busy, At
      <3> QED
        BY <1>1, <1>2, <1>13, <2>1, <2>2, <3>1, SignInTyped, StoringLive DEF IsFresh, Fresh
    <2>3. CASE call[Ui].pc # "half"
      BY <1>1, <1>13, <2>1, <2>3, SignInTyped, NoTokens, AsideLive DEF IsFresh, Renewing, Fresh
    <2> QED
      BY <2>2, <2>3
  <1>14. CASE Logout
    <2>1. Ui \in Slots /\ call[Ui].pc = "idle" /\ UNCHANGED <<rows, store>>
      BY <1>14, UiIsASlot DEF Logout, Busy, At
    <2> QED
      BY <1>1, <1>2, <1>14, <2>1, LogoutTyped, AsideLive DEF IsFresh, Renewing, Fresh
  <1>15. CASE LogoutServed
    <2>1. UNCHANGED store /\ Ui \in Slots
      BY <1>15, UiIsASlot DEF LogoutServed
    <2>2. call[Ui].refresh = store.refresh /\ call[Ui].pc = "sent"
      BY <1>1, <1>15, LogoutServedTyped DEF OneLive, OldIsKnown, At
    <2> QED
      BY <1>1, <1>15, <2>1, <2>2, LogoutServedTyped, DeleteLive DEF IsFresh, Fresh
  <1>16. CASE Clear
    <2>1. UNCHANGED rows /\ Ui \in Slots
      BY <1>16, UiIsASlot DEF Clear
    <2>2. /\ Untouched(Ui) /\ call[Ui].pc = "clear" /\ call[Ui].kind = "logout"
          /\ call'[Ui] = Idle /\ store'.refresh = None
      BY <1>16, ClearTyped
    <2>3. \A r \in Requests : ~Busy(r)
      <3> SUFFICES ASSUME NEW r \in Requests, Busy(r)
                   PROVE  FALSE
        OBVIOUS
      <3>1. PICK u \in Users : SignedIn(u)
        BY <1>1, CallsWhenSignedIn DEF Calm
      <3> QED
        BY <2>2, <3>1 DEF SignedIn, Busy, At
    <2>4. \A x \in Slots : ~IsFresh(x) /\ call'[x].pc = "idle"
      BY <2>2, <2>3, NoTokens DEF Slots, Untouched, IsFresh, Fresh, Busy, At
    <2>5. rows = {}
      BY <1>1, <2>2, <2>4 DEF OneLive, OldIsGone, LiveIsHeld, At
    <2> QED
      BY <2>1, <2>4, <2>5 DEF OneLive, OneRenews, OldIsKnown, OldIsGone, LiveIsHeld, Renewing,
                              Fresh, At
  <1>17. CASE Restart
    <2>1. \A s \in Slots : ~Busy(s) /\ call[s] = Idle /\ call'[s] = Idle
      BY <1>17, RestartTyped DEF TInv, Fits, Busy, At
    <2>2. UNCHANGED <<rows, store>>
      BY <1>17 DEF Restart
    <2> QED
      BY <1>1, <2>1, <2>2, UiIsASlot, NoTokens
      DEF OneLive, OneRenews, OldIsKnown, OldIsGone, LiveIsHeld, Renewing, IsFresh, Fresh, At
  <1>18. CASE Tick \/ UNCHANGED vars
    BY <1>1, <1>18 DEF Tick, vars, OneLive, OneRenews, OldIsKnown, OldIsGone, LiveIsHeld,
                       Renewing, IsFresh, At
  <1> QED
    BY <1>3, <1>4, <1>5, <1>6, <1>7, <1>8, <1>9, <1>10, <1>11, <1>12, <1>13, <1>14, <1>15,
       <1>16, <1>17, <1>18, UiIsASlot DEF Next

----------------------------------------------------------------------------
(* The theorems. *)

IInv == TInv /\ Known /\ InTurnInv /\ KeptInv /\ LiveInv

\* The inductive invariant behind the theorems of the session.
THEOREM Invariance == Spec => []IInv
  <1>1. Init => IInv
    BY InitTyped, InitInTurn, InitKept, InitLive DEF IInv
  <1>2. IInv /\ [Next]_vars => IInv'
    BY NextTyped, NextKnown, NextInTurn, NextKept, NextLive DEF IInv
  <1> QED
    BY <1>1, <1>2, PTL DEF Spec

\* Clock, table, storage, screens, calls and tokens stay well-formed.
THEOREM TypeCorrect == Spec => []TypeOK
  <1>1. TInv => TypeOK
    BY DEF TInv
  <1> QED
    BY <1>1, Invariance, PTL DEF IInv

\* Unless a sign-in or sign-out overlapped a call, or the app was ended in the
\* middle of one, every token on the tablet is of the user whom the screens show
\* or who signs in.
THEOREM OneUserAlways == Spec => []OneUserAtATime
  <1>1. TInv /\ InTurnInv => OneUserAtATime
    <2> SUFFICES ASSUME TInv, InTurn
                 PROVE  \A tok \in ({store.access, store.refresh} \cup
                           UNION {{call[s].access, call[s].refresh} : s \in Slots}) \ {None} :
                          tok.user \in {shown, IF At(Ui, "idle") THEN None ELSE call[Ui].user}
      BY DEF InTurnInv, OneUserAtATime
    <2>1. CASE SignedOut
      <3>1. \A s \in Slots : call[s] = Idle
        BY <2>1 DEF SignedOut, Quiet, Busy, At, TInv, Fits, Slots
      <3> QED
        BY <2>1, <3>1, NoTokens DEF SignedOut
    <2>2. ASSUME NEW u \in Users, SignedIn(u) \/ SigningIn(u) \/ SigningOut(u)
          PROVE  /\ OneUser(u)
                 /\ u \in {shown, IF At(Ui, "idle") THEN None ELSE call[Ui].user}
      BY <2>2 DEF SignedIn, SigningIn, SigningOut, At
    <2> QED
      BY <2>1, <2>2 DEF InTurn, OneUser, Owns
  <1> QED
    BY <1>1, Invariance, PTL DEF IInv

\* With the same two exceptions no refresh token is stored while a sign-in waits
\* for its answer: a wrong PIN is not sent again.
THEOREM WrongPinAnswered == Spec => []WrongPinIsAnswered
  <1>1. TInv /\ InTurnInv => WrongPinIsAnswered
    BY UiIsASlot, NoTokens DEF InTurnInv, WrongPinIsAnswered, InTurn, SignedOut, SignedIn,
                               SigningIn, SigningOut, Busy, At, TInv, Fits
  <1> QED
    BY <1>1, Invariance, PTL DEF IInv

\* The stored refresh token is one the server knows, or is about to be replaced,
\* unless two calls held one token, one broke off, a statement failed or the app
\* was ended: a sign-out in the middle of a refresh is not enough to lose it.
THEOREM SessionAlwaysKept == Spec => []SessionKept
  <1>1. KeptInv => SessionKept
    BY DEF KeptInv, SessionKept, StoredIsGood
  <1> QED
    BY <1>1, Invariance, PTL DEF IInv

\* Without an accident a token the server takes is the one in storage, or that of
\* a call which is about to store it.
THEOREM NothingElseLives == Spec => []NothingElseIsLive
  <1>1. LiveInv => NothingElseIsLive
    BY DEF LiveInv, OneLive, LiveIsHeld, NothingElseIsLive, IsFresh, Fresh
  <1> QED
    BY <1>1, Invariance, PTL DEF IInv
=============================================================================
