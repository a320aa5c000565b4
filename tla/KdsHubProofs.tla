---------------------------- MODULE KdsHubProofs ----------------------------
(***************************************************************************)
(* Proofs about KdsHub, for any number of connections and tenants, any     *)
(* capacity of the buffers and any number of messages.                     *)
(***************************************************************************)
EXTENDS KdsHub, SequenceTheorems, TLAPS

Met(c) == conn[c] # "new"

\* What a goroutine holds: it walks over, and has in hand, only clients of its
\* own tenant that have connected, and only connected clients have a goroutine
\* or a closed channel.
HoldsPeers ==
    \A c \in Clients :
        /\ reader[c].pc # "none" => Met(c)
        /\ closed[c] => Met(c)
        /\ \A d \in reader[c].todo : d \in Peers(c) /\ Met(d)
        /\ reader[c].pc \in {"send", "drop"} =>
              reader[c].cur \in Peers(c) /\ Met(reader[c].cur)

IInv == TypeOK /\ OwnTenantOnly /\ RoomIsOpen /\ HoldsPeers
----------------------------------------------------------------------------
LEMMA InitInv == Init => IInv
  <1> SUFFICES ASSUME Init PROVE IInv
    OBVIOUS
  <1> USE HubAssumption DEF Init, AtRest
  <1>1. TypeOK
    BY DEF TypeOK, Reader
  <1>2. OwnTenantOnly
    BY DEF OwnTenantOnly
  <1>3. RoomIsOpen
    BY DEF RoomIsOpen
  <1>4. HoldsPeers
    BY DEF HoldsPeers
  <1> QED
    BY <1>1, <1>2, <1>3, <1>4 DEF IInv

\* The end of the process changes nothing else.
LEMMA CrashInv ==
  ASSUME IInv, NEW how \in {"map race", "sent on closed", "closed twice"}, Crash(how)
  PROVE  IInv'
  BY DEF IInv, TypeOK, OwnTenantOnly, RoomIsOpen, HoldsPeers, Met, Crash

\* A step that changes only goroutines, and leaves each with clients it may
\* hold, keeps the invariant.
LEMMA ReaderInv ==
  ASSUME IInv, NEW c \in Clients, NEW r \in Reader,
         reader' = [reader EXCEPT ![c] = r],
         UNCHANGED <<room, send, closed, conn, writer, wire, fate>>,
         heard' \in [Clients -> Nat],
         r.pc # "none" => Met(c),
         \A d \in r.todo : d \in Peers(c) /\ Met(d),
         r.pc \in {"send", "drop"} => r.cur \in Peers(c) /\ Met(r.cur)
  PROVE  IInv'
  <1>1. TypeOK'
    BY DEF IInv, TypeOK
  <1>2. OwnTenantOnly'
    BY DEF IInv, OwnTenantOnly
  <1>3. RoomIsOpen'
    BY DEF IInv, RoomIsOpen
  <1>4. HoldsPeers'
    BY DEF IInv, TypeOK, HoldsPeers, Met, Peers
  <1> QED
    BY <1>1, <1>2, <1>3, <1>4 DEF IInv
----------------------------------------------------------------------------
LEMMA RegisterInv ==
  ASSUME IInv, NEW c \in Clients, Register(c)
  PROVE  IInv'
  <1>1. CASE MapRace(c)
    BY <1>1, CrashInv DEF MapRace
  <1>2. ASSUME conn[c] = "new", Enter(c), conn' = [conn EXCEPT ![c] = "up"],
               writer' = [writer EXCEPT ![c] = "run"],
               NEW seen \in SUBSET Walking(c),
               reader' = [d \in Clients |->
                            IF d = c THEN AtRest(c, "read")
                            ELSE IF d \in seen THEN [reader[d] EXCEPT !.todo = @ \cup {c}]
                            ELSE reader[d]],
               UNCHANGED <<send, closed, wire, heard, fate>>
        PROVE  IInv'
    <2> USE HubAssumption
    <2>1. TypeOK'
      <3>1. reader' \in [Clients -> Reader]
        <4>1. \A r \in Reader : [r EXCEPT !.todo = @ \cup {c}] \in Reader
          BY DEF Reader
        <4>2. AtRest(c, "read") \in Reader
          BY DEF AtRest, Reader
        <4>3. reader \in [Clients -> Reader]
          BY DEF IInv, TypeOK
        <4> QED
          BY <1>2, <4>1, <4>2, <4>3
      <3>2. room' \in [Tenants -> SUBSET Clients]
        BY <1>2 DEF IInv, TypeOK, Enter
      <3> QED
        BY <1>2, <3>1, <3>2 DEF IInv, TypeOK
    <2>2. OwnTenantOnly'
      BY <1>2 DEF IInv, OwnTenantOnly
    <2>3. RoomIsOpen'
      BY <1>2 DEF IInv, TypeOK, RoomIsOpen, HoldsPeers, Met, Enter
    <2>4. HoldsPeers'
      <3>1. \A d \in seen : c \in Peers(d)
        BY <1>2 DEF Walking, Peers
      <3>2. \A d \in Clients : conn[d] # "new" => conn'[d] # "new"
        BY <1>2 DEF IInv, TypeOK
      <3>3. conn'[c] # "new"
        BY <1>2 DEF IInv, TypeOK
      <3> SUFFICES ASSUME NEW d \in Clients
                   PROVE  /\ reader'[d].pc # "none" => conn'[d] # "new"
                          /\ closed'[d] => conn'[d] # "new"
                          /\ \A e \in reader'[d].todo : e \in Peers(d) /\ conn'[e] # "new"
                          /\ reader'[d].pc \in {"send", "drop"} =>
                                reader'[d].cur \in Peers(d) /\ conn'[reader'[d].cur] # "new"
        BY DEF HoldsPeers, Peers, Met
      <3>4. reader[d] \in Reader /\ closed'[d] = closed[d]
        BY <1>2 DEF IInv, TypeOK
      <3>5. /\ reader[d].pc # "none" => conn[d] # "new"
            /\ closed[d] => conn[d] # "new"
            /\ \A e \in reader[d].todo : e \in Peers(d) /\ conn[e] # "new"
            /\ reader[d].pc \in {"send", "drop"} =>
                  reader[d].cur \in Peers(d) /\ conn[reader[d].cur] # "new"
        BY DEF IInv, HoldsPeers, Met
      <3>6. CASE d = c
        BY <1>2, <3>3, <3>4, <3>5, <3>6 DEF AtRest
      <3>7. CASE d # c
        <4>1. /\ reader'[d].pc = reader[d].pc /\ reader'[d].cur = reader[d].cur
              /\ \A e \in reader'[d].todo : e \in reader[d].todo \/ (e = c /\ d \in seen)
          BY <1>2, <3>4, <3>7 DEF Reader
        <4>2. reader[d].todo \subseteq Clients /\ reader[d].cur \in Clients
          BY <3>4 DEF Reader
        <4> QED
          BY <3>1, <3>2, <3>3, <3>4, <3>5, <4>1, <4>2
      <3> QED
        BY <3>6, <3>7
    <2> QED
      BY <2>1, <2>2, <2>3, <2>4 DEF IInv
  <1> QED
    BY <1>1, <1>2 DEF Register

\* Unregister, by a readPump that goes on as next.
LEMMA UnregisterInv ==
  ASSUME IInv, NEW a \in Clients, NEW d \in Clients, Met(d),
         NEW next \in Reader, Unregister(a, d, next),
         next.pc # "none" => Met(a),
         \A e \in next.todo : e \in Peers(a) /\ Met(e),
         next.pc \notin {"send", "drop"}
  PROVE  IInv'
  <1>1. CASE room[Tenant[d]] = {}
    BY <1>1, ReaderInv DEF Unregister, IInv, TypeOK
  <1>2. CASE MapRace(a)
    BY <1>2, CrashInv DEF MapRace
  <1>3. CASE Crash("closed twice")
    BY <1>3, CrashInv
  <1>4. ASSUME ~closed[d], Exit(d), closed' = [closed EXCEPT ![d] = TRUE],
               reader' = [x \in Clients |->
                            Without(IF x = a THEN next ELSE reader[x], d,
                                    x \in Peers(d) /\ room'[Tenant[d]] = {})],
               UNCHANGED <<send, conn, writer, wire, heard, fate>>
        PROVE  IInv'
    <2> USE HubAssumption
    <2>1. TypeOK'
      <3>1. ASSUME NEW r \in Reader, NEW b \in BOOLEAN
            PROVE  Without(r, d, b) \in Reader
        BY DEF Without, Reader
      <3>2. reader' \in [Clients -> Reader]
        BY <1>4, <3>1 DEF IInv, TypeOK
      <3>3. room' \in [Tenants -> SUBSET Clients]
        BY <1>4 DEF IInv, TypeOK, Exit
      <3> QED
        BY <1>4, <3>2, <3>3 DEF IInv, TypeOK
    <2>2. OwnTenantOnly'
      BY <1>4 DEF IInv, OwnTenantOnly
    <2>3. RoomIsOpen'
      <3> SUFFICES ASSUME NEW c \in Clients, NEW t \in Tenants
                   PROVE  c \in room'[t]
                          <=> t = Tenant[c] /\ conn'[c] # "new" /\ ~closed'[c]
        BY DEF RoomIsOpen
      <3>1. c \in room[t] <=> t = Tenant[c] /\ conn[c] # "new" /\ ~closed[c]
        BY DEF IInv, RoomIsOpen
      <3>2. c \in room'[t] <=> c \in room[t] /\ (t = Tenant[d] => c # d)
        BY <1>4 DEF Exit, IInv, TypeOK
      <3>3. c # d => closed'[c] = closed[c]
        BY <1>4 DEF IInv, TypeOK
      <3>4. closed'[d]
        BY <1>4 DEF IInv, TypeOK
      <3> QED
        BY <1>4, <3>1, <3>2, <3>3, <3>4
    <2>4. HoldsPeers'
      BY <1>4 DEF IInv, TypeOK, HoldsPeers, Met, Peers, Without
    <2> QED
      BY <2>1, <2>2, <2>3, <2>4 DEF IInv
  <1> QED
    BY <1>1, <1>2, <1>3, <1>4 DEF Unregister
----------------------------------------------------------------------------
LEMMA HearInv ==
  ASSUME IInv, NEW c \in Clients, Hear(c)
  PROVE  IInv'
  <1> DEFINE r == [pc |-> "walk", todo |-> room[Tenant[c]], cur |-> c,
                   live |-> room[Tenant[c]] # {}]
  <1>1. r \in Reader
    BY HubAssumption DEF IInv, TypeOK, Reader
  <1>2. reader' = [reader EXCEPT ![c] = r] /\ Met(c)
    BY DEF Hear, IInv, HoldsPeers
  <1>3. \A d \in room[Tenant[c]] : d \in Peers(c) /\ Met(d)
    BY HubAssumption DEF IInv, TypeOK, RoomIsOpen, Peers, Met
  <1>4. heard' \in [Clients -> Nat]
    <2>1. heard \in [Clients -> Nat]
      BY DEF IInv, TypeOK
    <2> QED
      BY <2>1 DEF Hear
  <1> QED
    BY <1>1, <1>2, <1>3, <1>4, ReaderInv DEF Hear

LEMMA WalkInv ==
  ASSUME IInv, NEW c \in Clients, Walk(c)
  PROVE  IInv'
  <1>0. reader[c] \in Reader
    BY DEF IInv, TypeOK
  <1>1. ASSUME NEW d \in reader[c].todo,
               reader' = [reader EXCEPT ![c] = InHand(c, d)]
        PROVE  IInv'
    <2>1. /\ InHand(c, d) \in Reader /\ InHand(c, d).cur = d
          /\ InHand(c, d).todo \subseteq reader[c].todo
      BY <1>0, <1>1 DEF Reader, InHand
    <2>3. Met(c) /\ \A e \in reader[c].todo : e \in Peers(c) /\ Met(e)
      BY DEF IInv, HoldsPeers, Walk
    <2> QED
      BY <1>1, <2>1, <2>3, ReaderInv DEF Walk, IInv, TypeOK
  <1>2. CASE reader' = [reader EXCEPT ![c] = AtRest(c, "read")]
    <2>1. AtRest(c, "read") \in Reader /\ AtRest(c, "read").todo = {}
          /\ AtRest(c, "read").pc = "read" /\ Met(c)
      BY DEF AtRest, Reader, Walk, IInv, HoldsPeers
    <2> QED
      BY <1>2, <2>1, ReaderInv DEF Walk, IInv, TypeOK
  <1> QED
    BY <1>1, <1>2 DEF Walk

\* A goroutine that keeps what it holds and goes on at another point.
LEMMA GoOnInv ==
  ASSUME IInv, NEW c \in Clients,
         NEW pc \in {"walk", "drop", "leave"},
         reader[c].pc # "none",
         pc = "drop" => reader[c].pc = "send",
         reader' = [reader EXCEPT ![c].pc = pc],
         UNCHANGED <<room, send, closed, conn, writer, wire, heard, fate>>
  PROVE  IInv'
  <1> DEFINE r == [reader[c] EXCEPT !.pc = pc]
  <1>1. /\ r \in Reader /\ r.pc = pc
        /\ r.todo = reader[c].todo /\ r.cur = reader[c].cur
    BY DEF IInv, TypeOK, Reader
  <1>2. reader' = [reader EXCEPT ![c] = r]
    BY DEF IInv, TypeOK
  <1> HIDE DEF r
  <1>3. /\ Met(c)
        /\ \A d \in reader[c].todo : d \in Peers(c) /\ Met(d)
        /\ r.pc \in {"send", "drop"} => reader[c].cur \in Peers(c) /\ Met(reader[c].cur)
    BY <1>1 DEF IInv, HoldsPeers
  <1>4. heard' \in [Clients -> Nat]
    BY DEF IInv, TypeOK
  <1> QED
    BY <1>1, <1>2, <1>3, <1>4, ReaderInv

LEMMA SendInv ==
  ASSUME IInv, NEW c \in Clients, Send(c)
  PROVE  IInv'
  <1> DEFINE d == reader[c].cur
             m == [from |-> c, n |-> heard[c]]
  <1>1. CASE Crash("sent on closed")
    BY <1>1, CrashInv
  <1>2. ASSUME HasSpace(d), send' = [send EXCEPT ![d] = Append(@, m)],
               reader' = [reader EXCEPT ![c].pc = "walk"],
               UNCHANGED <<room, closed, conn, writer, wire, heard, fate>>
        PROVE  IInv'
    <2>0. d \in Clients /\ Tenant[d] = Tenant[c] /\ reader[c].pc = "send"
      BY DEF Send, IInv, HoldsPeers, Peers
    <2>1. TypeOK'
      <3>1. m \in Msg
        BY DEF Msg, IInv, TypeOK
      <3>2. Append(send[d], m) \in Seq(Msg) /\ Len(Append(send[d], m)) <= Cap
        <4>1. send[d] \in Seq(Msg) /\ Len(send[d]) < Cap /\ Cap \in Nat
          BY <1>2, <2>0, HubAssumption DEF IInv, TypeOK, HasSpace
        <4> HIDE DEF d, m
        <4> QED
          BY <3>1, <4>1
      <3>3. /\ send' \in [Clients -> Seq(Msg)]
            /\ \A e \in Clients : Len(send'[e]) <= Cap
        BY <1>2, <2>0, <3>2 DEF IInv, TypeOK
      <3>4. reader' \in [Clients -> Reader]
        BY <1>2 DEF IInv, TypeOK, Reader
      <3> QED
        BY <1>2, <3>3, <3>4 DEF IInv, TypeOK
    <2>2. OwnTenantOnly'
      <3> SUFFICES ASSUME NEW e \in Clients
                   PROVE  send'[e] \in Seq([from: Peers(e), n: Nat])
                          /\ wire'[e] \in Seq([from: Peers(e), n: Nat])
        BY DEF OwnTenantOnly, Peers
      <3>1. /\ send[e] \in Seq([from: Peers(e), n: Nat])
            /\ wire[e] \in Seq([from: Peers(e), n: Nat])
        BY DEF IInv, OwnTenantOnly
      <3>2. e = d => m \in [from: Peers(e), n: Nat]
        BY <2>0 DEF Peers, IInv, TypeOK
      <3>3. /\ send'[e] = IF e = d THEN Append(send[e], m) ELSE send[e]
            /\ wire'[e] = wire[e]
        BY <1>2, <2>0 DEF IInv, TypeOK
      <3> DEFINE M == [from: Peers(e), n: Nat]
      <3>4. send[e] \in Seq(M) /\ wire[e] \in Seq(M) /\ (e = d => m \in M)
        BY <3>1, <3>2
      <3> HIDE DEF m, d, M
      <3>5. send'[e] \in Seq(M) /\ wire'[e] \in Seq(M)
        BY <3>3, <3>4
      <3> QED
        BY <3>5 DEF M
    <2>3. RoomIsOpen'
      BY <1>2 DEF IInv, RoomIsOpen
    <2>4. HoldsPeers'
      BY <1>2, <2>0 DEF IInv, TypeOK, Reader, HoldsPeers, Met, Peers
    <2> QED
      BY <2>1, <2>2, <2>3, <2>4 DEF IInv
  <1>3. ASSUME reader' = [reader EXCEPT ![c].pc = "drop"],
               UNCHANGED <<room, send, closed, conn, writer, wire, heard, fate>>
        PROVE  IInv'
    BY <1>3, GoOnInv DEF Send
  <1> QED
    BY <1>1, <1>2, <1>3 DEF Send

LEMMA DropInv ==
  ASSUME IInv, NEW c \in Clients, Drop(c)
  PROVE  IInv'
  <1> DEFINE r == [reader[c] EXCEPT !.pc = "walk"]
  <1>1. r \in Reader /\ r.pc = "walk" /\ r.todo = reader[c].todo
    <2>1. reader[c] \in Reader
      BY DEF IInv, TypeOK
    <2> QED
      BY <2>1 DEF Reader
  <1>2. /\ Met(c)
        /\ reader[c].cur \in Clients /\ Met(reader[c].cur)
        /\ \A e \in reader[c].todo : e \in Peers(c) /\ Met(e)
    BY DEF Drop, IInv, HoldsPeers, Peers
  <1>3. Unregister(c, reader[c].cur, r)
    BY DEF Drop, DropClient
  <1> HIDE DEF r
  <1> QED
    BY <1>1, <1>2, <1>3, UnregisterInv

LEMMA LeaveInv ==
  ASSUME IInv, NEW c \in Clients, Leave(c)
  PROVE  IInv'
  <1>1. AtRest(c, "done") \in Reader /\ AtRest(c, "done").todo = {}
        /\ AtRest(c, "done").pc = "done" /\ Met(c)
    BY DEF AtRest, Reader, Leave, IInv, HoldsPeers
  <1> QED
    BY <1>1, UnregisterInv DEF Leave, LeaveRoom

LEMMA WriteInv ==
  ASSUME IInv, NEW c \in Clients, Write(c)
  PROVE  IInv'
  <1>1. TypeOK'
    <2>1. /\ send[c] \in Seq(Msg) /\ send[c] # <<>> /\ Len(send[c]) <= Cap
          /\ wire[c] \in Seq(Msg)
      BY DEF Write, IInv, TypeOK
    <2>2. /\ Tail(send[c]) \in Seq(Msg) /\ Len(Tail(send[c])) <= Cap
          /\ Append(wire[c], Head(send[c])) \in Seq(Msg)
      BY <2>1, HubAssumption
    <2> QED
      BY <2>2 DEF Write, IInv, TypeOK
  <1>2. OwnTenantOnly'
    <2> SUFFICES ASSUME NEW e \in Clients
                 PROVE  send'[e] \in Seq([from: Peers(e), n: Nat])
                        /\ wire'[e] \in Seq([from: Peers(e), n: Nat])
      BY DEF OwnTenantOnly, Peers
    <2> DEFINE M == [from: Peers(e), n: Nat]
    <2>1. send[e] \in Seq(M) /\ wire[e] \in Seq(M)
      BY DEF IInv, OwnTenantOnly
    <2> HIDE DEF M
    <2>2. e = c => Tail(send[e]) \in Seq(M) /\ Append(wire[e], Head(send[e])) \in Seq(M)
      BY <2>1 DEF Write
    <2>3. send'[e] \in Seq(M) /\ wire'[e] \in Seq(M)
      BY <2>1, <2>2 DEF Write, IInv, TypeOK
    <2> QED
      BY <2>3 DEF M
  <1>3. RoomIsOpen'
    BY DEF Write, IInv, RoomIsOpen
  <1>4. HoldsPeers'
    BY DEF Write, IInv, HoldsPeers, Met
  <1> QED
    BY <1>1, <1>2, <1>3, <1>4 DEF IInv

\* The network connection goes down, noticed by the writer or not.
LEMMA DownInv ==
  ASSUME IInv, NEW c \in Clients, conn[c] # "new",
         conn' = [conn EXCEPT ![c] = "down"],
         writer' \in [Clients -> {"none", "run", "done"}],
         UNCHANGED <<room, send, closed, reader, wire, heard, fate>>
  PROVE  IInv'
  <1>1. TypeOK'
    BY DEF IInv, TypeOK
  <1>2. OwnTenantOnly'
    BY DEF IInv, OwnTenantOnly
  <1>3. RoomIsOpen'
    BY DEF IInv, TypeOK, RoomIsOpen
  <1>4. HoldsPeers'
    <2>1. \A d \in Clients : Met(d) => Met(d)'
      BY DEF IInv, TypeOK, Met
    <2> QED
      BY <2>1 DEF IInv, TypeOK, Reader, HoldsPeers, Peers
  <1> QED
    BY <1>1, <1>2, <1>3, <1>4 DEF IInv
----------------------------------------------------------------------------
LEMMA NextInv == IInv /\ [Next]_vars => IInv'
  <1> SUFFICES ASSUME IInv, [Next]_vars PROVE IInv'
    OBVIOUS
  <1>1. CASE UNCHANGED vars
    BY <1>1 DEF vars, IInv, TypeOK, OwnTenantOnly, RoomIsOpen, HoldsPeers, Met
  <1>2. ASSUME NEW c \in Clients,
               Register(c) \/ Hear(c) \/ ReaderStep(c) \/ WriterStep(c) \/ Disconnect(c)
        PROVE  IInv'
    <2>1. CASE Register(c)
      BY <2>1, RegisterInv
    <2>2. CASE Hear(c)
      BY <2>2, HearInv
    <2>3. CASE Walk(c)
      BY <2>3, WalkInv
    <2>4. CASE Send(c)
      BY <2>4, SendInv
    <2>5. CASE Drop(c)
      BY <2>5, DropInv
    <2>6. CASE ReadError(c)
      BY <2>6, GoOnInv DEF ReadError
    <2>7. CASE Leave(c)
      BY <2>7, LeaveInv
    <2>8. CASE Write(c)
      BY <2>8, WriteInv
    <2>9. CASE WriterStop(c)
      BY <2>9, DownInv DEF WriterStop, IInv, TypeOK, HoldsPeers, Met
    <2>10. CASE Disconnect(c)
      BY <2>10, DownInv DEF Disconnect, IInv, TypeOK
    <2> QED
      BY <1>2, <2>1, <2>2, <2>3, <2>4, <2>5, <2>6, <2>7, <2>8, <2>9, <2>10
         DEF ReaderStep, WriterStep
  <1> QED
    BY <1>1, <1>2 DEF Next
----------------------------------------------------------------------------
(***************************************************************************)
(* No gaps.  What a peer has been sent goes on with what is queued for it. *)
(* As long as its writer runs, this stream is without gaps, and its last   *)
(* message of a device is the last the device sent; the one before, where  *)
(* the device's walk has yet to come to the peer.                          *)
(***************************************************************************)
Stream(c) == wire[c] \o send[c]

\* Clients a walk has yet to deal with.
Due(r) == {c \in Clients : c \in r.todo \/ (r.pc \in {"send", "drop"} /\ c = r.cur)}

\* A walk comes to a client once, and a goroutine that does not walk holds none.
Orderly ==
    \A c \in Clients :
        /\ reader[c].pc \notin {"walk", "send", "drop"} => reader[c].todo = {} /\ ~reader[c].live
        /\ reader[c].pc \in {"send", "drop"} => reader[c].cur \notin reader[c].todo
        /\ conn[c] = "new" => writer[c] = "none" /\ wire[c] = <<>> /\ send[c] = <<>>

IsLast(s, i) == \A j \in 1 .. Len(s) : i < j => s[j].from # s[i].from

Newest(c, d) == IF c \in Due(reader[d]) THEN heard[d] - 1 ELSE heard[d]
UpToDate(c) ==
    \A i \in 1 .. Len(Stream(c)) :
        IsLast(Stream(c), i) => Stream(c)[i].n = Newest(c, Stream(c)[i].from)

StreamInv(c) ==
    /\ InStep(wire[c])
    /\ writer[c] = "run" => InStep(Stream(c))
    /\ writer[c] = "run" /\ ~closed[c] => UpToDate(c)

GInv == IInv /\ Orderly /\ \A c \in Clients : StreamInv(c)
----------------------------------------------------------------------------
(* Concatenation, from its first part on, at its end, and moved along. *)

LEMMA ConcatStart ==
  ASSUME NEW S, NEW s \in Seq(S), NEW t \in Seq(S)
  PROVE  /\ s \o t \in Seq(S)
         /\ Len(s) \in Nat /\ Len(t) \in Nat /\ Len(s \o t) = Len(s) + Len(t)
         /\ \A i \in 1 .. Len(s) : (s \o t)[i] = s[i]
  <1>1. Len(s) \in Nat /\ Len(t) \in Nat
    BY LenProperties
  <1>2. ASSUME NEW m \in Nat, NEW n \in Nat, NEW i \in 1 .. m
        PROVE  i \in 1 .. m + n /\ i <= m
    BY <1>2
  <1>3. \A i \in 1 .. Len(s) : i \in 1 .. Len(s) + Len(t) /\ i <= Len(s)
    BY <1>1, <1>2
  <1> QED
    BY <1>1, <1>3, ConcatProperties

LEMMA ConcatEnd ==
  ASSUME NEW S, NEW s \in Seq(S), NEW t \in Seq(S), NEW m \in S
  PROVE  s \o Append(t, m) = Append(s \o t, m)
  <1>1. <<m>> \in Seq(S) /\ s \o t \in Seq(S)
    BY ConcatProperties
  <1>2. Append(t, m) = t \o <<m>> /\ Append(s \o t, m) = (s \o t) \o <<m>>
    BY <1>1, AppendIsConcat
  <1> QED
    BY <1>1, <1>2, ConcatAssociative

LEMMA ConcatHead ==
  ASSUME NEW S, NEW s \in Seq(S), NEW t \in Seq(S), t # <<>>
  PROVE  Append(s, Head(t)) \o Tail(t) = s \o t
  <1>1. Head(t) \in S /\ Tail(t) \in Seq(S) /\ <<Head(t)>> \in Seq(S)
    BY HeadTailProperties
  <1>2. Append(s, Head(t)) = s \o <<Head(t)>>
    BY <1>1, AppendIsConcat
  <1>3. <<Head(t)>> \o Tail(t) = t
    <2>1. Len(t) \in Nat \ {0} /\ Len(Tail(t)) = Len(t) - 1
          /\ \A i \in 1 .. Len(Tail(t)) : Tail(t)[i] = t[i + 1]
      BY EmptySeq, HeadTailProperties
    <2>2. /\ <<Head(t)>> \o Tail(t) \in Seq(S)
          /\ Len(<<Head(t)>> \o Tail(t)) = Len(t)
          /\ \A i \in 1 .. Len(t) : (<<Head(t)>> \o Tail(t))[i] =
                IF i <= 1 THEN <<Head(t)>>[i] ELSE Tail(t)[i - 1]
      <3>1. Len(<<Head(t)>>) = 1
        OBVIOUS
      <3> QED
        BY <1>1, <2>1, <3>1, ConcatProperties
    <2>3. Head(t) = t[1]
      BY <2>1
    <2>4. ASSUME NEW i \in 1 .. Len(t) PROVE (<<Head(t)>> \o Tail(t))[i] = t[i]
      <3>1. CASE i = 1
        BY <2>2, <2>3, <3>1
      <3>2. CASE i # 1
        <4>1. i - 1 \in 1 .. Len(Tail(t)) /\ ~(i <= 1) /\ (i - 1) + 1 = i
          BY <2>1, <3>2
        <4> QED
          BY <2>1, <2>2, <4>1
      <3> QED
        BY <3>1, <3>2
    <2> QED
      BY <2>2, <2>4, SeqEqual
  <1> QED
    BY <1>1, <1>2, <1>3, ConcatAssociative

LEMMA StreamShape ==
  ASSUME TypeOK, NEW c \in Clients
  PROVE  /\ wire[c] \in Seq(Msg) /\ send[c] \in Seq(Msg) /\ Stream(c) \in Seq(Msg)
         /\ Len(wire[c]) \in Nat /\ Len(send[c]) \in Nat
         /\ Len(Stream(c)) = Len(wire[c]) + Len(send[c])
         /\ \A i \in 1 .. Len(wire[c]) : Stream(c)[i] = wire[c][i]
  <1>1. wire[c] \in Seq(Msg) /\ send[c] \in Seq(Msg)
    BY DEF TypeOK
  <1> QED
    BY <1>1, ConcatStart DEF Stream

\* The messages of a stream come from peers.
LEMMA FromPeers ==
  ASSUME TypeOK, OwnTenantOnly, NEW c \in Clients, NEW i \in 1 .. Len(Stream(c))
  PROVE  /\ Stream(c)[i].from \in Peers(c)
         /\ Stream(c)[i].from \in Clients /\ Stream(c)[i].n \in Nat
  <1> DEFINE M == [from: Peers(c), n: Nat]
  <1>1. send[c] \in Seq(M) /\ wire[c] \in Seq(M)
    BY DEF OwnTenantOnly
  <1> HIDE DEF M
  <1>2. Stream(c) \in Seq(M)
    BY <1>1, ConcatProperties DEF Stream
  <1>3. Stream(c)[i] \in M
    BY <1>2, ElementOfSeq
  <1> QED
    BY <1>3 DEF M, Peers

\* A stream without gaps is so up to any point.
LEMMA PrefixInStep ==
  ASSUME NEW s, NEW t, Len(s) \in Nat, Len(t) \in Nat, Len(s) <= Len(t),
         \A i \in 1 .. Len(s) : t[i] = s[i], InStep(t)
  PROVE  InStep(s)
  <1> SUFFICES ASSUME NEW i \in 1 .. Len(s), NEW j \in 1 .. Len(s), i < j, s[i].from = s[j].from,
                      \A k \in i + 1 .. j - 1 : s[k].from # s[j].from
               PROVE  s[j].n = s[i].n + 1
    BY DEF InStep
  <1>1. i \in 1 .. Len(t) /\ j \in 1 .. Len(t) /\ t[i] = s[i] /\ t[j] = s[j]
    OBVIOUS
  <1>2. \A k \in i + 1 .. j - 1 : t[k] = s[k]
    OBVIOUS
  <1> QED
    BY <1>1, <1>2 DEF InStep

\* The next message of a device goes to the end of a stream.
LEMMA AppendInStep ==
  ASSUME NEW s \in Seq(Msg), NEW m \in Msg, InStep(s),
         \A i \in 1 .. Len(s) : s[i].from = m.from /\ IsLast(s, i) => m.n = s[i].n + 1
  PROVE  InStep(Append(s, m))
  <1> DEFINE t == Append(s, m)
  <1>1. /\ Len(t) = Len(s) + 1 /\ t[Len(s) + 1] = m /\ Len(s) \in Nat
        /\ \A i \in 1 .. Len(s) : t[i] = s[i]
    BY AppendProperties, LenProperties
  <1> HIDE DEF t
  <1> SUFFICES ASSUME NEW i \in 1 .. Len(t), NEW j \in 1 .. Len(t), i < j, t[i].from = t[j].from,
                      \A k \in i + 1 .. j - 1 : t[k].from # t[j].from
               PROVE  t[j].n = t[i].n + 1
    BY DEF InStep, t
  <1>2. /\ i \in 1 .. Len(s) /\ t[i] = s[i]
        /\ \A k \in i + 1 .. j - 1 : k \in 1 .. Len(s) /\ t[k] = s[k]
    BY <1>1
  <1>3. CASE j \in 1 .. Len(s)
    BY <1>1, <1>2, <1>3 DEF InStep
  <1>4. CASE j = Len(s) + 1
    <2>1. IsLast(s, i)
      BY <1>1, <1>2, <1>4 DEF IsLast
    <2> QED
      BY <1>1, <1>2, <1>4, <2>1
  <1> QED
    BY <1>1, <1>3, <1>4
----------------------------------------------------------------------------
(* Streams and walks that a step leaves alone. *)

LEMMA SameStream ==
  ASSUME IInv, NEW c \in Clients, StreamInv(c),
         wire'[c] = wire[c], send'[c] = send[c],
         writer'[c] = "run" => writer[c] = "run",
         ~closed'[c] => ~closed[c],
         ~closed'[c] /\ writer'[c] = "run" => \A d \in Peers(c) : Newest(c, d)' = Newest(c, d)
  PROVE  StreamInv(c)'
  <1>1. Stream(c)' = Stream(c)
    BY DEF Stream
  <1>2. \A i \in 1 .. Len(Stream(c)) : Stream(c)[i].from \in Peers(c)
    BY FromPeers DEF IInv
  <1>3. ASSUME ~closed'[c], writer'[c] = "run", UpToDate(c) PROVE UpToDate(c)'
    <2> SUFFICES ASSUME NEW i \in 1 .. Len(Stream(c)), IsLast(Stream(c), i)
                 PROVE  Stream(c)[i].n = Newest(c, Stream(c)[i].from)'
      BY <1>1 DEF UpToDate
    <2>1. PICK d \in Peers(c) : d = Stream(c)[i].from
      BY <1>2
    <2>2. Stream(c)[i].n = Newest(c, d)
      BY <1>3, <2>1 DEF UpToDate
    <2>3. Newest(c, d)' = Newest(c, Stream(c)[i].from)'
      BY <1>1, <2>1
    <2> QED
      BY <1>3, <2>2, <2>3
  <1> QED
    BY <1>1, <1>3 DEF StreamInv

LEMMA GapCrash ==
  ASSUME GInv, NEW how, Crash(how)
  PROVE  Orderly' /\ \A c \in Clients : StreamInv(c)'
  <1>1. Orderly'
    BY DEF GInv, Orderly, Crash
  <1>2. ASSUME NEW c \in Clients PROVE StreamInv(c)'
    <2>1. \A d : Newest(c, d)' = Newest(c, d)
      BY DEF Crash, Newest, Due
    <2> QED
      BY <2>1, SameStream DEF GInv, Crash
  <1> QED
    BY <1>1, <1>2

LEMMA GapRegister ==
  ASSUME GInv, NEW c \in Clients, Register(c)
  PROVE  Orderly' /\ \A d \in Clients : StreamInv(d)'
  <1>1. CASE MapRace(c)
    BY <1>1, GapCrash DEF MapRace
  <1>2. ASSUME conn[c] = "new", conn' = [conn EXCEPT ![c] = "up"],
               writer' = [writer EXCEPT ![c] = "run"],
               NEW seen \in SUBSET Walking(c),
               reader' = [d \in Clients |->
                            IF d = c THEN AtRest(c, "read")
                            ELSE IF d \in seen THEN [reader[d] EXCEPT !.todo = @ \cup {c}]
                            ELSE reader[d]],
               UNCHANGED <<send, closed, wire, heard, fate>>
        PROVE  Orderly' /\ \A d \in Clients : StreamInv(d)'
    <2> USE DEF GInv, IInv
    <2>1. wire[c] = <<>> /\ send[c] = <<>>
      BY <1>2 DEF Orderly
    <2>2. reader[c].pc = "none" /\ reader[c].todo = {}
      BY <1>2 DEF HoldsPeers, Met, Orderly
    <2>3. ASSUME NEW d \in Clients
          PROVE  /\ reader'[d].pc = (IF d = c THEN "read" ELSE reader[d].pc)
                 /\ d # c => reader'[d].cur = reader[d].cur /\ reader'[d].live = reader[d].live
                 /\ reader'[d].todo = reader[d].todo
                       \/ /\ reader'[d].todo = reader[d].todo \cup {c} /\ d # c
                          /\ reader[d].live
                 /\ d = c => ~reader'[d].live
      <3>1. reader[d] \in Reader
        BY DEF TypeOK
      <3>2. CASE d = c
        BY <1>2, <2>2, <3>2 DEF AtRest
      <3>3. CASE d # c /\ d \in seen
        BY <1>2, <3>1, <3>3 DEF Reader, Walking
      <3>4. CASE d # c /\ d \notin seen
        BY <1>2, <3>4
      <3> QED
        BY <3>2, <3>3, <3>4
    <2>4. Orderly'
      <3>1. ASSUME NEW d \in Clients PROVE reader[d].pc \in {"send", "drop"} => reader[d].cur # c
        BY <1>2 DEF HoldsPeers, Met
      <3>2. \A d \in Clients : conn'[d] = "new" =>
               conn[d] = "new" /\ d # c /\ writer'[d] = writer[d]
        BY <1>2 DEF TypeOK
      <3>3. ASSUME NEW d \in Clients
            PROVE  /\ reader'[d].pc \notin {"walk", "send", "drop"} =>
                         reader'[d].todo = {} /\ ~reader'[d].live
                   /\ reader'[d].pc \in {"send", "drop"} => reader'[d].cur \notin reader'[d].todo
        <4>1. CASE d = c
          BY <2>2, <2>3, <4>1
        <4>2. CASE d # c
          <5>1. reader'[d].pc = reader[d].pc /\ reader'[d].cur = reader[d].cur
                /\ reader'[d].live = reader[d].live
            BY <2>3, <4>2
          <5>2. reader'[d].todo = reader[d].todo
                   \/ (reader[d].live /\ reader'[d].todo = reader[d].todo \cup {c})
            BY <2>3
          <5>3. /\ reader[d].pc \notin {"walk", "send", "drop"} =>
                      reader[d].todo = {} /\ ~reader[d].live
                /\ reader[d].pc \in {"send", "drop"} => reader[d].cur \notin reader[d].todo
            BY DEF Orderly
          <5> QED
            BY <3>1, <5>1, <5>2, <5>3
        <4> QED
          BY <4>1, <4>2
      <3>4. ASSUME NEW d \in Clients, conn'[d] = "new"
            PROVE  writer'[d] = "none" /\ wire'[d] = <<>> /\ send'[d] = <<>>
        BY <1>2, <3>2, <3>4 DEF Orderly
      <3> QED
        BY <3>3, <3>4 DEF Orderly
    <2>5. ASSUME NEW d \in Clients PROVE StreamInv(d)'
      <3>1. CASE d = c
        <4>1. wire'[c] = <<>> /\ Stream(c)' = <<>>
          BY <1>2, <2>1 DEF Stream
        <4> QED
          BY <3>1, <4>1 DEF StreamInv, InStep, UpToDate
      <3>2. CASE d # c
        <4>1. ASSUME NEW e \in Clients PROVE Newest(d, e)' = Newest(d, e)
          <5>1. d \in Due(reader'[e]) <=> d \in Due(reader[e])
            BY <2>2, <2>3, <3>2 DEF Due
          <5> QED
            BY <1>2, <5>1 DEF Newest
        <4>2. \A e \in Peers(d) : e \in Clients
          BY DEF Peers
        <4>3. writer'[d] = writer[d]
          BY <1>2, <3>2 DEF TypeOK
        <4> QED
          BY <1>2, <4>1, <4>2, <4>3, SameStream
      <3> QED
        BY <3>1, <3>2
    <2> QED
      BY <2>4, <2>5
  <1> QED
    BY <1>1, <1>2 DEF Register

LEMMA ReaderGap ==
  ASSUME GInv, NEW c \in Clients, NEW r \in Reader,
         reader' = [reader EXCEPT ![c] = r],
         UNCHANGED <<send, closed, conn, writer, wire, heard>>,
         r.pc \notin {"walk", "send", "drop"} => r.todo = {} /\ ~r.live,
         r.pc \in {"send", "drop"} => r.cur \notin r.todo,
         \A d \in Peers(c) : ~closed[d] => (d \in Due(r) <=> d \in Due(reader[c]))
  PROVE  Orderly' /\ \A d \in Clients : StreamInv(d)'
  <1> USE DEF GInv, IInv
  <1>1. reader'[c] = r /\ \A d \in Clients : d # c => reader'[d] = reader[d]
    BY DEF TypeOK
  <1>2. Orderly'
    BY <1>1 DEF Orderly
  <1>3. ASSUME NEW d \in Clients PROVE StreamInv(d)'
    <2>1. ASSUME NEW e \in Peers(d), ~closed[d] PROVE Newest(d, e)' = Newest(d, e)
      <3>1. e \in Clients /\ (e = c => d \in Peers(c))
        BY DEF Peers
      <3>2. d \in Due(reader'[e]) <=> d \in Due(reader[e])
        BY <1>1, <2>1, <3>1
      <3> QED
        BY <3>2 DEF Newest
    <2> QED
      BY <2>1, SameStream
  <1> QED
    BY <1>2, <1>3

LEMMA GapHear ==
  ASSUME GInv, NEW c \in Clients, Hear(c)
  PROVE  Orderly' /\ \A d \in Clients : StreamInv(d)'
  <1> USE DEF GInv, IInv
  <1> DEFINE r == [pc |-> "walk", todo |-> room[Tenant[c]], cur |-> c,
                   live |-> room[Tenant[c]] # {}]
  <1>1. reader'[c] = r /\ \A d \in Clients : d # c => reader'[d] = reader[d]
    BY DEF TypeOK, Hear
  <1>2. heard'[c] = heard[c] + 1 /\ heard[c] \in Nat
        /\ \A d \in Clients : d # c => heard'[d] = heard[d]
    BY DEF TypeOK, Hear
  <1>3. reader[c].pc = "read" /\ reader[c].todo = {}
    BY DEF Hear, Orderly
  <1>4. Orderly'
    BY <1>1 DEF Orderly, Hear
  <1>5. ASSUME NEW d \in Clients PROVE StreamInv(d)'
    <2>1. ASSUME NEW e \in Peers(d), ~closed[d], writer[d] = "run"
          PROVE  Newest(d, e)' = Newest(d, e)
      <3>1. e \in Clients /\ Tenant[e] = Tenant[d]
        BY DEF Peers
      <3>2. CASE e = c
        <4>1. d \in room[Tenant[c]]
          BY <2>1, <3>1, <3>2, HubAssumption DEF RoomIsOpen, Orderly
        <4>2. d \in Due(reader'[c]) /\ d \notin Due(reader[c])
          BY <1>1, <1>3, <4>1 DEF Due
        <4> QED
          BY <1>2, <3>2, <4>2 DEF Newest
      <3>3. CASE e # c
        BY <1>1, <1>2, <3>1, <3>3 DEF Newest
      <3> QED
        BY <3>2, <3>3
    <2> QED
      BY <2>1, SameStream DEF Hear
  <1> QED
    BY <1>4, <1>5

LEMMA GapWalk ==
  ASSUME GInv, NEW c \in Clients, Walk(c)
  PROVE  Orderly' /\ \A d \in Clients : StreamInv(d)'
  <1>0. reader[c] \in Reader
    BY DEF GInv, IInv, TypeOK
  <1>1. ASSUME NEW d \in reader[c].todo,
               reader' = [reader EXCEPT ![c] = InHand(c, d)]
        PROVE  Orderly' /\ \A e \in Clients : StreamInv(e)'
    <2>1. /\ InHand(c, d) \in Reader /\ InHand(c, d).cur = d /\ InHand(c, d).pc = "send"
          /\ InHand(c, d).todo = reader[c].todo \ {d}
      BY <1>0, <1>1 DEF Reader, InHand
    <2>2. Due(InHand(c, d)) = Due(reader[c])
      BY <1>0, <2>1 DEF Due, Walk, Reader
    <2> QED
      BY <1>1, <2>1, <2>2, ReaderGap DEF Walk
  <1>2. CASE reader[c].todo = {} /\ reader' = [reader EXCEPT ![c] = AtRest(c, "read")]
    <2>1. /\ AtRest(c, "read") \in Reader /\ AtRest(c, "read").todo = {}
          /\ AtRest(c, "read").pc = "read" /\ ~AtRest(c, "read").live
      BY DEF AtRest, Reader
    <2>2. Due(AtRest(c, "read")) = Due(reader[c])
      BY <1>2, <2>1 DEF Due, Walk
    <2> QED
      BY <1>2, <2>1, <2>2, ReaderGap DEF Walk
  <1> QED
    BY <1>1, <1>2 DEF Walk

LEMMA GapReadError ==
  ASSUME GInv, NEW c \in Clients, ReadError(c)
  PROVE  Orderly' /\ \A d \in Clients : StreamInv(d)'
  <1> DEFINE r == [reader[c] EXCEPT !.pc = "leave"]
  <1>1. /\ r \in Reader /\ r.pc = "leave" /\ r.todo = reader[c].todo /\ r.live = reader[c].live
        /\ reader' = [reader EXCEPT ![c] = r]
    BY DEF GInv, IInv, TypeOK, Reader, ReadError
  <1> HIDE DEF r
  <1>2. reader[c].pc = "read" /\ reader[c].todo = {} /\ ~reader[c].live
    BY DEF ReadError, GInv, Orderly
  <1>3. Due(r) = Due(reader[c])
    BY <1>1, <1>2 DEF Due
  <1> QED
    BY <1>1, <1>2, <1>3, ReaderGap DEF ReadError

\* Of the clients that stay, none is dealt with by the end of another's time.
LEMMA GapUnregister ==
  ASSUME GInv, NEW a \in Clients, NEW d \in Clients, Met(d),
         NEW next \in Reader, Unregister(a, d, next),
         next.pc \notin {"walk", "send", "drop"} => next.todo = {} /\ ~next.live,
         next.pc \notin {"send", "drop"},
         \A x \in Clients : x # d => (x \in Due(next) <=> x \in Due(reader[a]))
  PROVE  Orderly' /\ \A x \in Clients : StreamInv(x)'
  <1> USE DEF GInv, IInv
  <1>1. CASE room[Tenant[d]] = {}
    <2>1. closed[d]
      BY <1>1, HubAssumption DEF RoomIsOpen, Met
    <2>2. \A x \in Peers(a) : ~closed[x] => (x \in Due(next) <=> x \in Due(reader[a]))
      BY <2>1 DEF Peers
    <2> QED
      BY <1>1, <2>2, ReaderGap DEF Unregister
  <1>2. CASE MapRace(a)
    BY <1>2, GapCrash DEF MapRace
  <1>3. CASE Crash("closed twice")
    BY <1>3, GapCrash
  <1>4. ASSUME closed' = [closed EXCEPT ![d] = TRUE],
               reader' = [x \in Clients |->
                            Without(IF x = a THEN next ELSE reader[x], d,
                                    x \in Peers(d) /\ room'[Tenant[d]] = {})],
               UNCHANGED <<send, conn, writer, wire, heard, fate>>
        PROVE  Orderly' /\ \A x \in Clients : StreamInv(x)'
    <2>1. ASSUME NEW x \in Clients
          PROVE  LET r == IF x = a THEN next ELSE reader[x] IN
                 /\ reader'[x].pc = r.pc /\ reader'[x].cur = r.cur
                 /\ reader'[x].todo = r.todo \ {d} /\ (~r.live => ~reader'[x].live)
      BY <1>4 DEF Without
    <2>2. ASSUME NEW x \in Clients
          PROVE  /\ reader'[x].pc \notin {"walk", "send", "drop"} =>
                       reader'[x].todo = {} /\ ~reader'[x].live
                 /\ reader'[x].pc \in {"send", "drop"} => reader'[x].cur \notin reader'[x].todo
      BY <2>1 DEF Orderly
    <2>3. Orderly'
      BY <1>4, <2>2 DEF Orderly
    <2>4. ASSUME NEW x \in Clients PROVE StreamInv(x)'
      <3>1. ASSUME ~closed'[x], NEW e \in Peers(x) PROVE Newest(x, e)' = Newest(x, e)
        <4>1. x # d /\ e \in Clients
          BY <1>4, <3>1 DEF TypeOK, Peers
        <4>2. x \in Due(reader'[e]) <=> x \in Due(IF e = a THEN next ELSE reader[e])
          BY <2>1, <4>1 DEF Due
        <4>3. x \in Due(reader'[e]) <=> x \in Due(reader[e])
          BY <4>1, <4>2
        <4> QED
          BY <1>4, <4>3 DEF Newest
      <3>2. ~closed'[x] => ~closed[x]
        BY <1>4 DEF TypeOK
      <3> QED
        BY <1>4, <3>1, <3>2, SameStream
    <2> QED
      BY <2>3, <2>4
  <1> QED
    BY <1>1, <1>2, <1>3, <1>4 DEF Unregister

LEMMA GapDrop ==
  ASSUME GInv, NEW c \in Clients, Drop(c)
  PROVE  Orderly' /\ \A d \in Clients : StreamInv(d)'
  <1> DEFINE r == [reader[c] EXCEPT !.pc = "walk"]
  <1>1. r \in Reader /\ r.pc = "walk" /\ r.todo = reader[c].todo /\ r.cur = reader[c].cur
    <2>1. reader[c] \in Reader
      BY DEF GInv, IInv, TypeOK
    <2> QED
      BY <2>1 DEF Reader
  <1>2. reader[c].cur \in Clients /\ Met(reader[c].cur) /\ reader[c].pc = "drop"
    BY DEF Drop, GInv, IInv, HoldsPeers, Peers
  <1>3. Unregister(c, reader[c].cur, r)
    BY DEF Drop, DropClient
  <1> HIDE DEF r
  <1>4. \A x \in Clients : x # reader[c].cur => (x \in Due(r) <=> x \in Due(reader[c]))
    BY <1>1 DEF Due
  <1> QED
    BY <1>1, <1>2, <1>3, <1>4, GapUnregister

LEMMA GapLeave ==
  ASSUME GInv, NEW c \in Clients, Leave(c)
  PROVE  Orderly' /\ \A d \in Clients : StreamInv(d)'
  <1> DEFINE r == AtRest(c, "done")
  <1>1. r \in Reader /\ r.pc = "done" /\ r.todo = {} /\ ~r.live
    BY DEF AtRest, Reader
  <1>2. Met(c) /\ reader[c].pc = "leave" /\ reader[c].todo = {}
    BY DEF Leave, GInv, IInv, HoldsPeers, Orderly
  <1>3. Unregister(c, c, r)
    BY DEF Leave, LeaveRoom
  <1> HIDE DEF r
  <1>4. Due(r) = Due(reader[c])
    BY <1>1, <1>2 DEF Due
  <1> QED
    BY <1>1, <1>2, <1>3, <1>4, GapUnregister

\* A message goes to the end of a stream that was up to date.
LEMMA StreamGrows ==
  ASSUME GInv, NEW c \in Clients, NEW d \in Clients, d \in Due(reader[c]), ~closed[d],
         NEW m \in Msg, m.from = c, m.n = heard[c],
         send'[d] = Append(send[d], m), UNCHANGED <<wire, writer, closed, heard>>,
         d \notin Due(reader'[c]),
         \A e \in Clients : e # c => Newest(d, e)' = Newest(d, e)
  PROVE  StreamInv(d)'
  <1> USE DEF GInv, IInv
  <1>1. PICK s \in Seq(Msg) : s = Stream(d)
    BY StreamShape
  <1>2. Stream(d)' = Append(s, m)
    <2>1. wire[d] \in Seq(Msg) /\ send[d] \in Seq(Msg)
      BY StreamShape
    <2>2. wire[d] \o Append(send[d], m) = Append(wire[d] \o send[d], m)
      <3>1. \A p, q \in Seq(Msg) : p \o Append(q, m) = Append(p \o q, m)
        BY ConcatEnd
      <3> QED
        BY <2>1, <3>1
    <2>3. Stream(d)' = wire[d] \o Append(send[d], m)
      BY DEF Stream
    <2> QED
      BY <1>1, <2>2, <2>3 DEF Stream
  <1>3. CASE writer[d] # "run"
    BY <1>3 DEF StreamInv
  <1>4. CASE writer[d] = "run"
    <2>1. InStep(s) /\ UpToDate(d) /\ InStep(wire[d])
      BY <1>1, <1>4 DEF StreamInv
    <2>2. ASSUME NEW i \in 1 .. Len(s), s[i].from = m.from, IsLast(s, i)
          PROVE  m.n = s[i].n + 1
      <3>1. s[i].n = Newest(d, c)
        BY <1>1, <2>1, <2>2 DEF UpToDate
      <3>2. Newest(d, c) = heard[c] - 1 /\ heard[c] \in Nat
        BY DEF Newest, TypeOK
      <3> QED
        BY <3>1, <3>2
    <2>3. InStep(Append(s, m))
      BY <2>1, <2>2, AppendInStep
    <2>4. PICK t : t = Append(s, m)
      OBVIOUS
    <2>5. /\ Len(t) = Len(s) + 1 /\ t[Len(s) + 1] = m /\ Len(s) \in Nat
          /\ \A i \in 1 .. Len(s) : t[i] = s[i]
      BY <2>4, AppendProperties, LenProperties
    <2>6. ASSUME NEW i \in 1 .. Len(t), IsLast(t, i), NEW e, e = t[i].from
          PROVE  t[i].n = Newest(d, e)'
      <3>1. CASE i = Len(s) + 1
        BY <2>5, <2>6, <3>1 DEF Newest
      <3>2. CASE i \in 1 .. Len(s)
        <4>1. t[i] = s[i] /\ e # c /\ IsLast(s, i)
          BY <2>5, <2>6, <3>2 DEF IsLast
        <4>2. e \in Clients
          BY <1>1, <2>6, <3>2, <4>1, FromPeers
        <4> QED
          BY <1>1, <2>1, <2>6, <3>2, <4>1, <4>2 DEF UpToDate
      <3> QED
        BY <2>5, <3>1, <3>2
    <2>7. UpToDate(d)'
      BY <1>2, <2>4, <2>6 DEF UpToDate
    <2> QED
      BY <1>2, <2>1, <2>3, <2>7 DEF StreamInv
  <1> QED
    BY <1>3, <1>4

LEMMA GapSend ==
  ASSUME GInv, NEW c \in Clients, Send(c)
  PROVE  Orderly' /\ \A e \in Clients : StreamInv(e)'
  <1> USE DEF GInv, IInv
  <1>0. PICK d \in Clients : d = reader[c].cur
    BY DEF Send, HoldsPeers, Peers
  <1>1. PICK m \in Msg : m = [from |-> c, n |-> heard[c]]
    BY DEF Msg, TypeOK
  <1>2. /\ reader[c] \in Reader /\ Met(d) /\ reader[c].pc = "send"
        /\ d \notin reader[c].todo /\ d \in Due(reader[c])
    BY <1>0 DEF Send, HoldsPeers, Orderly, TypeOK, Due
  <1>3. CASE Crash("sent on closed")
    BY <1>3, GapCrash
  <1>4. ASSUME ~closed[d], send' = [send EXCEPT ![d] = Append(@, m)],
               reader' = [reader EXCEPT ![c].pc = "walk"],
               UNCHANGED <<closed, conn, writer, wire, heard>>
        PROVE  Orderly' /\ \A e \in Clients : StreamInv(e)'
    <2>1. /\ reader'[c].pc = "walk" /\ reader'[c].todo = reader[c].todo
          /\ \A e \in Clients : e # c => reader'[e] = reader[e]
      <3>1. reader'[c] = [reader[c] EXCEPT !.pc = "walk"]
        BY <1>4 DEF TypeOK
      <3> QED
        BY <1>2, <1>4, <3>1 DEF TypeOK, Reader
    <2>2. /\ send'[d] = Append(send[d], m)
          /\ \A e \in Clients : e # d => send'[e] = send[e]
      BY <1>4 DEF TypeOK
    <2>3. Orderly'
      BY <1>2, <1>4, <2>1, <2>2 DEF Orderly, Met
    <2>4. ASSUME NEW x \in Clients, NEW e \in Clients, x # d \/ e # c
          PROVE  Newest(x, e)' = Newest(x, e)
      <3>1. x \in Due(reader'[e]) <=> x \in Due(reader[e])
        BY <1>0, <1>2, <2>1, <2>4 DEF Due
      <3> QED
        BY <1>4, <3>1 DEF Newest
    <2>5. ASSUME NEW e \in Clients, e # d PROVE StreamInv(e)'
      BY <1>4, <2>2, <2>4, <2>5, SameStream DEF Peers
    <2>6. d \notin Due(reader'[c])
      BY <1>2, <2>1 DEF Due
    <2>7. m.from = c /\ m.n = heard[c]
      BY <1>1
    <2>8. StreamInv(d)'
      BY <1>2, <1>4, <2>2, <2>4, <2>6, <2>7, StreamGrows
    <2> QED
      BY <2>3, <2>5, <2>8
  <1>5. ASSUME reader' = [reader EXCEPT ![c].pc = "drop"],
               UNCHANGED <<room, send, closed, conn, writer, wire, heard, fate>>
        PROVE  Orderly' /\ \A e \in Clients : StreamInv(e)'
    <2> DEFINE r == [reader[c] EXCEPT !.pc = "drop"]
    <2>1. /\ r \in Reader /\ r.pc = "drop" /\ r.todo = reader[c].todo /\ r.cur = d
          /\ reader' = [reader EXCEPT ![c] = r]
      BY <1>0, <1>2, <1>5 DEF TypeOK, Reader
    <2> HIDE DEF r
    <2>2. Due(r) = Due(reader[c])
      BY <1>0, <1>2, <2>1 DEF Due
    <2> QED
      BY <1>2, <1>5, <2>1, <2>2, ReaderGap
  <1> QED
    BY <1>0, <1>1, <1>3, <1>4, <1>5 DEF Send

LEMMA GapWrite ==
  ASSUME GInv, NEW c \in Clients, Write(c)
  PROVE  Orderly' /\ \A d \in Clients : StreamInv(d)'
  <1> USE DEF GInv, IInv
  <1>1. /\ send[c] \in Seq(Msg) /\ send[c] # <<>> /\ wire[c] \in Seq(Msg)
        /\ send'[c] = Tail(send[c]) /\ writer[c] = "run"
        /\ UNCHANGED <<closed, conn, reader, heard>>
    BY DEF Write, TypeOK
  <1>2. \A d \in Clients : d # c => /\ send'[d] = send[d] /\ wire'[d] = wire[d]
                                    /\ writer'[d] = writer[d]
    BY DEF Write, TypeOK
  <1>3. Orderly'
    <2>1. conn[c] # "new"
      BY <1>1 DEF Orderly
    <2> QED
      BY <1>1, <1>2, <2>1 DEF Orderly
  <1>4. ASSUME NEW d \in Clients, NEW e PROVE Newest(d, e)' = Newest(d, e)
    BY <1>1 DEF Newest
  <1>5. ASSUME NEW d \in Clients, d # c PROVE StreamInv(d)'
    BY <1>1, <1>2, <1>4, <1>5, SameStream
  <1>6. StreamInv(c)'
    <2>1. CASE conn[c] = "up"
      <3>1. wire'[c] = Append(wire[c], Head(send[c])) /\ writer'[c] = "run"
        BY <1>1, <2>1 DEF Write, TypeOK
      <3>2. Append(wire[c], Head(send[c])) \o Tail(send[c]) = wire[c] \o send[c]
        BY <1>1, ConcatHead
      <3>3. Stream(c)' = Stream(c)
        BY <1>1, <3>1, <3>2 DEF Stream
      <3>4. InStep(Stream(c)) /\ (~closed[c] => UpToDate(c))
        BY <1>1 DEF StreamInv
      <3>5. UpToDate(c) => UpToDate(c)'
        BY <1>1, <3>3 DEF UpToDate, Newest
      <3>6. InStep(wire'[c])
        <4>1. wire'[c] \in Seq(Msg) /\ send'[c] \in Seq(Msg)
          BY <1>1, <3>1, HeadTailProperties, AppendProperties
        <4>2. /\ Len(wire'[c]) \in Nat /\ Len(send'[c]) \in Nat
              /\ Len(Stream(c)') = Len(wire'[c]) + Len(send'[c])
              /\ \A i \in 1 .. Len(wire'[c]) : Stream(c)'[i] = wire'[c][i]
          BY <4>1, ConcatStart DEF Stream
        <4>3. Len(Stream(c)') \in Nat /\ Len(wire'[c]) <= Len(Stream(c)')
          <5>1. \A a, b \in Nat : a + b \in Nat /\ a <= a + b
            OBVIOUS
          <5> QED
            BY <4>2, <5>1
        <4> QED
          BY <3>3, <3>4, <4>2, <4>3, PrefixInStep
      <3> QED
        BY <1>1, <3>3, <3>4, <3>5, <3>6 DEF StreamInv
    <2>2. CASE conn[c] # "up"
      BY <1>1, <2>2 DEF Write, TypeOK, StreamInv
    <2> QED
      BY <2>1, <2>2
  <1> QED
    BY <1>3, <1>5, <1>6

\* The network and the writer's end.
LEMMA GapDown ==
  ASSUME GInv, NEW c \in Clients, WriterStop(c) \/ Disconnect(c)
  PROVE  Orderly' /\ \A d \in Clients : StreamInv(d)'
  <1> USE DEF GInv, IInv
  <1>1. UNCHANGED <<send, closed, reader, wire, heard>>
    BY DEF WriterStop, Disconnect
  <1>2. conn[c] # "new"
    BY DEF WriterStop, Disconnect, Orderly
  <1>3. \A d \in Clients : /\ conn'[d] = "new" => conn[d] = "new" /\ writer'[d] = writer[d]
                           /\ writer'[d] = "run" => writer[d] = "run"
    BY <1>2 DEF WriterStop, Disconnect, TypeOK
  <1>4. Orderly'
    BY <1>1, <1>3 DEF Orderly
  <1>5. ASSUME NEW d \in Clients PROVE StreamInv(d)'
    <2>1. \A e : Newest(d, e)' = Newest(d, e)
      BY <1>1 DEF Newest
    <2> QED
      BY <1>1, <1>3, <2>1, SameStream
  <1> QED
    BY <1>4, <1>5
----------------------------------------------------------------------------
LEMMA GapInit == Init => GInv
  <1> SUFFICES ASSUME Init PROVE GInv
    OBVIOUS
  <1>1. Orderly
    BY DEF Init, Orderly, AtRest
  <1>2. ASSUME NEW c \in Clients PROVE StreamInv(c)
    BY DEF Init, StreamInv, InStep
  <1> QED
    BY InitInv, <1>1, <1>2 DEF GInv

LEMMA GapNext == GInv /\ [Next]_vars => GInv'
  <1> SUFFICES ASSUME GInv, [Next]_vars PROVE GInv'
    OBVIOUS
  <1> DEFINE Goal == Orderly' /\ \A d \in Clients : StreamInv(d)'
  <1>1. CASE UNCHANGED vars
    <2>1. Orderly'
      BY <1>1 DEF vars, GInv, Orderly
    <2>2. ASSUME NEW c \in Clients PROVE StreamInv(c)'
      <3>1. \A d : Newest(c, d)' = Newest(c, d)
        BY <1>1 DEF vars, Newest
      <3> QED
        BY <1>1, <3>1, SameStream DEF vars, GInv
    <2>3. IInv'
      BY NextInv DEF GInv
    <2> QED
      BY <2>1, <2>2, <2>3 DEF GInv
  <1>2. ASSUME NEW c \in Clients,
               Register(c) \/ Hear(c) \/ ReaderStep(c) \/ WriterStep(c) \/ Disconnect(c)
        PROVE  Goal
    BY <1>2, GapRegister, GapHear, GapWalk, GapSend, GapDrop, GapReadError, GapLeave, GapWrite,
       GapDown DEF ReaderStep, WriterStep
  <1>3. IInv'
    BY NextInv DEF GInv
  <1> QED
    BY <1>1, <1>2, <1>3 DEF Next, GInv
----------------------------------------------------------------------------
\* Isolation, rooms and what the goroutines hold, in every state.
THEOREM Invariance == Spec => []IInv
  BY InitInv, NextInv, PTL DEF Spec

\* The hub's data are well formed, and no buffer holds more than its capacity.
THEOREM TypeCorrect == Spec => []TypeOK
  BY Invariance, PTL DEF IInv

\* No message of one shop's devices reaches a device of another, for any number
\* of shops and devices, and in spite of walks over rooms that change meanwhile.
THEOREM Isolation == Spec => []OwnTenantOnly
  BY Invariance, PTL DEF IInv

\* The rooms hold exactly the open channels, each in its own tenant's room.
THEOREM Rooms == Spec => []RoomIsOpen
  BY Invariance, PTL DEF IInv

\* Of one device's messages, a peer is sent each right after the one before it,
\* for any number of devices, messages and sizes of the buffers.
THEOREM NoGaps == Spec => []NoGap
  <1>1. GInv => NoGap
    BY DEF GInv, StreamInv, NoGap
  <1> QED
    BY GapInit, GapNext, <1>1, PTL DEF Spec
=============================================================================
