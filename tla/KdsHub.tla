------------------------------- MODULE KdsHub -------------------------------
(***************************************************************************)
(* The WebSocket hub of src/backend/internal/kds: rooms of clients by      *)
(* tenant, a buffered channel per client, and the two goroutines that      *)
(* serve a connection.                                                     *)
(*                                                                         *)
(* Register and Unregister hold the hub's lock and are one step each.      *)
(* Broadcast holds it only to fetch the room, and then walks over the map  *)
(* and sends without it, one client at a time, while others register,      *)
(* unregister and close channels.  Three things can go wrong then, and     *)
(* each ends the whole process, as the goroutines recover from nothing:    *)
(* the runtime stops on a map that is written while it is walked over, and *)
(* a send on a closed channel and a second close of a channel panic.       *)
(*                                                                         *)
(* A definition named X_Y is X with the bug Y; no action uses it.          *)
(***************************************************************************)
EXTENDS Naturals, Sequences, FiniteSets

CONSTANTS
    Clients,    \* WebSocket connections, one after the other or at once
    Tenants,
    Tenant,     \* the tenant in each client's token
    Cap,        \* capacity of client.Send (256)
    Says        \* bound: how many messages each client sends to the server

ASSUME HubAssumption ==
    /\ Tenant \in [Clients -> Tenants]
    /\ Cap \in Nat \ {0}
    /\ Says \in [Clients -> Nat]

VARIABLES
    room,       \* hub.tenants; a tenant without an entry has the empty room
    send,       \* contents of client.Send
    closed,     \* client.Send was closed
    conn,       \* the network connection
    reader,     \* readPump, with the Broadcast it runs
    writer,     \* writePump
    wire,       \* messages written to the peer
    heard,      \* messages read from the peer
    fate        \* how the process ended, if it did

vars == <<room, send, closed, conn, reader, writer, wire, heard, fate>>

\* The n-th message of a client, an item_ready or an order_ready.
Msg == [from: Clients, n: Nat]

\* readPump waits for a message, walks over the room with one (todo is what is
\* left of it), has picked a client, found its buffer full, or is about to run
\* its deferred Unregister.  The map it walks over is the hub's until the room
\* is deleted with its last client: the next client then gets a new map.
Reader == [pc: {"none", "read", "walk", "send", "drop", "leave", "done"},
           todo: SUBSET Clients, cur: Clients, live: BOOLEAN]

AtRest(c, pc) == [pc |-> pc, todo |-> {}, cur |-> c, live |-> FALSE]

Init ==
    /\ room = [t \in Tenants |-> {}]
    /\ send = [c \in Clients |-> <<>>]
    /\ closed = [c \in Clients |-> FALSE]
    /\ conn = [c \in Clients |-> "new"]
    /\ reader = [c \in Clients |-> AtRest(c, "none")]
    /\ writer = [c \in Clients |-> "none"]
    /\ wire = [c \in Clients |-> <<>>]
    /\ heard = [c \in Clients |-> 0]
    /\ fate = "up"

Up == fate = "up"
Peers(c) == {d \in Clients : Tenant[d] = Tenant[c]}
Walking(c) == {d \in Peers(c) \ {c} : reader[d].live}
Crash(how) ==
    /\ fate' = how
    /\ UNCHANGED <<room, send, closed, conn, reader, writer, wire, heard>>
----------------------------------------------------------------------------
\* The map of c's room is written by the goroutine of client a while another
\* goroutine walks over it.
MapRace(a) ==
    /\ Walking(a) # {}
    /\ Crash("map race")

\* ServeWS.  A walk that is under way may still come to the new client or not.
Enter_AnyRoom(c) == room' = [t \in Tenants |-> room[t] \cup {c}]
Enter(c) == room' = [room EXCEPT ![Tenant[c]] = @ \cup {c}]

Register(c) ==
    /\ Up
    /\ conn[c] = "new"
    /\ \/ MapRace(c)
       \/ /\ Enter(c)
          /\ conn' = [conn EXCEPT ![c] = "up"]
          /\ writer' = [writer EXCEPT ![c] = "run"]
          /\ \E seen \in SUBSET Walking(c) :
                reader' = [d \in Clients |->
                             IF d = c THEN AtRest(c, "read")
                             ELSE IF d \in seen THEN [reader[d] EXCEPT !.todo = @ \cup {c}]
                             ELSE reader[d]]
          /\ UNCHANGED <<send, closed, wire, heard, fate>>

\* Unregister(d), called by the goroutine of client a, which goes on as next.
\* A walk never comes to an entry that was deleted before it.
Without(r, d, orphan) ==
    [pc |-> r.pc, todo |-> r.todo \ {d}, cur |-> r.cur, live |-> r.live /\ ~orphan]

Exit_KeepEntry(d) == UNCHANGED room
Exit(d) == room' = [room EXCEPT ![Tenant[d]] = @ \ {d}]

Unregister(a, d, next) ==
    IF room[Tenant[d]] = {}
    THEN /\ reader' = [reader EXCEPT ![a] = next]
         /\ UNCHANGED <<room, send, closed, conn, writer, wire, heard, fate>>
    ELSE \/ MapRace(a)
         \/ /\ closed[d]
            /\ Crash("closed twice")
         \/ /\ ~closed[d]
            /\ Exit(d)
            /\ closed' = [closed EXCEPT ![d] = TRUE]
            /\ reader' = [x \in Clients |->
                            Without(IF x = a THEN next ELSE reader[x], d,
                                    x \in Peers(d) /\ room'[Tenant[d]] = {})]
            /\ UNCHANGED <<send, conn, writer, wire, heard, fate>>
----------------------------------------------------------------------------
(* readPump. *)

\* A message is read, one that came before the connection went down included,
\* and Broadcast fetches the room of the client's tenant.
Hear(c) ==
    /\ Up
    /\ reader[c].pc = "read"
    /\ heard[c] < Says[c]
    /\ heard' = [heard EXCEPT ![c] = @ + 1]
    /\ reader' = [reader EXCEPT ![c] = [pc |-> "walk", todo |-> room[Tenant[c]], cur |-> c,
                                        live |-> room[Tenant[c]] # {}]]
    /\ UNCHANGED <<room, send, closed, conn, writer, wire, fate>>

\* Maps are walked over in any order, and an entry is come to once.
InHand(c, d) == [pc |-> "send", todo |-> reader[c].todo \ {d}, cur |-> d,
                 live |-> reader[c].live]

Walk(c) ==
    /\ Up
    /\ reader[c].pc = "walk"
    /\ \/ \E d \in reader[c].todo :
             reader' = [reader EXCEPT ![c] = InHand(c, d)]
       \/ /\ reader[c].todo = {}
          /\ reader' = [reader EXCEPT ![c] = AtRest(c, "read")]
    /\ UNCHANGED <<room, send, closed, conn, writer, wire, heard, fate>>

\* select { case client.Send <- data: default: }
HasSpace(d) == Len(send[d]) < Cap

Send(c) ==
    LET d == reader[c].cur IN
    /\ Up
    /\ reader[c].pc = "send"
    /\ \/ /\ closed[d]
          /\ Crash("sent on closed")
       \/ /\ ~closed[d] /\ HasSpace(d)
          /\ send' = [send EXCEPT ![d] = Append(@, [from |-> c, n |-> heard[c]])]
          /\ reader' = [reader EXCEPT ![c].pc = "walk"]
          /\ UNCHANGED <<room, closed, conn, writer, wire, heard, fate>>
       \/ /\ ~closed[d] /\ ~HasSpace(d)
          /\ reader' = [reader EXCEPT ![c].pc = "drop"]
          /\ UNCHANGED <<room, send, closed, conn, writer, wire, heard, fate>>

DropClient_Skip(c) ==
    /\ reader' = [reader EXCEPT ![c].pc = "walk"]
    /\ UNCHANGED <<room, send, closed, conn, writer, wire, heard, fate>>
DropClient_Retry(c) ==
    /\ reader' = [reader EXCEPT ![c].pc = "send"]
    /\ UNCHANGED <<room, send, closed, conn, writer, wire, heard, fate>>
DropClient(c) == Unregister(c, reader[c].cur, [reader[c] EXCEPT !.pc = "walk"])

Drop(c) ==
    /\ Up
    /\ reader[c].pc = "drop"
    /\ DropClient(c)

\* ReadMessage fails; the deferred function unregisters and closes.
ReadError(c) ==
    /\ Up
    /\ reader[c].pc = "read"
    /\ conn[c] = "down"
    /\ reader' = [reader EXCEPT ![c].pc = "leave"]
    /\ UNCHANGED <<room, send, closed, conn, writer, wire, heard, fate>>

LeaveRoom_Quietly(c) ==
    /\ reader' = [reader EXCEPT ![c] = AtRest(c, "done")]
    /\ UNCHANGED <<room, send, closed, conn, writer, wire, heard, fate>>
LeaveRoom(c) == Unregister(c, c, AtRest(c, "done"))

Leave(c) ==
    /\ Up
    /\ reader[c].pc = "leave"
    /\ LeaveRoom(c)
----------------------------------------------------------------------------
(* writePump, and the network. *)

\* A message from the channel; a write to a dead connection fails.
Write(c) ==
    /\ Up
    /\ writer[c] = "run"
    /\ send[c] # <<>>
    /\ send' = [send EXCEPT ![c] = Tail(@)]
    /\ IF conn[c] = "up"
       THEN /\ wire' = [wire EXCEPT ![c] = Append(@, Head(send[c]))]
            /\ UNCHANGED writer
       ELSE /\ writer' = [writer EXCEPT ![c] = "done"]
            /\ UNCHANGED wire
    /\ UNCHANGED <<room, closed, conn, reader, heard, fate>>

\* The channel is closed and empty, or a ping fails.
WriterStop(c) ==
    /\ Up
    /\ writer[c] = "run"
    /\ (closed[c] /\ send[c] = <<>>) \/ conn[c] = "down"
    /\ writer' = [writer EXCEPT ![c] = "done"]
    /\ conn' = [conn EXCEPT ![c] = "down"]
    /\ UNCHANGED <<room, send, closed, reader, wire, heard, fate>>

\* The peer closes, the network fails, or no pong comes for 60 s.
Disconnect(c) ==
    /\ Up
    /\ conn[c] = "up"
    /\ conn' = [conn EXCEPT ![c] = "down"]
    /\ UNCHANGED <<room, send, closed, reader, writer, wire, heard, fate>>

ReaderStep(c) == Walk(c) \/ Send(c) \/ Drop(c) \/ ReadError(c) \/ Leave(c)
WriterStep(c) == Write(c) \/ WriterStop(c)

Next == \E c \in Clients :
    \/ Register(c)
    \/ Hear(c)
    \/ ReaderStep(c)
    \/ WriterStep(c)
    \/ Disconnect(c)

\* Goroutines are scheduled: a pump that can go on goes on.  Nobody has to
\* connect, send a message or disconnect.
Fairness == \A c \in Clients : WF_vars(ReaderStep(c)) /\ WF_vars(WriterStep(c))

Spec == Init /\ [][Next]_vars
FairSpec == Spec /\ Fairness
----------------------------------------------------------------------------
(* Properties. *)

TypeOK ==
    /\ room \in [Tenants -> SUBSET Clients]
    /\ send \in [Clients -> Seq(Msg)]
    /\ closed \in [Clients -> BOOLEAN]
    /\ conn \in [Clients -> {"new", "up", "down"}]
    /\ reader \in [Clients -> Reader]
    /\ writer \in [Clients -> {"none", "run", "done"}]
    /\ wire \in [Clients -> Seq(Msg)]
    /\ heard \in [Clients -> Nat]
    /\ fate \in {"up", "map race", "sent on closed", "closed twice"}
    /\ \A c \in Clients : Len(send[c]) <= Cap

\* Rooms isolate tenants, whatever the interleaving: no message of one tenant's
\* devices is queued for, or written to, a device of another tenant.
OwnTenantOnly ==
    \A c \in Clients :
        LET OwnMsg == [from: Peers(c), n: Nat]
        IN send[c] \in Seq(OwnMsg) /\ wire[c] \in Seq(OwnMsg)

\* The hub holds exactly the channels that are open: a client that has
\* connected is in its tenant's room, and in no other, until its channel is
\* closed, whoever closes it.
RoomIsOpen ==
    \A c \in Clients : \A t \in Tenants :
        c \in room[t] <=> t = Tenant[c] /\ conn[c] # "new" /\ ~closed[c]

\* Of one device's messages, each comes right after the one before it.
InStep(s) ==
    \A i, j \in 1 .. Len(s) :
        /\ i < j /\ s[i].from = s[j].from
        /\ \A k \in i + 1 .. j - 1 : s[k].from # s[j].from
        => s[j].n = s[i].n + 1

\* What a peer is sent of one device's messages has no gap, no repetition and
\* no reordering: the kitchen never sees a later tap without the earlier ones,
\* unless it connected after them.  A peer too slow for this is cut off.
NoGap == \A c \in Clients : InStep(wire[c])

\* A connection that is lost does not stay in the room (unless the process
\* ends first): it neither takes up a buffer nor is sent to for ever.
LostIsRemoved ==
    \A c \in Clients :
        conn[c] = "down" ~> c \notin room[Tenant[c]] \/ fate # "up"

\* A broadcast comes to an end: no device's goroutine stays in it for ever,
\* however full the buffers of the others are.
BroadcastEnds ==
    \A c \in Clients :
        reader[c].pc = "walk" ~> reader[c].pc = "read" \/ fate # "up"
=============================================================================
