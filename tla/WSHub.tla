------------------------------- MODULE WSHub -------------------------------
(***************************************************************************)
(* internal/api/ws.go: the hub that pushes new requests, messages waiting  *)
(* for approval and updates of streaming responses to the browsers.        *)
(*                                                                         *)
(* One goroutine, run, owns the set of clients.  Producers put events into *)
(* one of three channels and drop them when it is full.  Every client has  *)
(* a channel `send` and two goroutines: writePump empties it into the      *)
(* connection, readPump waits for the connection to end.  A client that    *)
(* does not keep up is disconnected if it would miss a new request; other  *)
(* events it just misses.                                                  *)
(***************************************************************************)
EXTENDS Naturals, Sequences, FiniteSets

CONSTANTS
    Clients,    \* attempts to connect to /ws
    Faulty,     \* those whose connection may fail by itself (bound)
    Kinds,      \* the three channels of events
    New,        \* the kind a client must not miss
    Events,     \* Events[k]: number of events of kind k (bound)
    ChCap,      \* ChCap[k]: capacity of the channel (256, 64 and 256)
    SendCap     \* capacity of send (64)

ASSUME HubAssumption ==
    /\ IsFiniteSet(Clients) /\ IsFiniteSet(Kinds)
    /\ Faulty \subseteq Clients
    /\ New \in Kinds
    /\ Events \in [Kinds -> Nat]
    /\ ChCap \in [Kinds -> Nat]
    /\ SendCap \in Nat \ {0}

VARIABLES
    made,       \* made[k]: events of kind k so far
    ch,         \* ch[k]: the numbers of the events in the channel of kind k
    hub,        \* "running" or "gone"
    stopped,    \* stopCh is closed
    clients,    \* the registered clients
    msg,        \* the event run is handing out
    todo,       \* the clients it has not come to yet
    serve,      \* handleWebSocket: "new", "register", "registered", "done"
    reader,     \* readPump: "none", "reading", "leaving", "closing", "done"
    writer,     \* writePump: "none", "running", "done"
    conn,       \* the connection: "open", "dead" (peer gone), "closed" by us
    send,       \* send[c]: the channel
    closed,     \* closed[c]: it is closed
    written,    \* written[c]: the events written to the connection
    relayed,    \* the new requests run has taken so far
    since       \* since[c]: how many of them when c was registered

events == <<made, ch>>
loop   == <<hub, clients, msg, todo, relayed>>
pumps  == <<serve, reader, writer, conn>>
queues == <<send, closed, written, since>>
vars   == <<events, loop, stopped, pumps, queues>>

Event == [kind : Kinds, n : Nat]

TypeOK ==
    /\ made \in [Kinds -> Nat]
    /\ ch \in [Kinds -> Seq(Nat)] /\ \A k \in Kinds : Len(ch[k]) <= ChCap[k]
    /\ hub \in {"running", "gone"} /\ stopped \in BOOLEAN
    /\ clients \subseteq Clients /\ todo \subseteq clients
    /\ msg \in Event
    /\ serve \in [Clients -> {"new", "register", "registered", "done"}]
    /\ reader \in [Clients -> {"none", "reading", "leaving", "closing", "done"}]
    /\ writer \in [Clients -> {"none", "running", "done"}]
    /\ conn \in [Clients -> {"open", "dead", "closed"}]
    /\ send \in [Clients -> Seq(Event)] /\ \A c \in Clients : Len(send[c]) <= SendCap
    /\ closed \in [Clients -> BOOLEAN]
    /\ written \in [Clients -> Seq(Event)]
    /\ relayed \in Seq(Nat)
    /\ since \in [Clients -> Nat]

Init ==
    /\ made = [k \in Kinds |-> 0] /\ ch = [k \in Kinds |-> <<>>]
    /\ hub = "running" /\ stopped = FALSE
    /\ clients = {} /\ todo = {} /\ msg = [kind |-> New, n |-> 0]
    /\ serve = [c \in Clients |-> "new"]
    /\ reader = [c \in Clients |-> "none"] /\ writer = [c \in Clients |-> "none"]
    /\ conn = [c \in Clients |-> "open"]
    /\ send = [c \in Clients |-> <<>>] /\ closed = [c \in Clients |-> FALSE]
    /\ written = [c \in Clients |-> <<>>]
    /\ relayed = <<>> /\ since = [c \in Clients |-> 0]

-----------------------------------------------------------------------------
\* broadcast, broadcastIntercept, BroadcastUpdate: never block.
Broadcast(k) ==
    /\ made[k] < Events[k]
    /\ made' = [made EXCEPT ![k] = @ + 1]
    /\ ch' = IF Len(ch[k]) < ChCap[k]
             THEN [ch EXCEPT ![k] = Append(@, made[k] + 1)]
             ELSE ch
    /\ UNCHANGED <<loop, stopped, pumps, queues>>

\* Stop: the first call closes stopCh.
Stop ==
    /\ ~stopped
    /\ stopped' = TRUE
    /\ UNCHANGED <<events, loop, pumps, queues>>

(***************************************************************************)
(* run                                                                     *)
(***************************************************************************)
Selecting == hub = "running" /\ todo = {}

Close(C) == closed' = [c \in Clients |-> closed[c] \/ c \in C]

Gone ==
    /\ Selecting /\ stopped
    /\ hub' = "gone"
    /\ Close(clients)
    /\ UNCHANGED <<events, clients, msg, todo, relayed, stopped, pumps, send, written, since>>

\* A rendezvous with handleWebSocket ...
Register(c) ==
    /\ Selecting /\ serve[c] = "register"
    /\ clients' = clients \cup {c}
    /\ since' = [since EXCEPT ![c] = Len(relayed)]
    /\ serve' = [serve EXCEPT ![c] = "registered"]
    /\ UNCHANGED <<events, hub, msg, todo, relayed, stopped, reader, writer, conn, send,
                   closed, written>>

\* ... and with readPump.  A client that was disconnected is no longer there.
Unregister(c) ==
    /\ Selecting /\ reader[c] = "leaving"
    /\ clients' = clients \ {c}
    /\ Close({c} \cap clients)
    /\ reader' = [reader EXCEPT ![c] = "closing"]
    /\ UNCHANGED <<events, hub, msg, todo, relayed, stopped, serve, writer, conn, send,
                   written, since>>

Take(k) ==
    /\ Selecting /\ ch[k] # <<>>
    /\ msg' = [kind |-> k, n |-> Head(ch[k])]
    /\ ch' = [ch EXCEPT ![k] = Tail(@)]
    /\ todo' = clients
    /\ relayed' = IF k = New THEN Append(relayed, Head(ch[k])) ELSE relayed
    /\ UNCHANGED <<made, hub, clients, stopped, pumps, queues>>

\* Fault: a slow client just misses the event.
Deliver_Skip(c) ==
    /\ c \in todo
    /\ todo' = todo \ {c}
    /\ send' = IF Len(send[c]) < SendCap THEN [send EXCEPT ![c] = Append(@, msg)] ELSE send
    /\ UNCHANGED <<events, hub, clients, msg, relayed, stopped, pumps, closed, written, since>>

\* Fault: the hub waits until the client has room.
Deliver_Block(c) ==
    /\ c \in todo
    /\ Len(send[c]) < SendCap
    /\ todo' = todo \ {c}
    /\ send' = [send EXCEPT ![c] = Append(@, msg)]
    /\ UNCHANGED <<events, hub, clients, msg, relayed, stopped, pumps, closed, written, since>>

\* Fault: the slow client stays registered although its channel is closed.
Deliver_KeepClient(c) ==
    /\ c \in todo
    /\ todo' = todo \ {c}
    /\ \/ /\ Len(send[c]) < SendCap
          /\ send' = [send EXCEPT ![c] = Append(@, msg)]
          /\ UNCHANGED closed
       \/ /\ Len(send[c]) >= SendCap
          /\ IF msg.kind = New THEN Close({c}) ELSE UNCHANGED closed
          /\ UNCHANGED send
    /\ UNCHANGED <<events, hub, clients, msg, relayed, stopped, pumps, written, since>>

\* The clients are served in any order, as a range over a map goes.
Deliver(c) ==
    /\ c \in todo
    /\ todo' = todo \ {c}
    /\ \/ /\ Len(send[c]) < SendCap
          /\ send' = [send EXCEPT ![c] = Append(@, msg)]
          /\ UNCHANGED <<clients, closed>>
       \/ /\ Len(send[c]) >= SendCap
          /\ IF msg.kind = New
             THEN Close({c}) /\ clients' = clients \ {c}
             ELSE UNCHANGED <<clients, closed>>
          /\ UNCHANGED send
    /\ UNCHANGED <<events, hub, msg, relayed, stopped, pumps, written, since>>

Run ==
    \/ Gone
    \/ \E c \in Clients : Register(c) \/ Unregister(c) \/ Deliver(c)
    \/ \E k \in Kinds : Take(k)

(***************************************************************************)
(* handleWebSocket                                                         *)
(***************************************************************************)
Connect(c) ==
    /\ serve[c] = "new"
    /\ serve' = [serve EXCEPT ![c] = "register"]
    /\ UNCHANGED <<events, loop, stopped, reader, writer, conn, queues>>

Rejected(c) ==
    /\ serve[c] = "register" /\ stopped
    /\ serve' = [serve EXCEPT ![c] = "done"]
    /\ conn' = [conn EXCEPT ![c] = "closed"]
    /\ UNCHANGED <<events, loop, stopped, reader, writer, queues>>

StartPumps(c) ==
    /\ serve[c] = "registered"
    /\ serve' = [serve EXCEPT ![c] = "done"]
    /\ reader' = [reader EXCEPT ![c] = "reading"]
    /\ writer' = [writer EXCEPT ![c] = "running"]
    /\ UNCHANGED <<events, loop, stopped, conn, queues>>

(***************************************************************************)
(* readPump                                                                *)
(***************************************************************************)
ReadFails(c) ==
    /\ reader[c] = "reading" /\ conn[c] # "open"
    /\ reader' = [reader EXCEPT ![c] = "leaving"]
    /\ UNCHANGED <<events, loop, stopped, serve, writer, conn, queues>>

LeaveStopped(c) ==
    /\ reader[c] = "leaving" /\ stopped
    /\ reader' = [reader EXCEPT ![c] = "closing"]
    /\ UNCHANGED <<events, loop, stopped, serve, writer, conn, queues>>

ReaderCloses(c) ==
    /\ reader[c] = "closing"
    /\ reader' = [reader EXCEPT ![c] = "done"]
    /\ conn' = [conn EXCEPT ![c] = "closed"]
    /\ UNCHANGED <<events, loop, stopped, serve, writer, queues>>

(***************************************************************************)
(* writePump                                                               *)
(***************************************************************************)
WriterLeaves(c) ==
    /\ writer' = [writer EXCEPT ![c] = "done"]
    /\ conn' = [conn EXCEPT ![c] = "closed"]
    /\ UNCHANGED <<events, loop, stopped, serve, reader, closed, since>>

WriteOk(c) ==
    /\ writer[c] = "running" /\ send[c] # <<>> /\ conn[c] # "closed"
    /\ send' = [send EXCEPT ![c] = Tail(@)]
    /\ written' = [written EXCEPT ![c] = Append(@, Head(send[c]))]
    /\ UNCHANGED <<events, loop, stopped, pumps, closed, since>>

\* An error, or the deadline of ten seconds, also with an open connection.
WriteFails(c) ==
    /\ writer[c] = "running" /\ send[c] # <<>>
    /\ conn[c] # "open" \/ c \in Faulty
    /\ send' = [send EXCEPT ![c] = Tail(@)]
    /\ WriterLeaves(c)
    /\ UNCHANGED written

\* Fault: the writer leaves the connection open.
SeesClosed_NoClose(c) ==
    /\ writer[c] = "running" /\ send[c] = <<>> /\ closed[c]
    /\ writer' = [writer EXCEPT ![c] = "done"]
    /\ UNCHANGED <<events, loop, stopped, serve, reader, conn, queues>>

\* What is left in a closed channel is received first.
SeesClosed(c) ==
    /\ writer[c] = "running" /\ send[c] = <<>> /\ closed[c]
    /\ WriterLeaves(c)
    /\ UNCHANGED <<send, written>>

PingFails(c) ==
    /\ writer[c] = "running" /\ conn[c] # "open"
    /\ WriterLeaves(c)
    /\ UNCHANGED <<send, written>>

PeerDies(c) ==
    /\ c \in Faulty
    /\ serve[c] # "new" /\ conn[c] = "open"
    /\ conn' = [conn EXCEPT ![c] = "dead"]
    /\ UNCHANGED <<events, loop, stopped, serve, reader, writer, queues>>

ReadPump(c)  == ReadFails(c) \/ LeaveStopped(c) \/ ReaderCloses(c)
WritePump(c) == WriteOk(c) \/ WriteFails(c) \/ SeesClosed(c) \/ PingFails(c)

Next ==
    \/ \E k \in Kinds : Broadcast(k)
    \/ Stop \/ Run
    \/ \E c \in Clients : \/ Connect(c) \/ Rejected(c) \/ StartPumps(c) \/ PeerDies(c)
                          \/ ReadPump(c) \/ WritePump(c)

Spec == Init /\ [][Next]_vars

\* Only the hub runs on: what it does must not depend on any client.
HubFairSpec == Spec /\ WF_vars(Run)

\* Everything that can run on does.  A client's write goes through, fails, or
\* runs into its deadline.
FairSpec ==
    /\ HubFairSpec
    /\ \A c \in Clients :
         /\ WF_vars(Rejected(c) \/ StartPumps(c))
         /\ WF_vars(ReadPump(c)) /\ WF_vars(WritePump(c))
         /\ SF_vars(Unregister(c))
    /\ SF_vars(Gone)

-----------------------------------------------------------------------------
(***************************************************************************)
(* Properties                                                              *)
(***************************************************************************)
\* What the browser of c has been sent, or will be.
Stream(c) == written[c] \o (IF writer[c] = "done" THEN <<>> ELSE send[c])

\* The new requests among the first i events of the stream s.
NewUpTo(s, i) == {j \in 1 .. i : s[j].kind = New}
Rank(s, i) == Cardinality(NewUpTo(s, i))

\* A browser sees the new requests without a gap from the moment it is
\* registered: the k-th it gets is the k-th that run has taken since then.  It
\* may see an end of them cut off, also one that the hub has dropped for it with a
\* full buffer (ws.go:92), but never a later one after it.
NewRequestsGapFree ==
    \A c \in Clients : \A i \in DOMAIN Stream(c) :
        Stream(c)[i].kind = New =>
            LET k == since[c] + Rank(Stream(c), i)
            IN  k <= Len(relayed) /\ Stream(c)[i].n = relayed[k]

\* What browsers get at every moment.
Inv == TypeOK /\ NewRequestsGapFree

\* The hub never sends on a closed channel, nor closes one twice; both panic.
RegisteredAreOpen ==
    hub = "running" => \A c \in clients : ~closed[c]

\* While it is registered, nothing it should have is missing at all.
RegisteredAreUpToDate ==
    \A c \in clients \ todo :
        writer[c] # "done" => since[c] + Rank(Stream(c), Len(Stream(c))) = Len(relayed)

\* A client that cannot be given a new request (ws.go:92-104) is no longer registered
\* from then on: for those that are, the channel is open and has everything.
RegisteredAreServed == RegisteredAreOpen /\ RegisteredAreUpToDate

\* No client, however slow, holds the hub up.
HubNeverStalls == todo # {} ~> todo = {}

Ended(c) ==
    serve[c] = "done" /\ reader[c] \in {"none", "done"} /\ writer[c] \in {"none", "done"}

\* After Stop every goroutine of every client ends, also of those that connect
\* later.
PumpsEnd == stopped ~> \A c \in Clients : serve[c] = "new" \/ Ended(c)
=============================================================================
