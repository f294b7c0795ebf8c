--------------------------------- MODULE Hub ---------------------------------
(***************************************************************************)
(* The websocket hub (server/internal/api/websocket.go): Broadcast puts a  *)
(* message on a buffered channel, the single goroutine of Run fans it out  *)
(* to the buffered `send' channel of every registered client and drops the *)
(* clients whose buffer is full, and each client has a goroutine that      *)
(* reads its connection (and only notices that it ended) and one that      *)
(* writes it.                                                              *)
(*                                                                         *)
(* A channel operation is one step.  register and unregister are           *)
(* unbuffered: the send and the receive are the same step, possible only   *)
(* while Run is at its select.  A Client value is one connection; a        *)
(* browser that reconnects is another one.                                 *)
(***************************************************************************)
EXTENDS Integers, Sequences

CONSTANTS
    Client,        \* connections
    Caller,        \* goroutines that call Broadcast
    BroadcastCap,  \* buffer of the broadcast channel (256 in the code)
    SendCap,       \* buffer of a client's send channel (256 in the code)
    MaxMsg         \* bound: messages broadcast in a behaviour

ASSUME HubAssumption ==
    /\ BroadcastCap \in Nat \ {0}
    /\ SendCap \in Nat \ {0}
    /\ MaxMsg \in Nat

VARIABLES
    issued,     \* messages given to Broadcast so far; the n-th one is n
    calling,    \* Caller -> message it is blocked on in Broadcast, 0 if none
    broadcast,  \* the broadcast channel
    clients,    \* the hub's map
    todo,       \* clients the fan-out in progress has still to serve;
                \* Run is at its select when there is none
    closed,     \* clients whose send channel has been closed
    panicked,   \* Run has sent on, or closed, a closed channel
    send,       \* Client -> its send channel
    reader,     \* Client -> where ServeWS and then readPump is
    writer,     \* Client -> where writePump is
    held,       \* Client -> message writePump has taken, 0 if none
    conn,       \* Client -> state of the connection
    log,        \* history: messages in the order Run took them
    from,       \* history: Client -> length of the log when it was registered
    got         \* history: Client -> messages written to its live connection

channelVars == <<issued, calling, broadcast>>
hubVars  == <<clients, todo, closed, panicked, log, from>>
pumpVars == <<reader, writer, held, conn, got>>
vars == <<channelVars, hubVars, pumpVars, send>>

Msg == 1..MaxMsg

-----------------------------------------------------------------------------
(***************************************************************************)
(* Broadcast: blocks while the channel is full.                            *)
(***************************************************************************)
Call(p) ==
    /\ calling[p] = 0
    /\ issued < MaxMsg
    /\ issued' = issued + 1
    /\ calling' = [calling EXCEPT ![p] = issued + 1]
    /\ UNCHANGED <<broadcast, hubVars, pumpVars, send>>

Broadcast(p) ==
    /\ calling[p] # 0
    /\ Len(broadcast) < BroadcastCap
    /\ broadcast' = Append(broadcast, calling[p])
    /\ calling' = [calling EXCEPT ![p] = 0]
    /\ UNCHANGED <<issued, hubVars, pumpVars, send>>

-----------------------------------------------------------------------------
(***************************************************************************)
(* Run: one case of its select, then back to the select.                   *)
(***************************************************************************)
AtSelect == todo = {}

Register(c) ==
    /\ AtSelect /\ reader[c] = "joining"
    /\ clients' = clients \cup {c}
    /\ from' = [from EXCEPT ![c] = Len(log)]
    /\ reader' = [reader EXCEPT ![c] = "reading"]
    /\ writer' = [writer EXCEPT ![c] = "waiting"]
    /\ UNCHANGED <<channelVars, todo, closed, panicked, log, held, conn, got, send>>

CloseSend(c) ==
    /\ closed' = closed \cup {c}
    /\ panicked' = (panicked \/ c \in closed)

\* Mutant: the map is not consulted before the channel is closed.
UnregisterAlways(c) ==
    /\ AtSelect /\ reader[c] = "leaving"
    /\ reader' = [reader EXCEPT ![c] = "closing"]
    /\ clients' = clients \ {c}
    /\ CloseSend(c)
    /\ UNCHANGED <<channelVars, todo, log, from, writer, held, conn, got, send>>

\* Mutant: the reader edits the map itself, in the middle of a fan-out too.
UnregisterAtOnce(c) ==
    /\ reader[c] = "leaving"
    /\ reader' = [reader EXCEPT ![c] = "closing"]
    /\ clients' = clients \ {c}
    /\ IF c \in clients THEN CloseSend(c) ELSE UNCHANGED <<closed, panicked>>
    /\ UNCHANGED <<channelVars, todo, log, from, writer, held, conn, got, send>>

\* Mutant: the client leaves the map and its channel stays open.
UnregisterOnly(c) ==
    /\ AtSelect /\ reader[c] = "leaving"
    /\ reader' = [reader EXCEPT ![c] = "closing"]
    /\ clients' = clients \ {c}
    /\ UNCHANGED <<channelVars, todo, closed, panicked, log, from, writer, held,
                   conn, got, send>>

Unregister(c) ==
    /\ AtSelect /\ reader[c] = "leaving"
    /\ reader' = [reader EXCEPT ![c] = "closing"]
    /\ clients' = clients \ {c}
    /\ IF c \in clients THEN CloseSend(c) ELSE UNCHANGED <<closed, panicked>>
    /\ UNCHANGED <<channelVars, todo, log, from, writer, held, conn, got, send>>

TakeMessage ==
    /\ AtSelect /\ broadcast # <<>>
    /\ log' = Append(log, Head(broadcast))
    /\ broadcast' = Tail(broadcast)
    /\ todo' = clients
    /\ UNCHANGED <<issued, calling, clients, closed, panicked, from, pumpVars, send>>

\* Mutant: a full client misses this message and stays registered.
OfferOrSkip(c) ==
    /\ c \in todo
    /\ todo' = todo \ {c}
    /\ send' = IF Len(send[c]) < SendCap
               THEN [send EXCEPT ![c] = Append(@, log[Len(log)])] ELSE send
    /\ UNCHANGED <<channelVars, clients, closed, panicked, log, from, pumpVars>>

\* Mutant: the send waits for room.
OfferWaiting(c) ==
    /\ c \in todo
    /\ Len(send[c]) < SendCap
    /\ todo' = todo \ {c}
    /\ send' = [send EXCEPT ![c] = Append(@, log[Len(log)])]
    /\ UNCHANGED <<channelVars, clients, closed, panicked, log, from, pumpVars>>

\* The fan-out serves one client: the other goroutines run in between.  The
\* order is that of a map iteration, any order.
Offer(c) ==
    /\ c \in todo
    /\ todo' = todo \ {c}
    /\ \/ /\ Len(send[c]) < SendCap
          /\ send' = [send EXCEPT ![c] = Append(@, log[Len(log)])]
          /\ panicked' = (panicked \/ c \in closed)
          /\ UNCHANGED <<clients, closed>>
       \/ /\ Len(send[c]) >= SendCap
          /\ CloseSend(c)
          /\ clients' = clients \ {c}
          /\ UNCHANGED send
    /\ UNCHANGED <<channelVars, log, from, pumpVars>>

-----------------------------------------------------------------------------
(***************************************************************************)
(* ServeWS and the two goroutines of a client.                             *)
(***************************************************************************)
ServeWS(c) ==
    /\ reader[c] = "absent"
    /\ reader' = [reader EXCEPT ![c] = "joining"]
    /\ conn' = [conn EXCEPT ![c] = "open"]
    /\ UNCHANGED <<channelVars, hubVars, writer, held, got, send>>

\* The browser goes away, or the network does.
PeerGone(c) ==
    /\ conn[c] = "open"
    /\ conn' = [conn EXCEPT ![c] = "broken"]
    /\ UNCHANGED <<channelVars, hubVars, reader, writer, held, got, send>>

\* Mutant: the reader ends without unregistering.
ReadErrorOnly(c) ==
    /\ reader[c] = "reading"
    /\ conn[c] # "open"
    /\ reader' = [reader EXCEPT ![c] = "gone"]
    /\ UNCHANGED <<channelVars, hubVars, writer, held, conn, got, send>>

\* readPump: ReadMessage fails, once the connection has ended on either side.
ReadError(c) ==
    /\ reader[c] = "reading"
    /\ conn[c] # "open"
    /\ reader' = [reader EXCEPT ![c] = "leaving"]
    /\ UNCHANGED <<channelVars, hubVars, writer, held, conn, got, send>>

\* readPump: conn.Close, after unregister has been received.
ReadClose(c) ==
    /\ reader[c] = "closing"
    /\ reader' = [reader EXCEPT ![c] = "gone"]
    /\ conn' = [conn EXCEPT ![c] = "closed"]
    /\ UNCHANGED <<channelVars, hubVars, writer, held, got, send>>

WriteTake(c) ==
    /\ writer[c] = "waiting"
    /\ send[c] # <<>>
    /\ held' = [held EXCEPT ![c] = Head(send[c])]
    /\ send' = [send EXCEPT ![c] = Tail(@)]
    /\ writer' = [writer EXCEPT ![c] = "writing"]
    /\ UNCHANGED <<channelVars, hubVars, reader, conn, got>>

\* WriteMessage returns nil: on a broken connection the bytes are lost.
WriteDone(c) ==
    /\ writer[c] = "writing"
    /\ conn[c] # "closed"
    /\ got' = IF conn[c] = "open" THEN [got EXCEPT ![c] = Append(@, held[c])] ELSE got
    /\ held' = [held EXCEPT ![c] = 0]
    /\ writer' = [writer EXCEPT ![c] = "waiting"]
    /\ UNCHANGED <<channelVars, hubVars, reader, conn, send>>

WriteError(c) ==
    /\ writer[c] = "writing"
    /\ conn[c] # "open"
    /\ writer' = [writer EXCEPT ![c] = "done"]
    /\ conn' = [conn EXCEPT ![c] = "closed"]
    /\ UNCHANGED <<channelVars, hubVars, reader, held, got, send>>

\* Mutant: the end of the channel ends the goroutine, not the connection.
WriteEndOnly(c) ==
    /\ writer[c] = "waiting"
    /\ send[c] = <<>> /\ c \in closed
    /\ writer' = [writer EXCEPT ![c] = "done"]
    /\ UNCHANGED <<channelVars, hubVars, reader, held, conn, got, send>>

\* The range over a closed channel ends once the channel is empty.
WriteEnd(c) ==
    /\ writer[c] = "waiting"
    /\ send[c] = <<>> /\ c \in closed
    /\ writer' = [writer EXCEPT ![c] = "done"]
    /\ conn' = [conn EXCEPT ![c] = "closed"]
    /\ UNCHANGED <<channelVars, hubVars, reader, held, got, send>>

-----------------------------------------------------------------------------
Init ==
    /\ issued = 0
    /\ calling = [p \in Caller |-> 0]
    /\ broadcast = <<>>
    /\ clients = {} /\ todo = {} /\ closed = {} /\ panicked = FALSE
    /\ send = [c \in Client |-> <<>>]
    /\ reader = [c \in Client |-> "absent"]
    /\ writer = [c \in Client |-> "off"]
    /\ held = [c \in Client |-> 0]
    /\ conn = [c \in Client |-> "none"]
    /\ log = <<>>
    /\ from = [c \in Client |-> 0]
    /\ got = [c \in Client |-> <<>>]

RunStep == TakeMessage \/ \E c \in Client : Register(c) \/ Unregister(c) \/ Offer(c)

PumpStep(c) ==
    \/ ServeWS(c) \/ PeerGone(c) \/ ReadError(c) \/ ReadClose(c)
    \/ WriteTake(c) \/ WriteDone(c) \/ WriteError(c) \/ WriteEnd(c)

Next ==
    \/ \E p \in Caller : Call(p) \/ Broadcast(p)
    \/ RunStep
    \/ \E c \in Client : PumpStep(c)

Spec == Init /\ [][Next]_vars

\* select picks at random among the cases that are ready, and blocked senders
\* of a channel are served first come first served: no client and no caller is
\* passed over for ever (strong fairness).  A goroutine that can run does, and
\* a write ends, with or without an error (weak fairness).
Fairness ==
    /\ WF_vars(TakeMessage)
    /\ \A p \in Caller : SF_vars(Broadcast(p))
    /\ \A c \in Client :
         /\ SF_vars(Register(c)) /\ SF_vars(Unregister(c)) /\ WF_vars(Offer(c))
         /\ WF_vars(ReadError(c)) /\ WF_vars(ReadClose(c))
         /\ WF_vars(WriteTake(c)) /\ WF_vars(WriteDone(c) \/ WriteError(c))
         /\ WF_vars(WriteEnd(c))

FairSpec == Spec /\ Fairness

-----------------------------------------------------------------------------
(***************************************************************************)
(* Properties.                                                             *)
(***************************************************************************)
\* Every variable has its shape.
HubTypeOK ==
    /\ issued \in 0..MaxMsg
    /\ calling \in [Caller -> 0..MaxMsg]
    /\ broadcast \in Seq(Msg)
    /\ clients \subseteq Client /\ todo \subseteq clients /\ closed \subseteq Client
    /\ panicked \in BOOLEAN
    /\ send \in [Client -> Seq(Msg)]
    /\ reader \in [Client -> {"absent", "joining", "reading", "leaving", "closing", "gone"}]
    /\ writer \in [Client -> {"off", "waiting", "writing", "done"}]
    /\ held \in [Client -> 0..MaxMsg]
    /\ conn \in [Client -> {"none", "open", "broken", "closed"}]
    /\ log \in Seq(Msg)
    /\ from \in [Client -> Nat]
    /\ got \in [Client -> Seq(Msg)]

\* Run never sends on a closed channel and never closes one twice, although a
\* client can be dropped by a fan-out and unregister itself later: either
\* would end the process.
NoPanic == ~panicked

\* What a browser has been shown is an unbroken run of the hub's messages,
\* starting where it was registered: none is missing in the middle, repeated
\* or out of order, however the buffers fill and wherever the client is cut.
UnbrokenRun ==
    \A c \in Client :
        /\ Len(got[c]) + from[c] <= Len(log)
        /\ \A i \in 1..Len(got[c]) : got[c][i] = log[from[c] + i]

\* The channel of a client that is registered is open, and the channel of one
\* that has been registered and is no longer is closed: the pump that reads
\* it is sure to end.
OpenIffRegistered ==
    \A c \in Client :
        (c \in closed) <=> (writer[c] # "off" /\ c \notin clients)

\* A message the hub has taken reaches every client registered before it, or
\* that client's connection has ended.
EveryMessageArrives ==
    \A c \in Client : \A i \in Msg :
        (c \in clients /\ from[c] < i /\ i <= Len(log)) ~>
            (Len(got[c]) + from[c] >= i \/ conn[c] # "open")

\* A client the hub has dropped is hung up on, so that the browser sees the end
\* of the connection and reconnects.
DroppedIsHungUp == \A c \in Client : (c \in closed) ~> (conn[c] = "closed")

\* A connection that has ended is forgotten: the goroutine that waits to
\* unregister it is served and the map does not keep it.
EndedIsForgotten ==
    \A c \in Client : (conn[c] \in {"broken", "closed"}) ~> (c \notin clients /\ reader[c] = "gone")

\* Broadcast returns: no mix of slow, dead and leaving clients holds it up.
BroadcastReturns == \A p \in Caller : (calling[p] # 0) ~> (calling[p] = 0)
=============================================================================
