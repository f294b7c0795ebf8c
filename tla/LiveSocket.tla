----------------------------- MODULE LiveSocket -----------------------------
(***************************************************************************)
(* The browser's end of the websocket (WebSocketProvider in                *)
(* web/src/contexts/WebSocketContext.tsx): opened while somebody is signed *)
(* in, reopened three seconds after it closes, given up at sign-out.  A    *)
(* WebSocket object goes on living after the component has let go of it:   *)
(* its handshake may still succeed and its handlers may still be called.   *)
(***************************************************************************)
EXTENDS Naturals, FiniteSets

CONSTANTS
    Socket,     \* WebSocket objects, garbage once closed and let go
    NoSocket,   \* wsRef.current = null
    MaxToggles  \* bound: sign-ins and sign-outs

ASSUME SocketAssumption == NoSocket \notin Socket /\ MaxToggles \in Nat

VARIABLES
    sockets,    \* [phase, onclose] of each object
    wsRef,
    timers,     \* number of reconnect timers running
    timerKnown, \* reconnectTimer.current is a timer that is still running
    enabled,    \* the provider's property: somebody is signed in
    watching,   \* not unmountedRef.current
    toggles

socketVars == <<sockets, wsRef, timers, timerKnown, enabled, watching, toggles>>

Garbage == [phase |-> "closed", onclose |-> FALSE]

\* connect: a new object, whichever one wsRef held before.
OpenSocket(all) ==
    \E s \in {t \in Socket : all[t] = Garbage /\ wsRef # t} :
        /\ sockets' = [all EXCEPT ![s] = [phase |-> "connecting", onclose |-> TRUE]]
        /\ wsRef' = s

Effect ==
    /\ ~enabled /\ toggles < MaxToggles
    /\ enabled' = TRUE /\ watching' = TRUE /\ toggles' = toggles + 1
    /\ OpenSocket(sockets)
    /\ UNCHANGED <<timers, timerKnown>>

Cleanup ==
    /\ enabled
    /\ enabled' = FALSE /\ watching' = FALSE
    /\ timers' = IF timerKnown THEN timers - 1 ELSE timers
    /\ timerKnown' = FALSE
    /\ wsRef' = NoSocket
    /\ sockets' = IF wsRef = NoSocket THEN sockets ELSE [sockets EXCEPT ![wsRef] = Garbage]
    /\ UNCHANGED toggles

Handshake(s) ==
    /\ sockets[s].phase = "connecting"
    /\ sockets' = [sockets EXCEPT ![s].phase = "open"]
    /\ UNCHANGED <<wsRef, timers, timerKnown, enabled, watching, toggles>>

\* Mutant: nothing is done about a closed socket.
SocketClosedForGood(s) ==
    /\ sockets[s].phase # "closed"
    /\ sockets' = [sockets EXCEPT ![s] = Garbage]
    /\ UNCHANGED <<wsRef, timers, timerKnown, enabled, watching, toggles>>

\* The server, the network or close() ends a socket, and onclose is called.
SocketClosed(s) ==
    /\ sockets[s].phase # "closed"
    /\ sockets' = [sockets EXCEPT ![s] = Garbage]
    /\ IF sockets[s].onclose /\ watching
       THEN timers' = timers + 1 /\ timerKnown' = TRUE
       ELSE UNCHANGED <<timers, timerKnown>>
    /\ UNCHANGED <<wsRef, enabled, watching, toggles>>

\* Three seconds later.
Reconnect ==
    /\ timers > 0
    /\ timers' = timers - 1 /\ timerKnown' = FALSE
    /\ IF watching THEN OpenSocket(sockets) ELSE UNCHANGED <<sockets, wsRef>>
    /\ UNCHANGED <<enabled, watching, toggles>>

SocketInit ==
    /\ sockets = [s \in Socket |-> Garbage] /\ wsRef = NoSocket
    /\ timers = 0 /\ timerKnown = FALSE
    /\ enabled = FALSE /\ watching = FALSE /\ toggles = 0

SocketNext ==
    \/ Effect \/ Cleanup \/ Reconnect
    \/ \E s \in Socket : Handshake(s) \/ SocketClosed(s)

SocketFairness ==
    /\ WF_socketVars(Reconnect)
    /\ WF_socketVars(\E s \in Socket : Handshake(s))

SocketSpec == SocketInit /\ [][SocketNext]_socketVars /\ SocketFairness
-----------------------------------------------------------------------------
SocketTypeOK ==
    /\ sockets \in [Socket -> [phase : {"connecting", "open", "closing", "closed"},
                               onclose : BOOLEAN]]
    /\ wsRef \in Socket \cup {NoSocket}
    /\ timers \in Nat /\ timerKnown \in BOOLEAN
    /\ enabled \in BOOLEAN /\ watching \in BOOLEAN /\ toggles \in 0 .. MaxToggles

\* However sign-outs, drops and reconnects interleave, a browser has one socket
\* at most, counting the one a running timer will open: a message is handled
\* once, and a signed-out browser has none.
OneSocket ==
    Cardinality({s \in Socket : sockets[s].phase \in {"connecting", "open"}}) + timers
        <= (IF enabled THEN 1 ELSE 0)

\* Once the network stops closing sockets, somebody who stays signed in has one.
SocketComesBack ==
    <>[][\A s \in Socket : ~SocketClosed(s)]_socketVars =>
        (enabled ~> (~enabled \/ \E s \in Socket : sockets[s].phase = "open"))
=============================================================================
