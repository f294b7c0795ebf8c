----------------------------- MODULE CameraPages -----------------------------
(***************************************************************************)
(* The cameras in the browser (web/src/components/cameras/,                *)
(* hooks/useCameraIntercom.ts, GlobalMotionAlert in App.tsx).  Four parts  *)
(* are on the screen at different times and share nothing: a player of a   *)
(* live stream, the intercom of the camera shown in full, the grid with    *)
(* its order, and the tray of motion alerts.                               *)
(***************************************************************************)
EXTENDS Naturals, Sequences, FiniteSets, SequencesExt

CONSTANTS
    Cam,        \* cameras
    MaxQueuedChunks,    \* MAX_QUEUED_CHUNKS, made small
    MaxChunks,  \* bound: chunks a stream sends
    MaxShown,   \* bound: cameras shown one after another, requests, alerts
    GridOrders  \* orders of the grid

ASSUME CameraPagesAssumption ==
    /\ MaxQueuedChunks \in Nat \ {0}
    /\ MaxChunks \in Nat /\ MaxShown \in Nat /\ GridOrders # {}

VARIABLES
    part,       \* "tile", "full" or "alert" (three players), "intercom", "grid", "tray"
    \* the player
    showing,    \* number of the effect that runs now; 0 when unmounted
    begun,      \* effects run so far
    stage,      \* of that effect: "none", "stagger", "connecting", "open", "over"
    sockets, closing,   \* effects whose socket is open, or closed and not told yet
    streamed,   \* receivedStreamData
    fallback,   \* useFallback (spinner gone, on a tile or an alert)
    earned,     \* history: effects whose own stream failed before any data
    buffer,     \* the SourceBuffer: "none", "ready", "updating" or "ended" (its event is due)
    queue, arrived, appended,   \* chunks
    dropped,    \* history: chunks the full queue gave up
    \* the intercom
    speaker,    \* the camera it belongs to, as the number of its effect
    talkHeld,   \* Talk is held down
    asking,     \* getUserMedia() calls, by the effect that made them
    mics,       \* microphones that are open, by the number of their press
    talkMic,    \* the microphone talkRef holds, or 0
    talking, listening, listenSocket,
    strayed,    \* history: a permission came after Talk was let go, or after another
    presses,
    \* the grid
    storedOrder, shownOrder, orderSaves, orderLost, orderSent,
    \* the tray
    alerts,     \* [cam, event]
    events

playerVars == <<showing, begun, stage, sockets, closing, streamed, fallback, earned>>
chunkVars == <<buffer, queue, arrived, appended, dropped>>
talkVars == <<speaker, talkHeld, asking, mics, talkMic, talking, listening, listenSocket,
              strayed, presses>>
orderVars == <<storedOrder, shownOrder, orderSaves, orderLost, orderSent>>
trayVars == <<alerts, events>>
cameraVars == <<part, playerVars, chunkVars, talkVars, orderVars, trayVars>>
IsPlayer == part \in {"tile", "full", "alert"}

CameraInit ==
    /\ part \in {"tile", "full", "alert", "intercom", "grid", "tray"}
    /\ showing = 0 /\ begun = 0 /\ stage = "none" /\ sockets = {} /\ closing = {} /\ streamed = FALSE
    /\ fallback = FALSE /\ earned = {}
    /\ buffer = "none" /\ queue = <<>> /\ arrived = 0 /\ appended = {} /\ dropped = {}
    /\ speaker = 1 /\ talkHeld = FALSE /\ asking = {} /\ mics = {} /\ talkMic = 0
    /\ talking = FALSE /\ listening = FALSE /\ listenSocket = FALSE /\ strayed = FALSE
    /\ presses = 0
    /\ storedOrder = (CHOOSE o \in GridOrders : TRUE) /\ shownOrder = storedOrder /\ orderSaves = {}
    /\ orderLost = FALSE /\ orderSent = 0
    /\ alerts = {} /\ events = 0

-----------------------------------------------------------------------------
\* The effect of a player: a new MediaSource.  A tile waits for its turn before
\* it connects; the full picture does nothing once it has fallen back.
Play ==
    /\ IsPlayer /\ showing = 0 /\ begun < MaxShown
    /\ begun' = begun + 1 /\ showing' = begun'
    /\ stage' = IF part = "full" /\ fallback THEN "over"
                ELSE IF part = "tile" THEN "stagger" ELSE "connecting"
    /\ sockets' = IF stage' = "connecting" THEN sockets \cup {begun'} ELSE sockets
    /\ fallback' = (part = "full" /\ fallback) /\ streamed' = FALSE
    /\ buffer' = "none" /\ queue' = <<>> /\ arrived' = 0 /\ appended' = {} /\ dropped' = {}
    /\ UNCHANGED <<part, closing, earned, talkVars, orderVars, trayVars>>

StaggerOver ==
    /\ stage = "stagger" /\ stage' = "connecting" /\ sockets' = sockets \cup {showing}
    /\ UNCHANGED <<part, showing, begun, closing, streamed, fallback, earned, chunkVars,
                   talkVars, orderVars, trayVars>>

\* The camera changes or the player goes: the cleanup of the effect.  Going
\* also forgets the fallback.
Stop ==
    /\ IsPlayer /\ showing # 0 /\ showing' = 0 /\ stage' = "none"
    /\ sockets' = sockets \ {showing} /\ closing' = closing \cup (sockets \cap {showing})
    /\ fallback' \in {fallback, FALSE}
    /\ UNCHANGED <<part, begun, streamed, earned, chunkVars, talkVars, orderVars, trayVars>>

SocketOpens ==
    /\ stage = "connecting" /\ stage' = "open"
    /\ UNCHANGED <<part, showing, begun, sockets, closing, streamed, fallback, earned,
                   chunkVars, talkVars, orderVars, trayVars>>

\* giveUp(): a tile and a card stop their spinner, the full picture falls back
\* to a snapshot.
GiveUp ==
    /\ stage' = "over" /\ sockets' = sockets \ {showing} /\ fallback' = TRUE
    /\ earned' = earned \cup {showing}

\* The codec is agreed upon, or refused.
MseAnswer ==
    /\ stage = "open" /\ buffer = "none"
    /\ \/ /\ buffer' = "ready" /\ streamed' = TRUE
          /\ UNCHANGED <<stage, sockets, fallback, earned>>
       \/ GiveUp /\ UNCHANGED <<buffer, streamed>>
    /\ UNCHANGED <<part, showing, begun, closing, queue, arrived, appended, dropped,
                   talkVars, orderVars, trayVars>>

\* onerror or onclose of the socket in use.
SocketCloses ==
    /\ showing \in sockets
    /\ IF streamed THEN stage' = "over" /\ sockets' = sockets \ {showing}
                        /\ UNCHANGED <<fallback, earned>>
                   ELSE GiveUp
    /\ UNCHANGED <<part, showing, begun, closing, streamed, chunkVars, talkVars,
                   orderVars, trayVars>>

\* onclose of a socket the cleanup has closed; the full picture remembers that
\* its effect is cancelled, a tile that it has none.
OldSocketCloses ==
    /\ \E c \in closing : closing' = closing \ {c}
    /\ UNCHANGED <<part, showing, begun, stage, sockets, streamed, fallback, earned,
                   chunkVars, talkVars, orderVars, trayVars>>

-----------------------------------------------------------------------------
\* pushChunk: the queue keeps the newest.
PushChunk(c) ==
    LET q == Append(queue, c)
    IN  IF Len(q) > MaxQueuedChunks
        THEN queue' = Tail(q) /\ dropped' = dropped \cup {Head(q)}
        ELSE queue' = q /\ UNCHANGED dropped

\* A chunk arrives: it is appended at once unless the buffer is updating, even
\* past chunks that are queued; an append may throw.
ChunkArrives ==
    /\ stage = "open" /\ buffer # "none" /\ arrived < MaxChunks /\ arrived' = arrived + 1
    /\ \/ /\ buffer # "updating" /\ buffer' = "updating"
          /\ appended' = appended \cup {arrived'} /\ UNCHANGED <<queue, dropped>>
       \/ PushChunk(arrived') /\ UNCHANGED <<buffer, appended>>
    /\ UNCHANGED <<part, playerVars, talkVars, orderVars, trayVars>>

\* The update ends, and its event follows in a task of its own.
UpdateOver ==
    /\ buffer = "updating" /\ buffer' = "ended"
    /\ UNCHANGED <<part, playerVars, queue, arrived, appended, dropped, talkVars,
                   orderVars, trayVars>>

\* updateend: flushQueue.  A chunk whose append throws is gone; the buffer may
\* be trimmed then, which is an update too.
FlushQueue ==
    /\ buffer = "ended"
    /\ IF queue = <<>> THEN buffer' = "ready" /\ UNCHANGED <<queue, appended, dropped>>
       ELSE /\ queue' = Tail(queue)
            /\ \/ appended' = appended \cup {Head(queue)} /\ buffer' = "updating"
               \/ buffer' \in {"ready", "updating"} /\ UNCHANGED appended
            /\ UNCHANGED dropped
    /\ UNCHANGED <<part, playerVars, arrived, talkVars, orderVars, trayVars>>

-----------------------------------------------------------------------------
\* startTalking: a microphone that is held is switched on, or one is asked for.
HoldTalk ==
    /\ part = "intercom" /\ ~talkHeld /\ talkHeld' = TRUE
    /\ IF talkMic # 0
       THEN talking' = TRUE /\ UNCHANGED <<asking, presses>>
       ELSE /\ presses < MaxShown /\ presses' = presses + 1
            /\ asking' = asking \cup {[press |-> presses', of |-> speaker]}
            /\ UNCHANGED talking
    /\ UNCHANGED <<part, playerVars, chunkVars, speaker, mics, talkMic, listening,
                   listenSocket, strayed, orderVars, trayVars>>

\* The permission comes: nothing asks whether Talk is still held, whether the
\* camera is still shown or whether another press got its microphone first.
MicAllowed(a) ==
    /\ a \in asking /\ asking' = asking \ {a}
    /\ mics' = mics \cup {a.press} /\ talkMic' = a.press /\ talking' = TRUE
    /\ strayed' = (strayed \/ ~talkHeld \/ a.of # speaker \/ talkMic # 0)
    /\ UNCHANGED <<part, playerVars, chunkVars, speaker, talkHeld, listening,
                   listenSocket, presses, orderVars, trayVars>>

MicRefused(a) ==
    /\ a \in asking /\ asking' = asking \ {a}
    /\ UNCHANGED <<part, playerVars, chunkVars, speaker, talkHeld, mics, talkMic, talking,
                   listening, listenSocket, strayed, presses, orderVars, trayVars>>

\* stopTalking: the microphone is kept, switched off.
LetGo ==
    /\ talkHeld /\ talkHeld' = FALSE /\ talking' = FALSE
    /\ UNCHANGED <<part, playerVars, chunkVars, speaker, asking, mics, talkMic, listening,
                   listenSocket, strayed, presses, orderVars, trayVars>>

\* closeTalk: the microphone is stopped.
\* Mutant: only the connection is closed.
CloseTalkOnly == talkMic' = 0 /\ UNCHANGED mics

CloseTalk == talkMic' = 0 /\ mics' = mics \ {talkMic}

\* The connection of Talk fails, this one or one that was replaced.
TalkFails ==
    /\ talkMic # 0 /\ CloseTalk /\ talking' = FALSE
    /\ UNCHANGED <<part, playerVars, chunkVars, speaker, talkHeld, asking, listening,
                   listenSocket, strayed, presses, orderVars, trayVars>>

\* Another camera is shown in full: both connections are closed, and the
\* buttons keep looking as they did.
SwitchCamera ==
    /\ part = "intercom" /\ speaker < MaxShown /\ speaker' = speaker + 1
    /\ CloseTalk /\ listenSocket' = FALSE
    /\ UNCHANGED <<part, playerVars, chunkVars, talkHeld, asking, talking, listening,
                   strayed, presses, orderVars, trayVars>>

ToggleListening ==
    /\ part = "intercom" /\ listenSocket' = ~listenSocket /\ listening' = listenSocket'
    /\ UNCHANGED <<part, playerVars, chunkVars, speaker, talkHeld, asking, mics, talkMic,
                   talking, strayed, presses, orderVars, trayVars>>

ListenFails ==
    /\ listenSocket /\ listenSocket' = FALSE /\ listening' = FALSE
    /\ UNCHANGED <<part, playerVars, chunkVars, speaker, talkHeld, asking, mics, talkMic,
                   talking, strayed, presses, orderVars, trayVars>>

-----------------------------------------------------------------------------
\* A drag on the grid: the order is shown at once and saved.
DragCamera(o) ==
    /\ part = "grid" /\ orderSent < MaxShown /\ orderSent' = orderSent + 1
    /\ shownOrder' = o /\ orderSaves' = orderSaves \cup {[no |-> orderSent', order |-> o]}
    /\ UNCHANGED <<part, playerVars, chunkVars, talkVars, storedOrder, orderLost, trayVars>>

OrderSaved(s) ==
    /\ s \in orderSaves /\ orderSaves' = orderSaves \ {s} /\ storedOrder' = s.order
    /\ orderLost' = (orderLost \/ \E t \in orderSaves : t.no < s.no)
    /\ UNCHANGED <<part, playerVars, chunkVars, talkVars, shownOrder, orderSent, trayVars>>

\* .catch(() => {}): the grid keeps showing the order.
OrderNotSaved(s) ==
    /\ s \in orderSaves /\ orderSaves' = orderSaves \ {s} /\ orderLost' = TRUE
    /\ UNCHANGED <<part, playerVars, chunkVars, talkVars, storedOrder, shownOrder,
                   orderSent, trayVars>>

-----------------------------------------------------------------------------
\* motion_alert: the alert of a camera replaces the one before.
Motion(c) ==
    /\ part = "tray" /\ events < MaxShown /\ events' = events + 1
    /\ alerts' = {a \in alerts : a.cam # c} \cup {[cam |-> c, event |-> events']}
    /\ UNCHANGED <<part, playerVars, chunkVars, talkVars, orderVars>>

\* A card is closed, by hand or by its timer, which every render of the tray
\* starts anew; or all of them are.
DismissCard(a) ==
    /\ a \in alerts /\ alerts' = {b \in alerts : b.event # a.event}
    /\ UNCHANGED <<part, playerVars, chunkVars, talkVars, orderVars, events>>

DismissAll ==
    /\ Cardinality(alerts) > 1 /\ alerts' = {}
    /\ UNCHANGED <<part, playerVars, chunkVars, talkVars, orderVars, events>>

CameraNext ==
    \/ Play \/ StaggerOver \/ Stop \/ SocketOpens \/ MseAnswer \/ SocketCloses
    \/ OldSocketCloses \/ ChunkArrives \/ UpdateOver \/ FlushQueue
    \/ HoldTalk \/ LetGo \/ TalkFails \/ SwitchCamera \/ ToggleListening \/ ListenFails
    \/ \E a \in asking : MicAllowed(a) \/ MicRefused(a)
    \/ \E o \in GridOrders : DragCamera(o)
    \/ \E s \in orderSaves : OrderSaved(s) \/ OrderNotSaved(s)
    \/ \E c \in Cam : Motion(c)
    \/ \E a \in alerts : DismissCard(a)
    \/ DismissAll

CameraSpec == CameraInit /\ [][CameraNext]_cameraVars

-----------------------------------------------------------------------------
CameraTypeOK ==
    /\ stage \in {"none", "stagger", "connecting", "open", "over"} /\ showing \in 0 .. begun
    /\ buffer \in {"none", "ready", "updating", "ended"}
    /\ talkMic \in 0 .. presses /\ mics \subseteq 1 .. presses
    /\ talkHeld \in BOOLEAN /\ talking \in BOOLEAN /\ listening \in BOOLEAN
    /\ shownOrder \in GridOrders /\ storedOrder \in GridOrders

\* A socket that is open is of the player on the screen; and a snapshot takes
\* the place of a stream only after a stream of that player has failed before
\* any data.  The full picture keeps it for the camera that is shown next.
StreamsAreOwned ==
    /\ sockets \subseteq {showing}
    /\ fallback /\ showing # 0 => IF part = "full" THEN earned # {} ELSE showing \in earned

\* What the full queue gives up is older than all it keeps, and no chunk is
\* appended twice.
NewestIsKept ==
    /\ \A c \in dropped, d \in ToSet(queue) : c < d
    /\ arrived \notin dropped /\ appended \cap ToSet(queue) = {}

\* A microphone that is open is held by the intercom, which stops it when it is
\* closed, and sends only while Talk is held, unless a permission came late.
MicIsHeld == strayed \/ (mics \subseteq {talkMic} /\ (talking => talkHeld))

\* The order on the grid is the one stored, once it is saved; and a camera has
\* one card of motion, whichever alert was dismissed before.
GridAndTrayAgree ==
    /\ orderSaves = {} => shownOrder = storedOrder \/ orderLost
    /\ \A a, b \in alerts : a.cam = b.cam => a = b
=============================================================================
