------------------------------ MODULE Screensaver ------------------------------
(***************************************************************************)
(* The rotation of photos on an idle screen (web/src/components/           *)
(* Screensaver.tsx, hooks/useIdleTimeout.ts): two effects, one timer, a    *)
(* flag that keeps two photos from being loaded at once, and answers that  *)
(* come after the screen has been woken.                                   *)
(***************************************************************************)
EXTENDS Naturals, Sequences, FiniteSets, SequencesExt

CONSTANTS
    Photo,          \* assets of the photo albums
    NoPhoto,
    MaxPreloads,    \* bound: photos loading at once
    MaxAlbums       \* bound: album requests under way at once

ASSUME ScreensaverAssumption ==
    /\ IsFiniteSet(Photo) /\ NoPhoto \notin Photo
    /\ MaxPreloads \in Nat \ {0} /\ MaxAlbums \in Nat \ {0}

VARIABLES
    idle,           \* isIdle
    photos,         \* the state the render reads
    photosRef,      \* the list the handlers read
    currentIndex,   \* as in the code, from 0
    lastShown,      \* lastShownRef, the photo on the screen
    rotateTimer,    \* rotateRef runs
    inflight,       \* inflightRef
    preloads,       \* [way, photo, index] loading: the handlers awaiting them
    albums,         \* requests for the album under way
    albumStale,     \* albumFetchedAt is more than an hour ago
    stuckBack       \* history: going back failed since the screen fell idle

saverVars == <<idle, photos, photosRef, currentIndex, lastShown, rotateTimer, inflight,
               preloads, albums, albumStale, stuckBack>>

PhotoAt(s, i) == IF i < Len(s) THEN s[i + 1] ELSE NoPhoto

\* shuffleAvoidingRepeat: any order, but the first is not the one to avoid.
Shuffles(S, avoid) == {s \in SetToSeqs(S) : Len(s) > 1 => s[1] # avoid}

\* The two effects that depend on [isIdle, photos.length], run when either has
\* changed: the clean-up of the rotation, a request for an album that is missing or
\* old, and the next turn.  `held', `asked' and `running' are the flag, the requests
\* and the timer as the handler leaves them.
RunEffects(held, asked, running) ==
    LET now == idle' /\ photos' # <<>>
        before == idle /\ photos # <<>>
        asks == idle' /\ (photos' = <<>> \/ albumStale')
    IN /\ rotateTimer' = (now \/ (idle' /\ ~before /\ running))
       /\ inflight' = (held /\ idle' /\ ~before)
       /\ albums' = asked + (IF asks /\ asked < MaxAlbums THEN 1 ELSE 0)

\* After a change of the photos alone.
PhotosChanged(held, asked, running) ==
    IF Len(photos') # Len(photos) THEN RunEffects(held, asked, running)
    ELSE inflight' = held /\ albums' = asked /\ rotateTimer' = running

-----------------------------------------------------------------------------
\* useIdleTimeout.
FallIdle ==
    /\ ~idle /\ idle' = TRUE /\ stuckBack' = FALSE
    /\ UNCHANGED <<photos, photosRef, currentIndex, lastShown, preloads, albumStale>>
    /\ RunEffects(inflight, albums, rotateTimer)

\* A second tap, a swipe up or a key: resetIdle.
Wake ==
    /\ idle /\ idle' = FALSE
    /\ UNCHANGED <<photos, photosRef, currentIndex, lastShown, preloads, albumStale, stuckBack>>
    /\ RunEffects(FALSE, albums, rotateTimer)

HourPasses ==
    /\ ~albumStale /\ albumStale' = TRUE
    /\ UNCHANGED <<idle, photos, photosRef, currentIndex, lastShown, rotateTimer, inflight,
                   preloads, albums, stuckBack>>

\* The answer is taken whether or not the screen is still idle.
AlbumArrives ==
    /\ albums > 0
    /\ \E S \in SUBSET Photo : \E s \in Shuffles(S, lastShown) :
        /\ photos' = s /\ photosRef' = s /\ currentIndex' = 0
        /\ lastShown' = PhotoAt(s, 0)
    /\ albumStale' = FALSE
    /\ UNCHANGED <<idle, preloads, stuckBack>>
    /\ PhotosChanged(inflight, albums - 1, rotateTimer)

\* The render loses the photos, the handlers keep them.
AlbumFails ==
    /\ albums > 0 /\ photos' = <<>>
    /\ UNCHANGED <<idle, photosRef, currentIndex, lastShown, preloads, albumStale, stuckBack>>
    /\ PhotosChanged(inflight, albums - 1, rotateTimer)

-----------------------------------------------------------------------------
\* goNext, once the guard has let it in; `running' is the timer.
NextPhoto(running) ==
    LET current == PhotoAt(photosRef, currentIndex)
        next == currentIndex + 1
        turn == next >= Len(photosRef)
    IN /\ UNCHANGED <<idle, currentIndex, lastShown, albumStale, stuckBack>>
       /\ IF turn
          THEN /\ photosRef' \in Shuffles(ToSet(photosRef), current)
               /\ photos' = photosRef'
          ELSE UNCHANGED <<photosRef, photos>>
       /\ LET index == IF turn THEN 0 ELSE next
              photo == PhotoAt(photosRef', index)
          IN IF photo \in {NoPhoto, current}
             THEN /\ UNCHANGED preloads
                  /\ PhotosChanged(FALSE, albums, TRUE)
             ELSE /\ Cardinality(preloads) < MaxPreloads
                  /\ preloads' = preloads \cup {[way |-> "next", photo |-> photo, index |-> index]}
                  /\ PhotosChanged(TRUE, albums, running)

Blocked == inflight \/ photosRef = <<>>

\* The timer is used up, whatever goNext does.
TurnComes ==
    /\ rotateTimer
    /\ IF Blocked
       THEN /\ rotateTimer' = FALSE
            /\ UNCHANGED <<idle, photos, photosRef, currentIndex, lastShown, inflight, preloads,
                           albums, albumStale, stuckBack>>
       ELSE NextPhoto(FALSE)

\* The buttons of the shown controls.
PressNext == idle /\ ~Blocked /\ NextPhoto(rotateTimer)

PressPrevious ==
    /\ idle /\ ~Blocked
    /\ LET index == IF currentIndex > 0 THEN currentIndex - 1 ELSE Len(photosRef) - 1
           photo == PhotoAt(photosRef, index)
       IN /\ photo # NoPhoto /\ Cardinality(preloads) < MaxPreloads
          /\ preloads' = preloads \cup {[way |-> "previous", photo |-> photo, index |-> index]}
    /\ inflight' = TRUE
    /\ UNCHANGED <<idle, photos, photosRef, currentIndex, lastShown, rotateTimer, albums,
                   albumStale, stuckBack>>

\* showPhoto, and the next turn, even on a screen that has been woken.
Preloaded(p) ==
    /\ p \in preloads /\ preloads' = preloads \ {p}
    /\ currentIndex' = p.index /\ lastShown' = p.photo
    /\ inflight' = FALSE /\ rotateTimer' = TRUE
    /\ UNCHANGED <<idle, photos, photosRef, albums, albumStale, stuckBack>>

\* Going back does not ask for the next turn when it fails.
PreloadFails(p) ==
    /\ p \in preloads /\ preloads' = preloads \ {p}
    /\ inflight' = FALSE
    /\ rotateTimer' = (rotateTimer \/ p.way = "next")
    /\ stuckBack' = (stuckBack \/ p.way = "previous")
    /\ UNCHANGED <<idle, photos, photosRef, currentIndex, lastShown, albums, albumStale>>

-----------------------------------------------------------------------------
SaverInit ==
    /\ idle = FALSE /\ photos = <<>> /\ photosRef = <<>> /\ currentIndex = 0
    /\ lastShown = NoPhoto /\ rotateTimer = FALSE /\ inflight = FALSE /\ preloads = {}
    /\ albums = 0 /\ albumStale = TRUE /\ stuckBack = FALSE

SaverNext ==
    \/ FallIdle \/ Wake \/ HourPasses \/ AlbumArrives \/ AlbumFails
    \/ TurnComes \/ PressNext \/ PressPrevious
    \/ \E p \in preloads : Preloaded(p) \/ PreloadFails(p)

SaverSpec == SaverInit /\ [][SaverNext]_saverVars
-----------------------------------------------------------------------------
SaverTypeOK ==
    /\ {idle, rotateTimer, inflight, albumStale, stuckBack} \subseteq BOOLEAN
    /\ {photos, photosRef} \subseteq SeqOf(Photo, Cardinality(Photo))
    /\ currentIndex \in Nat /\ lastShown \in Photo \cup {NoPhoto}
    /\ preloads \subseteq [way : {"next", "previous"}, photo : Photo, index : Nat]
    /\ Cardinality(preloads) <= MaxPreloads /\ albums \in 0 .. MaxAlbums

\* The photos of an idle screen go on turning, whatever is pressed, woken, lost or
\* answered late, unless going back has failed; and the buttons are never held
\* by a photo that is no longer loading (Screensaver.tsx, inflightRef, scheduleNext).
RotationGoesOn ==
    /\ idle /\ photos # <<>> /\ ~stuckBack => rotateTimer \/ preloads # {}
    /\ inflight => preloads # {}
=============================================================================
