------------------------------- MODULE MCWebLive -------------------------------
(***************************************************************************)
(* The parts of the web client that live by requests, timers and messages, *)
(* one of them at a time: they share no state but the session, which       *)
(* SignIn has and the others do not need.  `at' says which part runs; the  *)
(* others are as they were before they were opened, when none of their     *)
(* fair actions is enabled.                                                *)
(***************************************************************************)
EXTENDS LiveData, LiveSocket, SignIn, KioskScreens, CalendarPages

VARIABLE at

Parts == {"data", "socket", "sign-in", "kiosk", "calendar"}

webVars == <<at, liveVars, socketVars, signInVars, kioskScreenVars, calendarVars>>

\* A part that does not run starts in one state.
WebLiveInit ==
    /\ at \in Parts
    /\ LiveInit /\ SocketInit /\ SignInInit /\ KioskScreensInit /\ CalendarInit
    /\ at # "data" => kind = [p \in Part |-> "pushed"]
    /\ at # "sign-in" => cookie = Nobody /\ ~family /\ route = "/"
    /\ at # "kiosk" => tabletUser = NoUser
    /\ at # "calendar" => tab = "button"

WebLiveNext ==
    \/ /\ at = "data" /\ LiveNext
       /\ UNCHANGED <<at, socketVars, signInVars, kioskScreenVars, calendarVars>>
    \/ /\ at = "socket" /\ SocketNext
       /\ UNCHANGED <<at, liveVars, signInVars, kioskScreenVars, calendarVars>>
    \/ /\ at = "sign-in" /\ SignInNext
       /\ UNCHANGED <<at, liveVars, socketVars, kioskScreenVars, calendarVars>>
    \/ /\ at = "kiosk" /\ KioskScreensNext
       /\ UNCHANGED <<at, liveVars, socketVars, signInVars, calendarVars>>
    \/ /\ at = "calendar" /\ CalendarNext
       /\ UNCHANGED <<at, liveVars, socketVars, signInVars, kioskScreenVars>>

WebLiveSpec ==
    /\ WebLiveInit /\ [][WebLiveNext]_webVars
    /\ LiveFairness /\ SocketFairness /\ SignInFairness
    /\ KioskScreensFairness /\ CalendarFairness
-----------------------------------------------------------------------------
\* The types of every part (web/src/lib/query.ts, contexts, pages).
WebLiveTypeOK ==
    /\ at \in Parts
    /\ LiveTypeOK /\ SocketTypeOK /\ SignInTypeOK /\ KioskScreensTypeOK /\ CalendarTypeOK

\* However remounts, notices, sign-outs and timers interleave there is one request
\* for a key of the cache (query.ts), one socket of a browser
\* (WebSocketContext.tsx) and one poll loop of a kiosk (SetupKiosk.tsx).
OneAtATime == OneFetchPerKey /\ OneSocket /\ OnePollLoop

\* No part believes what is not so, short of the races it names: a stale entry is
\* being read again (query.ts), the screen is drawn for the user of the session and a
\* user rules the first-run setup out (AuthContext.tsx), and an event is posted to a
\* calendar of its source (AddEventForm.tsx).
ScreensAreTrue == StaleIsPursued /\ ScreenIsSession /\ SetupOrUser /\ SavedWhereShown

\* What a mounted component shows comes, and becomes what the server has, by the
\* Update button or by polling, whatever messages were lost (query.ts).
DataCatchesUp == MountedLoads /\ UpdateCatchesUp /\ PollCatchesUp

\* What the screens make somebody wait for; no two stand for the same part.
Awaited == FormInProgress \/ LinkAwaited \/ CalendarSaves
Overdue == DroppedOnScreen \/ ApprovalAwaited \/ CalendarReads

\* Nobody is made to wait for ever: forms and sign-outs end (Login.tsx, Setup.tsx,
\* JoinFamily.tsx, OAuthComplete.tsx), a link ends in a sign-in or an error
\* (PairKiosk.tsx), an approved tablet signs in (SetupKiosk.tsx), a dropped session
\* leaves the screen (AuthContext.tsx), the calendar gives its buttons back
\* (Calendar.tsx), and the socket comes back (WebSocketContext.tsx).
ScreensSettle == SocketComesBack /\ (Awaited ~> ~Awaited) /\ (Overdue ~> ~Overdue)
=============================================================================
