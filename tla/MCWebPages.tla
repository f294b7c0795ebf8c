------------------------------ MODULE MCWebPages -------------------------------
(***************************************************************************)
(* The pages of the web client, one at a time, each with the requests,     *)
(* timers and dialogues it starts: one page is on the screen, and what     *)
(* they share is on the server.  `visited' says which page is on the       *)
(* screen; the others are as they were before they were opened.            *)
(***************************************************************************)
EXTENDS DashboardEditor, MoneyPages, CalendarViews, SettingsForm, SettingsLists,
        ChoreScreens, CameraPages, Screensaver, TLC

CONSTANTS i1, i2, ann, bob

VARIABLE visited

Pages == {"home", "money", "views", "settings", "lists", "chores", "cameras", "saver"}

\* Three cards on a grid of two columns, and a layout of each format: none, the
\* list of the first version, the cells of the second, and one of today.
Rect(c, r, w, h) == [col |-> c, row |-> r, colSpan |-> w, rowSpan |-> h]
Cards == {"day", "chores", "weather"}
DefaultGrid == "day" :> Rect(1,1,1,1) @@ "chores" :> Rect(2,1,1,2) @@ "weather" :> Rect(1,3,2,1)
CardOrder == <<"day", "chores", "weather">>
KioskGrid == "day" :> Rect(1,1,2,2)
CardRows == [i \in Cards |-> IF i = "day" THEN 2 ELSE 1]
Layouts == {
    [format |-> "none"],
    [format |-> "list", value |-> <<[id |-> "day", colSpan |-> 1],
                                    [id |-> "weather", colSpan |-> 2]>>],
    [format |-> "legacy",
     value |-> [cards |-> "day" :> Rect(1,1,1,1) @@ "chores" :> Rect(1,2,1,1),
                mode |-> "scroll", totalRows |-> 2]],
    [format |-> "current",
     value |-> [cards |-> "day" :> Rect(1,2,1,1) @@ "chores" :> Rect(2,1,1,2)
                          @@ "weather" :> Rect(1,1,1,1),
                mode |-> "fill", totalRows |-> 2]]}

\* Two dialogues on the page whose list is short.
Openings == [p \in MoneyPage |-> IF p = "list" THEN 2 ELSE 1]

\* Two changes of a list cross; the forms that test an address have enough with one.
Requests == [t \in Tab |-> IF t \in {"ai", "immich"} THEN 1 ELSE 2]
Owners == i1 :> ann @@ i2 :> bob

pageVars == <<visited, editorVars, moneyVars, viewsVars, formStateVars, listVars,
              choreScreenVars, cameraVars, saverVars>>

\* A page that is not visited starts in one state.
WebPagesInit ==
    /\ visited \in Pages
    /\ EditorInit /\ MoneyInit /\ ViewsInit /\ SettingsInit /\ ListsInit
    /\ ChoreScreensInit /\ CameraInit /\ SaverInit
    /\ visited # "home" => stored.format = "none" /\ tall
    /\ visited # "money" => moneyPage = "list"
    /\ visited # "views" => looking = "week"
    /\ visited # "lists" => list = "family"
    /\ visited # "chores" => screen = "chores"
    /\ visited # "cameras" => part = "grid"

WebPagesNext ==
    \/ /\ visited = "home" /\ EditorNext
       /\ UNCHANGED <<visited, moneyVars, viewsVars, formStateVars, listVars,
                      choreScreenVars, cameraVars, saverVars>>
    \/ /\ visited = "money" /\ MoneyNext
       /\ UNCHANGED <<visited, editorVars, viewsVars, formStateVars, listVars,
                      choreScreenVars, cameraVars, saverVars>>
    \/ /\ visited = "views" /\ ViewsNext
       /\ UNCHANGED <<visited, editorVars, moneyVars, formStateVars, listVars,
                      choreScreenVars, cameraVars, saverVars>>
    \/ /\ visited = "settings" /\ SettingsNext
       /\ UNCHANGED <<visited, editorVars, moneyVars, viewsVars, listVars,
                      choreScreenVars, cameraVars, saverVars>>
    \/ /\ visited = "lists" /\ ListsNext
       /\ UNCHANGED <<visited, editorVars, moneyVars, viewsVars, formStateVars,
                      choreScreenVars, cameraVars, saverVars>>
    \/ /\ visited = "chores" /\ ChoreScreensNext
       /\ UNCHANGED <<visited, editorVars, moneyVars, viewsVars, formStateVars, listVars,
                      cameraVars, saverVars>>
    \/ /\ visited = "cameras" /\ CameraNext
       /\ UNCHANGED <<visited, editorVars, moneyVars, viewsVars, formStateVars, listVars,
                      choreScreenVars, saverVars>>
    \/ /\ visited = "saver" /\ SaverNext
       /\ UNCHANGED <<visited, editorVars, moneyVars, viewsVars, formStateVars, listVars,
                      choreScreenVars, cameraVars>>

WebPagesSpec == WebPagesInit /\ [][WebPagesNext]_pageVars
-----------------------------------------------------------------------------
\* The types of the page on the screen (web/src/pages, web/src/components); the
\* others are as they start, which is a state the page is typed in when it is visited.
WebPagesTypeOK ==
    CASE visited = "home" -> EditorTypeOK
      [] visited = "money" -> MoneyTypeOK
      [] visited = "views" -> ViewsTypeOK
      [] visited = "settings" -> SettingsTypeOK
      [] visited = "lists" -> ListsTypeOK
      [] visited = "chores" -> ChoreScreensTypeOK
      [] visited = "cameras" -> CameraTypeOK
      [] visited = "saver" -> SaverTypeOK

\* No card is lost on the side of the grid, and the layout the editor was left with
\* is the one that is stored (lib/gridLayout.ts, pages/Home.tsx).
LayoutKept == ColumnsKept /\ LastEditIsStored

\* A page on which nothing is under way shows what the server has, with its buttons
\* given back, whatever was posted, told and answered in whatever order, short of the losses each part names
\* (SandersCashKid.tsx, components/settings, Chores.tsx, Tasks.tsx).
QuietIsCurrent ==
    QuietPageIsCurrent /\ QuietListIsCurrent /\ ScreenIsCurrent /\ FormComesBack

\* A dialogue or a button adds, pays or counts once (AwardModal.tsx, the forms of the
\* settings, api/tasks.go).
SentOnce == AwardOnce /\ AddOnce /\ CountedOnce

\* What is saved is what was meant: settings nobody touched stay, a chore is
\* written over itself, an address was tested before, and what a test or a code on the
\* screen says is so (IntegrationsTab.tsx, Chores.tsx, AIProviderSettings.tsx,
\* SourceManager.tsx, KiosksTab.tsx).
KeptAsTyped ==
    UntouchedIsKept /\ EditIsItsOwn /\ SavedWasTested /\ AddedIsTyped /\ TestIsOfTheForm /\ QrIsLive

\* The views of the calendar draw every event once on each of its days, in lanes that
\* do not overlap (MonthView.tsx, WeekView.tsx, lib/calendar.ts).
ViewsFaithful == LanesApartAndFew /\ DrawnWhereItIs

\* Streams, microphones and photo turns belong to what is on the screen, and go on
\* or are given up with it (LiveStream.tsx, CameraGrid.tsx, useCameraIntercom.ts,
\* MotionAlert.tsx, Screensaver.tsx).
MediaAreOwned ==
    StreamsAreOwned /\ NewestIsKept /\ MicIsHeld /\ GridAndTrayAgree /\ RotationGoesOn
=============================================================================
