---------------------------- MODULE CalendarPages ----------------------------
(***************************************************************************)
(* The calendar page (web/src/pages/Calendar.tsx) and the list of          *)
(* sources in the settings (SourceManager.tsx), with the button that       *)
(* synchronises the calendars, the form that adds an event                 *)
(* (AddEventForm.tsx) and the dialogue that shows one (EventDetail.tsx).   *)
(* The server starts a synchronisation and answers at once; the button is  *)
(* given back by the message that ends any synchronisation.                *)
(***************************************************************************)
EXTENDS Naturals, Sequences

CONSTANTS
    Source,         \* the calendar sources the form offers
    CalDAV,         \* those whose calendars are read from their server
    NoSource,
    MaxPresses,     \* bound: presses of the button
    MaxEdits,       \* bound: openings of the form, and of the dialogue
    MaxForeign      \* bound: messages other browsers cause

ASSUME CalendarAssumption ==
    /\ CalDAV \subseteq Source /\ NoSource \notin Source
    /\ MaxPresses \in Nat /\ MaxEdits \in Nat /\ MaxForeign \in Nat

VARIABLES
    tab,        \* what is used: the "button" of the page or that of the list of "sources",
                \* the "form" or the "detail" of an event; they share no state
    syncing,    \* the button is spinning
    syncStatus, \* Calendar.tsx: the toast: "none", "results" or "failed"
    hiders,     \* timers that will hide the toast
    syncPosts,  \* requests to synchronise on their way
    syncJobs,   \* synchronisations the server runs
    calMail,    \* calendar messages on their way
    presses, foreign,
    syncDeaf,   \* history: a message was lost while the socket was closed
    form,       \* AddEventForm: the form on the screen
    lists,      \* requests for the calendars of a source, by the form's opening
    misfiled,   \* history: an event was posted to a source with a calendar of another
    savesGoing, \* posts of the form on their way
    listRaced,  \* history: the form took the calendars of a source no longer chosen
    detail,     \* EventDetail: the dialogue on the screen
    detailAsks  \* its saves and deletions on their way, by the dialogue's opening

syncVars == <<syncing, syncStatus, hiders, syncPosts, syncJobs, calMail, presses,
              foreign, syncDeaf>>
formVars == <<form, lists, misfiled, savesGoing, listRaced>>
detailVars == <<detail, detailAsks>>
calendarVars == <<tab, syncVars, formVars, detailVars>>

NoForm == [opening |-> 0, source |-> NoSource, owner |-> NoSource, loading |-> FALSE,
           saving |-> FALSE]
\* The event as it is, the form to change it, the question whether to delete it, and
\* the form with that question still open behind it.
DetailMode == {"closed", "shown", "editing", "confirm", "both"}
NoDetail == [opening |-> 0, mode |-> "closed", saving |-> FALSE, deleting |-> FALSE]

CalendarInit ==
    /\ tab \in {"button", "sources", "form", "detail"}
    /\ syncing = FALSE /\ syncStatus = "none" /\ hiders = 0 /\ syncPosts = 0
    /\ syncJobs = 0 /\ calMail = <<>> /\ presses = 0 /\ foreign = 0 /\ syncDeaf = FALSE
    /\ form = NoForm /\ lists = {} /\ misfiled = FALSE /\ savesGoing = {} /\ listRaced = FALSE
    /\ detail = NoDetail /\ detailAsks = {}

-----------------------------------------------------------------------------
(***************************************************************************)
(* The button.                                                             *)
(***************************************************************************)
PressSync ==
    /\ tab \in {"button", "sources"} /\ ~syncing /\ presses < MaxPresses
    /\ presses' = presses + 1 /\ syncing' = TRUE /\ syncPosts' = syncPosts + 1
    /\ syncStatus' = "none"
    /\ UNCHANGED <<tab, hiders, syncJobs, calMail, foreign, syncDeaf, formVars, detailVars>>

\* The server starts the synchronisation and answers.
SyncStarts ==
    /\ syncPosts > 0 /\ syncPosts' = syncPosts - 1 /\ syncJobs' = syncJobs + 1
    /\ UNCHANGED <<tab, syncing, syncStatus, hiders, calMail, presses, foreign, syncDeaf,
                   formVars, detailVars>>

\* The page shows a toast and has it hidden; the list of sources shows nothing.
Toast(kind) ==
    IF tab = "button" THEN syncStatus' = kind /\ hiders' = hiders + 1
    ELSE UNCHANGED <<syncStatus, hiders>>

\* The request fails, or its answer is lost when the server has started.
SyncFails ==
    /\ syncPosts > 0 /\ syncPosts' = syncPosts - 1 /\ syncJobs' \in {syncJobs, syncJobs + 1}
    /\ syncing' = FALSE /\ Toast("failed")
    /\ UNCHANGED <<tab, calMail, presses, foreign, syncDeaf, formVars, detailVars>>

\* SyncNow: a synchronisation ends, after two minutes at the latest.
SyncEnds ==
    /\ syncJobs > 0 /\ syncJobs' = syncJobs - 1 /\ calMail' = Append(calMail, "results")
    /\ UNCHANGED <<tab, syncing, syncStatus, hiders, syncPosts, presses, foreign, syncDeaf,
                   formVars, detailVars>>

\* Another browser changes an event, adds a source or synchronises.
OthersAct ==
    /\ tab \in {"button", "sources"} /\ foreign < MaxForeign /\ foreign' = foreign + 1
    /\ \E kind \in {"plain", "error", "results"} : calMail' = Append(calMail, kind)
    /\ UNCHANGED <<tab, syncing, syncStatus, hiders, syncPosts, syncJobs, presses, syncDeaf,
                   formVars, detailVars>>

\* calendar_synced with results, calendar_synced without, calendar_sync_error.
CalMailArrives ==
    /\ calMail # <<>> /\ calMail' = Tail(calMail)
    /\ IF tab = "sources" \/ Head(calMail) = "results" THEN syncing' = FALSE
       ELSE UNCHANGED syncing
    /\ IF Head(calMail) = "results" THEN Toast("results") ELSE UNCHANGED <<syncStatus, hiders>>
    /\ UNCHANGED <<tab, syncPosts, syncJobs, presses, foreign, syncDeaf, formVars, detailVars>>

CalMailLost ==
    /\ calMail # <<>> /\ calMail' = Tail(calMail) /\ syncDeaf' = TRUE
    /\ UNCHANGED <<tab, syncing, syncStatus, hiders, syncPosts, syncJobs, presses, foreign,
                   formVars, detailVars>>

\* The timer of any earlier toast hides the one on the screen.
HiderFires ==
    /\ hiders > 0 /\ hiders' = hiders - 1 /\ syncStatus' = "none"
    /\ UNCHANGED <<tab, syncing, syncPosts, syncJobs, calMail, presses, foreign, syncDeaf,
                   formVars, detailVars>>

-----------------------------------------------------------------------------
(***************************************************************************)
(* The form: the effect asks for the calendars of the chosen source; what  *)
(* an earlier source answers is not told apart.                            *)
(***************************************************************************)
Chosen(f, s) ==
    IF s \in CalDAV THEN [f EXCEPT !.source = s, !.loading = TRUE]
    ELSE [f EXCEPT !.source = s, !.owner = NoSource]

Asked(f, s) == lists' = IF s \in CalDAV THEN lists \cup {<<f.opening, s>>} ELSE lists

\* setAdding(true): the first active source is chosen.
OpenForm ==
    /\ tab = "form" /\ form.source = NoSource /\ form.opening < MaxEdits
    /\ \E s \in Source :
          LET f == [NoForm EXCEPT !.opening = form.opening + 1]
          IN form' = Chosen(f, s) /\ Asked(f, s)
    /\ UNCHANGED <<tab, syncVars, misfiled, savesGoing, listRaced, detailVars>>

ChooseSource(s) ==
    /\ form.source \notin {NoSource, s} /\ ~form.saving
    /\ form' = Chosen(form, s) /\ Asked(form, s)
    /\ UNCHANGED <<tab, syncVars, misfiled, savesGoing, listRaced, detailVars>>

\* The calendars of a source arrive, or its server cannot be read.
ListArrives(o, s) ==
    /\ <<o, s>> \in lists /\ lists' = lists \ {<<o, s>>}
    /\ IF o = form.opening /\ form.source # NoSource
       THEN /\ \E owner \in {s, NoSource} : form' = [form EXCEPT !.loading = FALSE, !.owner = owner]
            /\ listRaced' = (listRaced \/ s # form.source)
       ELSE UNCHANGED <<form, listRaced>>
    /\ UNCHANGED <<tab, syncVars, misfiled, savesGoing, detailVars>>

\* The button is grey while the calendars are read.
Sendable ==
    /\ form.source # NoSource /\ ~form.saving
    /\ form.source \in CalDAV => ~form.loading

SubmitEvent ==
    /\ Sendable
    /\ form' = [form EXCEPT !.saving = TRUE]
    /\ misfiled' = (misfiled \/ form.owner \notin {form.source, NoSource})
    /\ savesGoing' = savesGoing \cup {form.opening}
    /\ UNCHANGED <<tab, syncVars, lists, listRaced, detailVars>>

\* onCreated closes whatever form is open.
EventSaved(o) ==
    /\ o \in savesGoing /\ savesGoing' = savesGoing \ {o}
    /\ form' = [NoForm EXCEPT !.opening = form.opening]
    /\ UNCHANGED <<tab, syncVars, lists, misfiled, listRaced, detailVars>>

EventNotSaved(o) ==
    /\ o \in savesGoing /\ savesGoing' = savesGoing \ {o}
    /\ form' = IF o = form.opening /\ form.source # NoSource
               THEN [form EXCEPT !.saving = FALSE] ELSE form
    /\ UNCHANGED <<tab, syncVars, lists, misfiled, listRaced, detailVars>>

CancelForm ==
    /\ form.source # NoSource
    /\ form' = [NoForm EXCEPT !.opening = form.opening]
    /\ UNCHANGED <<tab, syncVars, lists, misfiled, savesGoing, listRaced, detailVars>>

-----------------------------------------------------------------------------
(***************************************************************************)
(* The dialogue of an event.  The handler of a request belongs to the      *)
(* dialogue it was sent from, but onClose closes whichever is open.        *)
(***************************************************************************)
OpenDetail ==
    /\ tab = "detail" /\ detail.mode = "closed" /\ detail.opening < MaxEdits
    /\ detail' = [NoDetail EXCEPT !.opening = detail.opening + 1, !.mode = "shown"]
    /\ UNCHANGED <<tab, syncVars, formVars, detailAsks>>

\* Edit and Cancel, Delete and No.
Turns == {{"shown", "editing"}, {"shown", "confirm"}, {"confirm", "both"}}

TurnDetail ==
    /\ \E mode \in DetailMode :
          /\ {detail.mode, mode} \in Turns
          /\ detail' = [detail EXCEPT !.mode = mode]
    /\ UNCHANGED <<tab, syncVars, formVars, detailAsks>>

SaveDetail ==
    /\ detail.mode \in {"editing", "both"} /\ ~detail.saving
    /\ detail' = [detail EXCEPT !.saving = TRUE]
    /\ detailAsks' = detailAsks \cup {<<detail.opening, "save">>}
    /\ UNCHANGED <<tab, syncVars, formVars>>

DeleteEvent ==
    /\ detail.mode = "confirm" /\ ~detail.deleting
    /\ detail' = [detail EXCEPT !.deleting = TRUE]
    /\ detailAsks' = detailAsks \cup {<<detail.opening, "delete">>}
    /\ UNCHANGED <<tab, syncVars, formVars>>

\* onUpdated() and onClose().
DetailDone(ask) ==
    /\ ask \in detailAsks /\ detailAsks' = detailAsks \ {ask}
    /\ detail' = [NoDetail EXCEPT !.opening = detail.opening]
    /\ UNCHANGED <<tab, syncVars, formVars>>

DetailFails(ask) ==
    /\ ask \in detailAsks /\ detailAsks' = detailAsks \ {ask}
    /\ detail' = IF ask[1] # detail.opening \/ detail.mode = "closed" THEN detail
                 ELSE IF ask[2] = "save" THEN [detail EXCEPT !.saving = FALSE]
                 ELSE [detail EXCEPT !.deleting = FALSE]
    /\ UNCHANGED <<tab, syncVars, formVars>>

CloseDetail ==
    /\ detail.mode # "closed" /\ detail' = [NoDetail EXCEPT !.opening = detail.opening]
    /\ UNCHANGED <<tab, syncVars, formVars, detailAsks>>

-----------------------------------------------------------------------------
Opening == 1 .. MaxEdits
Ask == Opening \X {"save", "delete"}
SyncAnswered == SyncStarts \/ SyncFails
EventAnswered(o) == EventSaved(o) \/ EventNotSaved(o)
DetailAnswered(ask) == DetailDone(ask) \/ DetailFails(ask)

CalendarNext ==
    \/ PressSync \/ SyncAnswered \/ SyncEnds \/ OthersAct \/ CalMailArrives \/ CalMailLost
    \/ HiderFires
    \/ OpenForm \/ (\E s \in Source : ChooseSource(s)) \/ SubmitEvent \/ CancelForm
    \/ \E o \in Opening : EventAnswered(o) \/ \E s \in CalDAV : ListArrives(o, s)
    \/ OpenDetail \/ TurnDetail \/ SaveDetail \/ DeleteEvent \/ CloseDetail
    \/ \E ask \in Ask : DetailAnswered(ask)

\* Requests end by an answer or a time limit, the server ends what it started
\* (its context has a deadline), messages arrive and timers fire.
CalendarFairness ==
    /\ WF_calendarVars(SyncAnswered \/ SyncEnds \/ CalMailArrives \/ HiderFires)
    /\ WF_calendarVars(\E o \in Opening : EventAnswered(o))
    /\ WF_calendarVars(\E o \in Opening, s \in CalDAV : ListArrives(o, s))
    /\ \A do \in {"save", "delete"} :
          WF_calendarVars(\E o \in Opening : DetailAnswered(<<o, do>>))

CalendarSpec == CalendarInit /\ [][CalendarNext]_calendarVars /\ CalendarFairness

-----------------------------------------------------------------------------
CalendarTypeOK ==
    /\ tab \in {"button", "sources", "form", "detail"}
    /\ syncing \in BOOLEAN /\ syncStatus \in {"none", "results", "failed"}
    /\ hiders \in Nat /\ syncPosts \in 0 .. MaxPresses /\ syncJobs \in 0 .. MaxPresses
    /\ form.source \in Source \cup {NoSource} /\ form.owner \in Source \cup {NoSource}
    /\ lists \subseteq Opening \X CalDAV
    /\ misfiled \in BOOLEAN /\ savesGoing \subseteq Opening
    /\ detail.mode \in DetailMode
    /\ detailAsks \subseteq Ask

\* AddEventForm.tsx:221: the calendar the form names is one of the source the
\* event is posted to, unless the answer of a source chosen earlier came late.
SavedWhereShown == misfiled => listRaced

\* To end: the spinning button, unless the message that stops it was lost, and
\* the saves; the toast, the calendars being read and the deletions.  (What stands
\* on one line belongs to different tabs.)
CalendarSaves == (syncing /\ ~syncDeaf) \/ form.saving \/ detail.saving
CalendarReads == syncStatus # "none" \/ form.loading \/ detail.deleting
=============================================================================
