---------------------------- MODULE SettingsLists ----------------------------
(***************************************************************************)
(* The settings that are lists: family members, kiosks, invites, SSO       *)
(* providers, AI providers, Immich albums (web/src/components/settings/)   *)
(* and calendar sources (components/calendar/SourceManager.tsx).  A tab    *)
(* reads its list when it is opened and again after each change it makes;  *)
(* nothing tells it of the changes of others, but for the synchronisation  *)
(* of a calendar.  A list is modelled by the number of changes it includes.*)
(***************************************************************************)
EXTENDS Naturals, FiniteSets

CONSTANTS
    Kiosk,          \* kiosks that may be added
    NoKiosk,        \* no QR code on the screen
    MaxRequests,    \* bound: presses that send a request, on each tab
    MaxForms,       \* bound: openings of the form, and of the editor
    MaxDrafts       \* bound: addresses typed

Tab == {"family", "kiosks", "invites", "sso", "ai", "immich", "sources"}

ASSUME SettingsListsAssumption ==
    /\ NoKiosk \notin Kiosk /\ MaxRequests \in [Tab -> Nat]
    /\ MaxForms \in Nat /\ MaxDrafts \in Nat

VARIABLES
    list,       \* the tab that is open
    atServer, listed,   \* changes made to the list, and changes the screen includes
    reads,      \* load()s on their way: their number and the changes made when they left
    unheard,    \* history: the list may be old, see QuietListIsCurrent
    readUpTo,   \* history: the newest read that was answered
    requests,   \* changes on their way
    sent,
    form,       \* the form for a new row: 0, or which opening of it is on the screen
    openings,
    adding,     \* "Adding...", "Saving..."
    made,       \* history: rows added by each opening
    answerLost, \* history: a change was made, and a request of the press failed
    popup,      \* the row being edited: 0, or which opening of the editor
    popups, popupBusy,
    leftOver,   \* history: a source was removed, and its particulars stayed in the form
    kiosks, token,  \* kiosks: "none", "there" or "gone", and the newest pairing token
    qr, qrToken,    \* the QR code on the screen
    crossed,    \* history: two requests about one kiosk were on their way at once
    draft,      \* the address typed for a new AI provider, album or source
    trying,     \* the address under test, or 0
    passed,     \* the address the test on the screen passed for, or 0
    retyped,    \* history: an address was typed during its test
    accepted, savedDraft    \* history: addresses that passed; the last one saved

readVars == <<atServer, listed, reads, unheard, readUpTo>>
formVars == <<form, openings, adding>>
popupVars == <<popup, popups, popupBusy, leftOver>>
kioskVars == <<kiosks, token>>
qrVars == <<qr, qrToken, crossed>>
draftVars == <<draft, trying, passed, retyped, accepted, savedDraft>>
madeVars == <<made, answerLost>>
listVars == <<list, readVars, requests, sent, formVars, madeVars, popupVars, kioskVars, qrVars,
              draftVars>>

ListsInit ==
    /\ list \in Tab
    /\ atServer = 0 /\ listed = 0 /\ unheard = FALSE /\ readUpTo = 0
    /\ reads = {[no |-> 0, from |-> 0]} /\ requests = {} /\ sent = 0
    /\ form = 0 /\ openings = 0 /\ adding = FALSE /\ made = [o \in 1 .. MaxForms |-> 0]
    /\ answerLost = FALSE
    /\ popup = 0 /\ popups = 0 /\ popupBusy = FALSE /\ leftOver = FALSE
    /\ kiosks = [k \in Kiosk |-> IF k = (CHOOSE j \in Kiosk : TRUE) THEN "there" ELSE "none"]
    /\ token = [k \in Kiosk |-> 0]
    /\ qr = NoKiosk /\ qrToken = 0 /\ crossed = FALSE
    /\ draft = 0 /\ trying = 0 /\ passed = 0 /\ retyped = FALSE
    /\ accepted = {} /\ savedDraft = 0

-----------------------------------------------------------------------------
\* load(): the answer replaces the list, whichever answer comes last.
Read(l) ==
    /\ l \in reads /\ reads' = reads \ {l}
    /\ \E v \in l.from .. atServer :
          /\ listed' = v
          /\ unheard' = (v < atServer /\ (unheard \/ l.no < readUpTo \/ v < listed))
    /\ readUpTo' = IF l.no > readUpTo THEN l.no ELSE readUpTo
    /\ UNCHANGED <<list, atServer, requests, sent, formVars, madeVars, popupVars,
                   kioskVars, qrVars, draftVars>>

\* .catch(() => {}): the list stays as it was.
ReadFails(l) ==
    /\ l \in reads /\ reads' = reads \ {l} /\ unheard' = TRUE
    /\ UNCHANGED <<list, atServer, listed, readUpTo, requests, sent, formVars, madeVars,
                   popupVars, kioskVars, qrVars, draftVars>>

Reload(r) == reads' = reads \cup {[no |-> r.no, from |-> atServer]}

\* Another adult changes the list; no message says so.
OthersChange ==
    /\ ~unheard /\ atServer' = atServer + 1 /\ unheard' = TRUE
    /\ atServer < MaxRequests[list]
    /\ UNCHANGED <<list, listed, reads, readUpTo, requests, sent, formVars, madeVars,
                   popupVars, kioskVars, qrVars, draftVars>>

\* A request leaves; it is "done" once the server has made the change.
Request(do, k) ==
    /\ sent < MaxRequests[list] /\ sent' = sent + 1
    /\ requests' = requests \cup {[no |-> sent', do |-> do, kiosk |-> k, form |-> form,
                                   sawQr |-> qr # NoKiosk, done |-> FALSE]}

\* The server makes the change a request asks for, if there is still something to change.
Commit(r) ==
    /\ r \in requests /\ ~r.done
    /\ r.kiosk # NoKiosk /\ r.do # "add" => kiosks[r.kiosk] = "there"
    /\ atServer' = IF r.do = "qr" THEN atServer ELSE atServer + 1
    /\ requests' = (requests \ {r}) \cup {[r EXCEPT !.done = TRUE]}
    /\ token' = IF list = "kiosks" /\ r.do \in {"add", "qr"}
                THEN [token EXCEPT ![r.kiosk] = r.no] ELSE token
    /\ kiosks' = IF list # "kiosks" THEN kiosks
                 ELSE IF r.do = "add" THEN [kiosks EXCEPT ![r.kiosk] = "there"]
                 ELSE IF r.do = "remove" THEN [kiosks EXCEPT ![r.kiosk] = "gone"]
                 ELSE kiosks
    /\ made' = IF r.do = "add" THEN [made EXCEPT ![r.form] = @ + 1] ELSE made
    /\ UNCHANGED <<list, answerLost, listed, reads, unheard, readUpTo, sent, formVars,
                   popupVars, qrVars, draftVars>>

Answered(r) == r \in requests /\ r.done /\ requests' = requests \ {r}

\* The answer is an error, or lost: the form stays and its button is given back;
\* nothing is loaded.
RequestFails(r) ==
    /\ r \in requests /\ requests' = requests \ {r}
    /\ unheard' = (unheard \/ r.done \/ r.do = "wire")
    /\ answerLost' = (answerLost \/ r.done \/ r.do = "wire")
    /\ adding' = IF r.do \in {"add", "wire"} /\ (list = "sso" => r.form = form)
                 THEN FALSE ELSE adding
    /\ popupBusy' = IF r.do = "edit" THEN FALSE ELSE popupBusy
    /\ UNCHANGED <<list, atServer, listed, reads, readUpTo, sent, form, openings, made,
                   popup, popups, leftOver, kioskVars, qrVars, draftVars>>

-----------------------------------------------------------------------------
\* The form for a new row is opened, and shut again; only the modal of SSO
\* forgets that it was saving.  The editor of a source covers the form.
OpenForm ==
    /\ list = "sources" => popup = 0
    /\ form = 0 /\ openings < MaxForms /\ openings' = openings + 1 /\ form' = openings'
    /\ adding' = (adding /\ list # "sso")
    /\ UNCHANGED <<list, readVars, requests, sent, madeVars, popupVars, kioskVars, qrVars,
                   draftVars>>

ShutForm ==
    /\ list = "sources" => popup = 0
    /\ form # 0 /\ form' = 0
    /\ draft' = 0 /\ passed' = 0
    /\ UNCHANGED <<list, readVars, requests, sent, openings, adding, madeVars, popupVars,
                   kioskVars, qrVars, trying, retyped, accepted, savedDraft>>

\* The editor of one row: a popup, or the row itself.
OpenPopup ==
    /\ list \in {"family", "ai", "immich"} /\ popup = 0
    /\ popups < MaxForms /\ popups' = popups + 1 /\ popup' = popups' /\ popupBusy' = FALSE
    /\ UNCHANGED <<list, readVars, requests, sent, formVars, madeVars, leftOver, kioskVars,
                   qrVars, draftVars>>

ShutPopup ==
    /\ list # "sources" /\ popup # 0 /\ popup' = 0
    /\ UNCHANGED <<list, readVars, requests, sent, formVars, madeVars, popups, popupBusy,
                   leftOver, kioskVars, qrVars, draftVars>>

\* Only the popup of a family member notices that it is saving.
SavePopup ==
    /\ list # "sources" /\ popup # 0 /\ (list = "family" => ~popupBusy)
    /\ popupBusy' = (list = "family") /\ Request("edit", NoKiosk)
    /\ UNCHANGED <<list, readVars, formVars, madeVars, popup, popups, leftOver, kioskVars,
                   qrVars, draftVars>>

\* The answer shuts whichever editor is open by now.
PopupSaved(r) ==
    /\ list # "sources" /\ r.do = "edit" /\ Answered(r) /\ popup' = 0 /\ Reload(r)
    /\ UNCHANGED <<list, atServer, listed, unheard, readUpTo, sent, formVars, madeVars,
                   popups, popupBusy, leftOver, kioskVars, qrVars, draftVars>>

\* Remove, Revoke, Set Active, Enable: no button waits for an earlier press.
ChangeRow ==
    /\ list \notin {"kiosks", "sources"} /\ Request("change", NoKiosk)
    /\ UNCHANGED <<list, readVars, formVars, madeVars, popupVars, kioskVars, qrVars,
                   draftVars>>

\* Mutant: the list is not read again.
RowChangedUnread(r) ==
    /\ r.do = "change" /\ Answered(r)
    /\ UNCHANGED <<list, readVars, sent, formVars, madeVars, popupVars, kioskVars, qrVars,
                   draftVars>>

RowChanged(r) ==
    /\ list # "sources" /\ r.do = "change" /\ Answered(r) /\ Reload(r)
    /\ UNCHANGED <<list, atServer, listed, unheard, readUpTo, sent, formVars, madeVars,
                   popupVars, kioskVars, qrVars, draftVars>>

-----------------------------------------------------------------------------
\* FamilyTab: the button of the form does not wait for an earlier press.
AddMember ==
    /\ list = "family" /\ form # 0 /\ Request("add", NoKiosk)
    /\ UNCHANGED <<list, readVars, formVars, madeVars, popupVars, kioskVars, qrVars,
                   draftVars>>

\* InvitesTab: there is no form to leave; each press is a new invite.
CreateInvite ==
    /\ list = "invites" /\ form # 0 /\ ~adding /\ adding' = TRUE /\ Request("add", NoKiosk)
    /\ UNCHANGED <<list, readVars, form, openings, madeVars, popupVars, kioskVars, qrVars,
                   draftVars>>

\* SsoTab and its modal.
SaveSso ==
    /\ list = "sso" /\ form # 0 /\ ~adding /\ adding' = TRUE /\ Request("add", NoKiosk)
    /\ UNCHANGED <<list, readVars, form, openings, madeVars, popupVars, kioskVars, qrVars,
                   draftVars>>

\* ImmichSourcesSettings: an album may be saved untested.
SaveAlbum ==
    /\ list = "immich" /\ form # 0 /\ draft # 0 /\ ~adding /\ adding' = TRUE
    /\ Request("add", NoKiosk)
    /\ UNCHANGED <<list, readVars, form, openings, madeVars, popupVars, kioskVars, qrVars,
                   draftVars>>

\* AIProviderSettings: only an address that passed its test is saved.
SaveProvider ==
    /\ list = "ai" /\ form # 0 /\ passed # 0 /\ ~adding /\ adding' = TRUE
    /\ savedDraft' = draft /\ Request("add", NoKiosk)
    /\ UNCHANGED <<list, readVars, form, openings, madeVars, popupVars, kioskVars, qrVars,
                   draft, trying, passed, retyped, accepted>>

\* ... which takes a second request, for its model.
ProviderMade(r) ==
    /\ list = "ai" /\ r.do = "add" /\ r \in requests /\ r.done
    /\ requests' = (requests \ {r}) \cup {[r EXCEPT !.do = "wire", !.done = FALSE]}
    /\ UNCHANGED <<list, readVars, sent, formVars, madeVars, popupVars, kioskVars, qrVars,
                   draftVars>>

\* A row was added: whichever form is open now is emptied and shut, and its
\* button is given back.
RowAdded(r) ==
    /\ r.do = IF list = "ai" THEN "wire" ELSE "add"
    /\ list # "kiosks" /\ Answered(r) /\ Reload(r)
    /\ form' = 0 /\ adding' = FALSE /\ draft' = 0 /\ passed' = 0
    /\ UNCHANGED <<list, atServer, listed, unheard, readUpTo, sent, openings, madeVars,
                   popupVars, kioskVars, qrVars, trying, retyped, accepted, savedDraft>>

-----------------------------------------------------------------------------
\* An address is typed; the verdict on the one before goes.
TypeDraft ==
    /\ list \in {"ai", "immich"} /\ form # 0 /\ draft < MaxDrafts
    /\ draft' = draft + 1 /\ retyped' = (retyped \/ trying # 0) /\ passed' = 0
    /\ UNCHANGED <<list, readVars, requests, sent, formVars, madeVars, popupVars,
                   kioskVars, qrVars, trying, accepted, savedDraft>>

TryDraft ==
    /\ list \in {"ai", "immich"} /\ form # 0 /\ draft # 0 /\ trying = 0
    /\ trying' = draft /\ passed' = 0
    /\ UNCHANGED <<list, readVars, requests, sent, formVars, madeVars, popupVars,
                   kioskVars, qrVars, draft, retyped, accepted, savedDraft>>

\* The verdict is about the form that is open when it comes.
Tried ==
    /\ trying # 0 /\ trying' = 0
    /\ \/ passed' = trying /\ accepted' = accepted \cup {trying}
       \/ passed' = 0 /\ UNCHANGED accepted
    /\ retyped' = (retyped \/ form = 0)
    /\ UNCHANGED <<list, readVars, requests, sent, formVars, madeVars, popupVars,
                   kioskVars, qrVars, draft, savedDraft>>

-----------------------------------------------------------------------------
\* SourceManager: the form for a new source and the editor share one draft, which the
\* editor fills with the row it is opened for.
RowDraft == MaxDrafts + 1

OpenSource ==
    /\ list = "sources" /\ popup = 0
    /\ popups < MaxForms /\ popups' = popups + 1 /\ popup' = popups' /\ draft' = RowDraft
    /\ UNCHANGED <<list, readVars, requests, sent, formVars, madeVars, popupBusy, leftOver,
                   kioskVars, qrVars, trying, passed, retyped, accepted, savedDraft>>

ShutSource ==
    /\ list = "sources" /\ popup # 0 /\ popup' = 0 /\ draft' = 0
    /\ UNCHANGED <<list, readVars, requests, sent, formVars, madeVars, popups, popupBusy,
                   leftOver, kioskVars, qrVars, trying, passed, retyped, accepted, savedDraft>>

\* The fields of the form.
TypeSource ==
    /\ list = "sources" /\ form # 0 /\ popup = 0 /\ draft < MaxDrafts /\ draft' = draft + 1
    /\ UNCHANGED <<list, readVars, requests, sent, formVars, madeVars, popupVars, kioskVars,
                   qrVars, trying, passed, retyped, accepted, savedDraft>>

\* The editor covers the form; no button waits for an earlier press.
AddSource ==
    /\ list = "sources" /\ form # 0 /\ popup = 0 /\ draft # 0
    /\ savedDraft' = draft /\ Request("add", NoKiosk)
    /\ UNCHANGED <<list, readVars, formVars, madeVars, popupVars, kioskVars, qrVars,
                   draft, trying, passed, retyped, accepted>>

\* What the editor sends is the draft; its fields are required.
SaveSource ==
    /\ list = "sources" /\ popup # 0 /\ draft # 0 /\ Request("edit", NoKiosk)
    /\ UNCHANGED <<list, readVars, formVars, madeVars, popupVars, kioskVars, qrVars,
                   draftVars>>

\* The answer shuts whichever editor is open by now, and empties the draft.
SourceSaved(r) ==
    /\ list = "sources" /\ r.do = "edit" /\ Answered(r) /\ Reload(r)
    /\ popup' = 0 /\ draft' = 0
    /\ UNCHANGED <<list, atServer, listed, unheard, readUpTo, sent, formVars, madeVars,
                   popups, popupBusy, leftOver, kioskVars, qrVars, trying, passed, retyped,
                   accepted, savedDraft>>

\* Removing is offered by the editor; its answer shuts the editor and leaves the draft.
RemoveSource ==
    /\ list = "sources" /\ popup # 0 /\ Request("change", NoKiosk)
    /\ UNCHANGED <<list, readVars, formVars, madeVars, popupVars, kioskVars, qrVars,
                   draftVars>>

SourceRemoved(r) ==
    /\ list = "sources" /\ r.do = "change" /\ Answered(r) /\ Reload(r)
    /\ popup' = 0 /\ leftOver' = TRUE
    /\ UNCHANGED <<list, atServer, listed, unheard, readUpTo, sent, formVars, madeVars,
                   popups, popupBusy, kioskVars, qrVars, draftVars>>

\* A calendar has been synchronised, which its row shows, and the message arrives.
SourceSynced ==
    /\ list = "sources" /\ sent < MaxRequests[list] /\ sent' = sent + 1
    /\ atServer' = atServer + 1
    /\ reads' = reads \cup {[no |-> sent', from |-> atServer']}
    /\ UNCHANGED <<list, listed, unheard, readUpTo, requests, formVars, madeVars, popupVars,
                   kioskVars, qrVars, draftVars>>

-----------------------------------------------------------------------------
Crossing(k) == crossed' = (crossed \/ \E r \in requests : r.kiosk = k)

\* KiosksTab: one kiosk is added at a time.
CreateKiosk(k) ==
    /\ list = "kiosks" /\ form # 0 /\ ~adding /\ kiosks[k] = "none"
    /\ \A r \in requests : r.kiosk # k
    /\ adding' = TRUE /\ Request("add", k)
    /\ UNCHANGED <<list, readVars, form, openings, madeVars, popupVars, kioskVars, qrVars,
                   draftVars>>

\* Its QR code is shown at once, and its name is cleared.
KioskCreated(r) ==
    /\ list = "kiosks" /\ r.do = "add" /\ Answered(r) /\ Reload(r)
    /\ form' = 0 /\ adding' = FALSE /\ qr' = r.kiosk /\ qrToken' = r.no
    /\ UNCHANGED <<list, atServer, listed, unheard, readUpTo, sent, openings, madeVars,
                   popupVars, kioskVars, crossed, draftVars>>

\* Show QR, Log out and Remove, of any row, however many times.
PressKiosk(k, do) ==
    /\ list = "kiosks" /\ kiosks[k] # "none"
    /\ Request(do, k) /\ Crossing(k)
    /\ UNCHANGED <<list, readVars, formVars, madeVars, popupVars, kioskVars, qr, qrToken,
                   draftVars>>

\* The list is not read again: showing a code does not change it.
QrShown(r) ==
    /\ r.do = "qr" /\ Answered(r) /\ qr' = r.kiosk /\ qrToken' = r.no
    /\ UNCHANGED <<list, readVars, sent, formVars, madeVars, popupVars, kioskVars,
                   crossed, draftVars>>

\* A code on the screen goes with the kiosk, or with any other, if it was there
\* when Remove was pressed.
KioskChanged(r) ==
    /\ list = "kiosks" /\ r.do \in {"logout", "remove"} /\ Answered(r) /\ Reload(r)
    /\ IF r.do = "remove" /\ r.sawQr THEN qr' = NoKiosk ELSE UNCHANGED qr
    /\ UNCHANGED <<list, atServer, listed, unheard, readUpTo, sent, formVars, madeVars,
                   popupVars, kioskVars, qrToken, crossed, draftVars>>

CloseQr ==
    /\ qr # NoKiosk /\ qr' = NoKiosk
    /\ UNCHANGED <<list, readVars, requests, sent, formVars, madeVars, popupVars,
                   kioskVars, qrToken, crossed, draftVars>>

ListsNext ==
    \/ \E l \in reads : Read(l) \/ ReadFails(l)
    \/ OthersChange \/ OpenForm \/ ShutForm \/ OpenPopup \/ ShutPopup \/ SavePopup \/ ChangeRow
    \/ AddMember \/ CreateInvite \/ SaveSso \/ SaveAlbum \/ SaveProvider
    \/ TypeDraft \/ TryDraft \/ Tried \/ CloseQr
    \/ OpenSource \/ ShutSource \/ TypeSource \/ AddSource \/ SaveSource \/ RemoveSource
    \/ SourceSynced
    \/ \E r \in requests :
          \/ Commit(r) \/ RequestFails(r) \/ PopupSaved(r) \/ RowChanged(r) \/ ProviderMade(r)
          \/ RowAdded(r) \/ SourceSaved(r) \/ SourceRemoved(r)
          \/ KioskCreated(r) \/ QrShown(r) \/ KioskChanged(r)
    \/ \E k \in Kiosk :
          CreateKiosk(k) \/ \E do \in {"qr", "logout", "remove"} : PressKiosk(k, do)

ListsSpec == ListsInit /\ [][ListsNext]_listVars

-----------------------------------------------------------------------------
ListsTypeOK ==
    /\ list \in Tab /\ atServer \in Nat /\ listed \in 0 .. atServer
    /\ form \in 0 .. openings /\ popup \in 0 .. popups
    /\ qr \in Kiosk \cup {NoKiosk} /\ kiosks \in [Kiosk -> {"none", "there", "gone"}]
    /\ adding \in BOOLEAN /\ popupBusy \in BOOLEAN /\ crossed \in BOOLEAN

\* A tab with nothing under way shows every change, unless an answer or a read
\* was lost, reads overtook one another, or somebody else made the change.
QuietListIsCurrent == reads = {} /\ requests = {} => listed = atServer \/ unheard

\* A form adds one row.  Exempt are the forms of the family and of the sources, which
\* may be pressed twice, and a form tried again after an error that came when the row was
\* made already.
AddOnce == list \notin {"family", "sources"} /\ ~answerLost => \A o \in DOMAIN made : made[o] <= 1

\* The QR code on the screen is one a kiosk can still be paired with, once
\* nothing is under way, unless two requests about the kiosk crossed or an answer
\* was lost.
QrIsLive ==
    qr # NoKiosk /\ requests = {} /\ ~crossed /\ ~answerLost =>
        kiosks[qr] = "there" /\ token[qr] = qrToken

\* The address of an AI provider passed the test before it was saved, unless
\* the form was changed while a test was under way.
SavedWasTested == list = "ai" /\ savedDraft # 0 => savedDraft \in accepted \/ retyped

\* What is added as a new source was typed for it, and is no copy of the row edited
\* before, unless a row was removed.
AddedIsTyped == list = "sources" /\ savedDraft = RowDraft => leftOver
=============================================================================
