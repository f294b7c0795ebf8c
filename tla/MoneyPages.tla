------------------------------ MODULE MoneyPages ------------------------------
(***************************************************************************)
(* The pages of the family currency in web/src/pages: the list of          *)
(* accounts (SandersCash.tsx), one kid's page (SandersCashKid.tsx) and the *)
(* reward store (RewardStore.tsx), with the dialogue that awards money     *)
(* (AwardModal.tsx).  What the server holds is a version, raised by every  *)
(* change of the ledger; a page holds the versions its parts were fetched  *)
(* at, or a message carried.  Answers may overtake one another.            *)
(***************************************************************************)
EXTENDS Naturals, Sequences

CONSTANTS
    NotYet,     \* a part of a page that was not loaded
    MaxChanges, \* bound: changes of the ledger
    MaxAsked,   \* bound: requests for one part on their way
    MaxOpened   \* bound: openings of the dialogue, on each page

MoneyPage == {"list", "kid", "store"}

ASSUME MoneyAssumption ==
    /\ MaxChanges \in Nat /\ MaxAsked \in Nat \ {0} /\ NotYet \notin Nat
    /\ MaxOpened \in [MoneyPage -> Nat]

VARIABLES
    moneyPage,  \* the page on the screen: "list", "kid" or "store"
    ledger,     \* version of the ledger at the server
    partsShown, \* version of each part of the page
    asked,      \* requests for a part the server has not answered yet
    answers,    \* answers for a part on their way
    notes,      \* messages on their way: the version of the accounts they carry
    dialogue,   \* which opening of AwardModal is on the screen, or 0
    uploading, posting, \* by opening: its uploads, and its posts, on their way
    editGoing,  \* an edit of a row, or of the store, is on its way
    opened, rowsPosted, postsUnheard,   \* history: dialogues opened, and by opening
                \* the rows it posted and those whose answer was lost
    blind       \* history: a change no message told, a message or a load lost,
                \* or an answer that was overtaken by a later one

awardVars == <<dialogue, uploading, posting, opened, rowsPosted, postsUnheard>>
moneyVars == <<moneyPage, ledger, partsShown, asked, answers, notes, editGoing, awardVars,
               blind>>
Part == {"account", "history", "pending"}
Version == 0 .. MaxChanges

\* What loadData, loadAccounts and load ask for.
Loaded(s) == CASE s = "list" -> {"account"}
               [] s = "kid" -> {"account"}
               [] s = "store" -> {"account", "pending"}

Ask(parts) ==
    /\ \A p \in parts : asked[p] < MaxAsked
    /\ asked' = [p \in Part |-> asked[p] + (IF p \in parts THEN 1 ELSE 0)]

\* loadData() and loadTransactions(), which does nothing before the account is there.
ReloadParts ==
    IF moneyPage = "kid" /\ partsShown["account"] # NotYet THEN Ask({"account", "history"})
    ELSE Ask(Loaded(moneyPage))

-----------------------------------------------------------------------------
(***************************************************************************)
(* Loading.                                                                *)
(***************************************************************************)
\* The server reads what it answers at some moment of the request.
Serve(p) ==
    /\ asked[p] > 0
    /\ asked' = [asked EXCEPT ![p] = @ - 1]
    /\ answers' = [answers EXCEPT ![p] = @ \cup {ledger}]
    /\ UNCHANGED <<editGoing, moneyPage, ledger, partsShown, notes, awardVars, blind>>

LoadFails(p) ==
    /\ asked[p] > 0
    /\ asked' = [asked EXCEPT ![p] = @ - 1]
    /\ blind' = TRUE
    /\ UNCHANGED <<editGoing, moneyPage, ledger, partsShown, answers, notes, awardVars>>

Older(p, v) == partsShown[p] # NotYet /\ v < partsShown[p]

\* A new account object runs the effect that reads the transactions.
PartAnswered(p, v) ==
    /\ v \in answers[p]
    /\ answers' = [answers EXCEPT ![p] = @ \ {v}]
    /\ partsShown' = [partsShown EXCEPT ![p] = v]
    /\ blind' = (blind \/ Older(p, v))
    /\ IF moneyPage = "kid" /\ p = "account" THEN Ask({"history"}) ELSE UNCHANGED asked
    /\ UNCHANGED <<editGoing, moneyPage, ledger, notes, awardVars>>

\* sanders_cash_accounts: the list takes the accounts it carries, a kid's page
\* reads again, the store does not listen.
Noted ==
    /\ notes # <<>> /\ notes' = Tail(notes)
    /\ CASE moneyPage = "list" ->
                partsShown' = [partsShown EXCEPT !["account"] = Head(notes)] /\ UNCHANGED asked
         [] moneyPage = "kid" -> ReloadParts /\ UNCHANGED partsShown
         [] moneyPage = "store" -> UNCHANGED <<partsShown, asked>>
    /\ UNCHANGED <<editGoing, moneyPage, ledger, answers, awardVars>>
    /\ blind' = (blind \/ (moneyPage = "list" /\ Older("account", Head(notes))))

\* The socket closes and opens again: what was sent meanwhile is not sent again.
NoteLost ==
    /\ notes # <<>> /\ notes' = Tail(notes) /\ blind' = TRUE
    /\ UNCHANGED <<editGoing, moneyPage, ledger, partsShown, asked, answers, awardVars>>

-----------------------------------------------------------------------------
(***************************************************************************)
(* Changes: a row posted, edited or deleted is told to every page, a       *)
(* redemption or a chore that is paid is not.                              *)
(***************************************************************************)
Raise == ledger < MaxChanges /\ ledger' = ledger + 1
Told == notes' = Append(notes, ledger')

ChangedElsewhere ==
    /\ Raise /\ Told /\ blind' = (blind \/ moneyPage = "store")
    /\ UNCHANGED <<editGoing, moneyPage, partsShown, asked, answers, awardVars>>

PaidSilently ==
    /\ Raise /\ blind' = TRUE
    /\ UNCHANGED <<editGoing, moneyPage, partsShown, asked, answers, notes, awardVars>>

\* TransactionPopup of the kid's page saves or deletes; its buttons are disabled
\* meanwhile.  The store resolves redemptions and creates rewards.  Bound: one of
\* them at a time, although the store, and a popup opened anew, would send another.
SendEdit ==
    /\ ~editGoing /\ moneyPage \in {"kid", "store"}
    /\ partsShown[IF moneyPage = "kid" THEN "history" ELSE "pending"] # NotYet
    /\ editGoing' = TRUE
    /\ UNCHANGED <<moneyPage, ledger, partsShown, asked, answers, notes, awardVars,
                   blind>>

EditTold == IF moneyPage = "kid" THEN Told ELSE UNCHANGED notes

EditAnswered ==
    /\ editGoing /\ editGoing' = FALSE
    /\ Raise /\ EditTold /\ ReloadParts
    /\ UNCHANGED <<moneyPage, partsShown, answers, awardVars, blind>>

\* The popup stays open, the store shows nothing: neither reads again.
EditFails ==
    /\ editGoing /\ editGoing' = FALSE
    /\ \/ UNCHANGED <<ledger, notes, blind>>
       \/ Raise /\ EditTold /\ blind' = (blind \/ moneyPage = "store")
    /\ UNCHANGED <<moneyPage, partsShown, asked, answers, awardVars>>

-----------------------------------------------------------------------------
(***************************************************************************)
(* AwardModal.  A dialogue that is closed while it submits goes on.        *)
(***************************************************************************)
OpenDialogue ==
    /\ dialogue = 0 /\ opened < MaxOpened[moneyPage] /\ partsShown["account"] # NotYet
    /\ opened' = opened + 1 /\ dialogue' = opened'
    /\ UNCHANGED <<editGoing, moneyPage, ledger, partsShown, asked, answers, notes,
                   uploading, posting, rowsPosted, postsUnheard, blind>>

CloseDialogue ==
    /\ dialogue # 0 /\ dialogue' = 0
    /\ UNCHANGED <<editGoing, moneyPage, ledger, partsShown, asked, answers, notes,
                   uploading, posting, opened, rowsPosted, postsUnheard, blind>>

More(f, o) == [f EXCEPT ![o] = @ + 1]
Fewer(f, o) == f[o] > 0 /\ f' = [f EXCEPT ![o] = @ - 1]
Submitting == uploading[dialogue] + posting[dialogue] > 0

\* Mutant: the button stays enabled while submitting.
SubmitAgain ==
    /\ dialogue # 0 /\ posting[dialogue] < 2
    /\ posting' = More(posting, dialogue)
    /\ UNCHANGED <<editGoing, moneyPage, ledger, partsShown, asked, answers, notes,
                   dialogue, uploading, opened, rowsPosted, postsUnheard, blind>>

\* The photos are uploaded one by one, then the row is posted.
Submit ==
    /\ dialogue # 0 /\ ~Submitting
    /\ \/ uploading' = More(uploading, dialogue) /\ UNCHANGED posting
       \/ posting' = More(posting, dialogue) /\ UNCHANGED uploading
    /\ UNCHANGED <<editGoing, moneyPage, ledger, partsShown, asked, answers, notes,
                   dialogue, opened, rowsPosted, postsUnheard, blind>>

\* An upload that fails gives the button back.
Uploaded(o) ==
    /\ Fewer(uploading, o)
    /\ \/ posting' = More(posting, o)
       \/ UNCHANGED posting
    /\ UNCHANGED <<editGoing, moneyPage, ledger, partsShown, asked, answers, notes,
                   dialogue, opened, rowsPosted, postsUnheard, blind>>

\* onAwarded and onClose, of whichever dialogue is open by now.
PostAnswered(o) ==
    /\ Fewer(posting, o)
    /\ Raise /\ Told /\ rowsPosted' = More(rowsPosted, o)
    /\ ReloadParts /\ dialogue' = 0
    /\ UNCHANGED <<editGoing, moneyPage, partsShown, answers, uploading, opened,
                   postsUnheard, blind>>

PostFails(o) ==
    /\ Fewer(posting, o)
    /\ \/ UNCHANGED <<ledger, notes, rowsPosted, postsUnheard, blind>>
       \/ /\ Raise /\ Told /\ rowsPosted' = More(rowsPosted, o)
          /\ postsUnheard' = More(postsUnheard, o)
          /\ blind' = (blind \/ moneyPage = "store")
    /\ UNCHANGED <<editGoing, moneyPage, partsShown, asked, answers, dialogue,
                   uploading, opened>>

-----------------------------------------------------------------------------
Nought == [o \in 1 .. MaxOpened[moneyPage] |-> 0]

MoneyInit ==
    /\ moneyPage \in MoneyPage /\ ledger = 0
    /\ partsShown = [p \in Part |-> NotYet]
    /\ asked = [p \in Part |-> IF p \in Loaded(moneyPage) THEN 1 ELSE 0]
    /\ answers = [p \in Part |-> {}] /\ notes = <<>>
    /\ dialogue = 0 /\ opened = 0
    /\ uploading = Nought /\ posting = Nought /\ rowsPosted = Nought /\ postsUnheard = Nought
    /\ editGoing = FALSE /\ blind = FALSE

MoneyNext ==
    \/ \E p \in Part : Serve(p) \/ LoadFails(p) \/ \E v \in answers[p] : PartAnswered(p, v)
    \/ Noted \/ NoteLost \/ ChangedElsewhere \/ PaidSilently
    \/ SendEdit \/ EditAnswered \/ EditFails
    \/ OpenDialogue \/ CloseDialogue \/ Submit
    \/ \E o \in 1 .. MaxOpened[moneyPage] : Uploaded(o) \/ PostAnswered(o) \/ PostFails(o)

MoneySpec == MoneyInit /\ [][MoneyNext]_moneyVars
-----------------------------------------------------------------------------
MoneyTypeOK ==
    /\ moneyPage \in MoneyPage
    /\ ledger \in Version /\ partsShown \in [Part -> Version \cup {NotYet}]
    /\ asked \in [Part -> 0 .. MaxAsked] /\ answers \in [Part -> SUBSET Version]
    /\ notes \in Seq(Version) /\ {editGoing, blind} \subseteq BOOLEAN
    /\ dialogue \in 0 .. opened /\ {uploading, posting} \subseteq [1 .. MaxOpened[moneyPage] -> 0 .. 1]

Quiet == notes = <<>> /\ \A p \in Part : asked[p] = 0 /\ answers[p] = {}

\* Once nothing is on its way every part of the page is the ledger's: a change
\* that is told is never missed, whatever it interleaves with.  It does not hold
\* for payments nobody announces, for lost messages and failed loads, which are not
\* repeated, nor when an answer overtakes a later one; the store does not listen.
QuietPageIsCurrent ==
    Quiet /\ ~blind => \A p \in Part : partsShown[p] \in {NotYet, ledger}

\* A dialogue pays at most once, closed or not, unless the answer to a post that
\* went through was lost: then the form asks to try again.
AwardOnce == \A o \in 1 .. opened : rowsPosted[o] <= 1 + postsUnheard[o]
=============================================================================
