----------------------------- MODULE KioskScreens -----------------------------
(***************************************************************************)
(* The screens a wall tablet and an adult's phone pair with, in web/src:   *)
(* SetupKiosk.tsx asks for a code and polls until it is approved,          *)
(* ApproveKiosk.tsx approves it on the phone, PairKiosk.tsx claims a link  *)
(* an adult has made.  The server's side is abstracted to what its answers *)
(* depend on; KioskPairing models it.  An effect that was cleaned up keeps *)
(* the request it awaits: `chains' holds one record for each run of it.    *)
(***************************************************************************)
EXTENDS Naturals, FiniteSets

CONSTANTS
    Code,       \* codes SetupKiosk may be given
    LinkCode,   \* codes of links, approved when they are made
    Adult,      \* a signed-in adult
    NoUser

ASSUME KioskScreensAssumption ==
    /\ Code \cap LinkCode = {} /\ Adult \notin Code \cup LinkCode
    /\ NoUser \notin Code \cup LinkCode \cup {Adult}

VARIABLES
    pairing,    \* the server's status of each code
    outdated,   \* codes past their fifteen minutes
    tabletUser, \* AuthContext.user of the tablet: a kiosk is named by its code
    tabletPage,
    chains,     \* runs of the effects: [code, at, live]
    linkCode,   \* the code in the address of PairKiosk
    confirmed,  \* PairKiosk.confirmed
    failed,     \* the page of the tablet shows an error
    phone,      \* the form of ApproveKiosk: [code, at]
    spoiled     \* history: codes with a lost answer to a claim or to what follows it

kioskScreenVars == <<pairing, outdated, tabletUser, tabletPage, chains, linkCode,
                     confirmed, failed, phone, spoiled>>
AnyCode == Code \cup LinkCode
Place == {"start", "sleep", "poll", "claim", "me"}
Chain == [code : AnyCode \cup {NoUser}, at : Place, live : BOOLEAN]
Run(g, at, alive) == [code |-> g, at |-> at, live |-> alive]
GoTo(c, at) == chains' = (chains \ {c}) \cup {Run(c.code, at, c.live)}
Drop(c) == chains' = chains \ {c}

\* The cleanup of an effect: its timer is cleared, its request is not.
Cancelled(cs) == {Run(c.code, c.at, FALSE) : c \in {d \in cs : d.at # "sleep"}}

Claimable(g) == pairing[g] = "approved" /\ g \notin outdated

-----------------------------------------------------------------------------
(***************************************************************************)
(* SetupKiosk.                                                             *)
(***************************************************************************)
OpenSetup ==
    /\ tabletPage # "setup" /\ tabletUser = NoUser
    /\ tabletPage' = "setup" /\ failed' = FALSE
    /\ chains' = Cancelled(chains) \cup {Run(NoUser, "start", TRUE)}
    /\ UNCHANGED <<pairing, outdated, tabletUser, linkCode, confirmed, phone, spoiled>>

\* "Back to sign in", and every other way off the page.
LeavePage ==
    /\ tabletPage \in {"setup", "pair"}
    /\ tabletPage' = IF tabletUser = NoUser THEN "login" ELSE "home"
    /\ chains' = Cancelled(chains)
    /\ UNCHANGED <<pairing, outdated, tabletUser, linkCode, confirmed, failed, phone, spoiled>>

CodeGiven(c) ==
    /\ c \in chains /\ c.at = "start"
    /\ \E g \in Code :
        /\ pairing[g] = "none"
        /\ pairing' = [pairing EXCEPT ![g] = "pending"]
        /\ chains' = (chains \ {c}) \cup (IF c.live THEN {Run(g, "poll", TRUE)} ELSE {})
    /\ UNCHANGED <<outdated, tabletUser, tabletPage, linkCode, confirmed, failed, phone, spoiled>>

StartFails(c) ==
    /\ c \in chains /\ c.at = "start"
    /\ Drop(c) /\ failed' = (failed \/ c.live)
    /\ UNCHANGED <<pairing, outdated, tabletUser, tabletPage, linkCode, confirmed, phone, spoiled>>

\* Approved: claim it, on the page or off it.  Expired: stop.  Anything else,
\* also claimed or revoked: again in two seconds, if the page is still there.
PollAnswered(c) ==
    /\ c \in chains /\ c.at = "poll"
    /\ CASE pairing[c.code] = "approved" -> GoTo(c, "claim") /\ UNCHANGED failed
         [] pairing[c.code] = "pending" /\ c.code \in outdated ->
                Drop(c) /\ failed' = (failed \/ c.live)
         [] OTHER -> (IF c.live THEN GoTo(c, "sleep") ELSE Drop(c)) /\ UNCHANGED failed
    /\ UNCHANGED <<pairing, outdated, tabletUser, tabletPage, linkCode, confirmed, phone, spoiled>>

Wake(c) ==
    /\ c \in chains /\ c.at = "sleep"
    /\ GoTo(c, "poll")
    /\ UNCHANGED <<pairing, outdated, tabletUser, tabletPage, linkCode, confirmed, failed,
                   phone, spoiled>>

\* What a run of either page's effect does after a failure.
GivesUp(c) ==
    IF c.code \in Code
    THEN (IF c.live THEN GoTo(c, "sleep") ELSE Drop(c)) /\ UNCHANGED failed
    ELSE Drop(c) /\ failed' = (failed \/ c.live)

Claimed(c) ==
    /\ c \in chains /\ c.at = "claim" /\ Claimable(c.code)
    /\ pairing' = [pairing EXCEPT ![c.code] = "claimed"]
    /\ IF c.code \in LinkCode /\ ~c.live THEN Drop(c) ELSE GoTo(c, "me")
    /\ UNCHANGED <<outdated, tabletUser, tabletPage, linkCode, confirmed, failed, phone, spoiled>>

ClaimFails(c) ==
    /\ c \in chains /\ c.at = "claim"
    /\ \/ UNCHANGED <<pairing, spoiled>>
       \/ /\ Claimable(c.code)
          /\ pairing' = [pairing EXCEPT ![c.code] = "claimed"]
          /\ spoiled' = spoiled \cup ({c.code} \cap Code)
    /\ GivesUp(c)
    /\ UNCHANGED <<outdated, tabletUser, tabletPage, linkCode, confirmed, phone>>

\* setUser and navigate, whether or not the page is still there.
TabletSignsIn(c) ==
    /\ c \in chains /\ c.at = "me"
    /\ tabletUser' = c.code /\ tabletPage' = "home"
    /\ chains' = Cancelled(chains \ {c})
    /\ UNCHANGED <<pairing, outdated, linkCode, confirmed, failed, phone, spoiled>>

TabletUnknown(c) ==
    /\ c \in chains /\ c.at = "me"
    /\ GivesUp(c)
    /\ spoiled' = spoiled \cup ({c.code} \cap Code)
    /\ UNCHANGED <<pairing, outdated, tabletUser, tabletPage, linkCode, confirmed, phone>>

-----------------------------------------------------------------------------
(***************************************************************************)
(* PairKiosk: a signed-in adult is asked first.                            *)
(***************************************************************************)
NeedsConfirm(u) == u = Adult

OpenLink(g) ==
    /\ tabletPage # "pair"
    /\ tabletPage' = "pair" /\ linkCode' = g /\ confirmed' = FALSE /\ failed' = FALSE
    /\ chains' = Cancelled(chains) \cup
                 (IF NeedsConfirm(tabletUser) THEN {} ELSE {Run(g, "claim", TRUE)})
    /\ UNCHANGED <<pairing, outdated, tabletUser, phone, spoiled>>

Confirm ==
    /\ tabletPage = "pair" /\ NeedsConfirm(tabletUser) /\ ~confirmed /\ ~failed
    /\ confirmed' = TRUE
    /\ chains' = Cancelled(chains) \cup {Run(linkCode, "claim", TRUE)}
    /\ UNCHANGED <<pairing, outdated, tabletUser, tabletPage, linkCode, failed, phone, spoiled>>

\* The adult's session ends: needsConfirm changes, so that the effect runs again.
SignedOut ==
    /\ tabletUser # NoUser /\ tabletUser' = NoUser
    /\ chains' = IF tabletPage = "pair" /\ NeedsConfirm(tabletUser)
                 THEN Cancelled(chains) \cup {Run(linkCode, "claim", TRUE)} ELSE chains
    /\ tabletPage' = IF tabletPage = "home" THEN "login" ELSE tabletPage
    /\ UNCHANGED <<pairing, outdated, linkCode, confirmed, failed, phone, spoiled>>

-----------------------------------------------------------------------------
(***************************************************************************)
(* The adult: ApproveKiosk on the phone, links and time.                   *)
(***************************************************************************)
OpenApproval(g) ==
    /\ phone.at = "closed" /\ pairing[g] = "pending"
    /\ phone' = [code |-> g, at |-> "form"]
    /\ UNCHANGED <<pairing, outdated, tabletUser, tabletPage, chains, linkCode, confirmed,
                   failed, spoiled>>

SendApproval ==
    /\ phone.at = "form"
    /\ phone' = [phone EXCEPT !.at = "sending"]
    /\ UNCHANGED <<pairing, outdated, tabletUser, tabletPage, chains, linkCode, confirmed,
                   failed, spoiled>>

\* Refused or lost, the form is there again with an error: when only the answer
\* was lost it can but fail from now on.
ApprovalAnswered ==
    /\ phone.at = "sending"
    /\ \/ /\ pairing[phone.code] = "pending" /\ phone.code \notin outdated
          /\ pairing' = [pairing EXCEPT ![phone.code] = "approved"]
          /\ phone' \in {[phone EXCEPT !.at = "form"], [code |-> NoUser, at |-> "closed"]}
       \/ UNCHANGED pairing /\ phone' = [phone EXCEPT !.at = "form"]
    /\ UNCHANGED <<outdated, tabletUser, tabletPage, chains, linkCode, confirmed, failed, spoiled>>

CloseApproval ==
    /\ phone.at = "form" /\ phone' = [code |-> NoUser, at |-> "closed"]
    /\ UNCHANGED <<pairing, outdated, tabletUser, tabletPage, chains, linkCode, confirmed,
                   failed, spoiled>>

Outdate(g) ==
    /\ g \in Code \ outdated /\ pairing[g] # "none" /\ outdated' = outdated \cup {g}
    /\ UNCHANGED <<pairing, tabletUser, tabletPage, chains, linkCode, confirmed, failed,
                   phone, spoiled>>

-----------------------------------------------------------------------------
KioskScreensInit ==
    /\ pairing = [g \in AnyCode |-> IF g \in Code THEN "none" ELSE "approved"]
    /\ outdated = {} /\ chains = {} /\ spoiled = {}
    /\ tabletUser \in {NoUser, Adult}
    /\ tabletPage = IF tabletUser = NoUser THEN "login" ELSE "home"
    /\ linkCode = NoUser /\ confirmed = FALSE /\ failed = FALSE
    /\ phone = [code |-> NoUser, at |-> "closed"]

ChainStep(c) ==
    \/ CodeGiven(c) \/ StartFails(c) \/ PollAnswered(c) \/ Wake(c)
    \/ Claimed(c) \/ ClaimFails(c) \/ TabletSignsIn(c) \/ TabletUnknown(c)

KioskScreensNext ==
    \/ OpenSetup \/ LeavePage \/ \E c \in chains : ChainStep(c)
    \/ \E g \in LinkCode : OpenLink(g)
    \/ \E g \in Code : OpenApproval(g) \/ Outdate(g)
    \/ Confirm \/ SignedOut \/ SendApproval \/ ApprovalAnswered \/ CloseApproval

\* The timer fires, requests are answered or aborted, and of a poll or a claim
\* that is repeated not every answer is lost.
KioskScreensFairness ==
    /\ \A g \in AnyCode : WF_kioskScreenVars(\E c \in chains : c.code = g /\ ChainStep(c))
    /\ \A g \in Code : SF_kioskScreenVars(\E c \in chains : c.code = g /\ Claimed(c))

KioskScreensSpec == KioskScreensInit /\ [][KioskScreensNext]_kioskScreenVars /\ KioskScreensFairness
-----------------------------------------------------------------------------
KioskScreensTypeOK ==
    /\ pairing \in [AnyCode -> {"none", "pending", "approved", "claimed"}]
    /\ outdated \subseteq Code /\ spoiled \subseteq Code /\ chains \subseteq Chain
    /\ tabletUser \in AnyCode \cup {Adult, NoUser} /\ linkCode \in AnyCode \cup {NoUser}
    /\ tabletPage \in {"setup", "pair", "login", "home"}
    /\ confirmed \in BOOLEAN /\ failed \in BOOLEAN

\* Leaving and reopening the set-up page never leaves a second poll running: of
\* the runs of the effect at most one is not cancelled, and no timer outlives one.
OnePollLoop ==
    /\ Cardinality({c \in chains : c.live}) <= 1
    /\ \A c \in chains : c.at = "sleep" => c.live

\* To end: a tablet shows a code that was approved, until it is signed in, the code
\* runs out or the page is left, or the answer to the claim itself is lost: then the
\* page polls a claimed code for ever.
ApprovalAwaited ==
    /\ tabletPage = "setup"
    /\ \E c \in chains : /\ c.live /\ c.code \in Code \ (outdated \cup spoiled)
                         /\ pairing[c.code] \in {"approved", "claimed"}

\* To end: the page of a link is open and has nothing to ask and no error to show,
\* also when the adult's session ends while the link is being claimed.
LinkAwaited ==
    tabletPage = "pair" /\ ~failed /\ ~(NeedsConfirm(tabletUser) /\ ~confirmed)
=============================================================================
