-------------------------------- MODULE SignIn --------------------------------
(***************************************************************************)
(* Who the browser is signed in as: the session cookie, the user the       *)
(* screens are drawn for (contexts/AuthContext.tsx) and the five places    *)
(* that change them: the start of the application, the sign-in page, the   *)
(* first-run setup, the acceptance of an invite and the completion of an   *)
(* OAuth sign-in, all of web/src.  The requests of the other screens sign  *)
(* the user out when the server no longer knows the session.               *)
(***************************************************************************)
EXTENDS Naturals, FiniteSets

CONSTANTS
    Member,         \* accounts a password or an invite may sign in to
    Nobody,         \* null: no user, no session
    Idle,           \* no handler is awaiting an answer
    MaxSignIns,     \* bound: forms submitted
    MaxCalls        \* bound: requests of the screens on their way

\* Handlers with a second request: who is it now, or is there a family?
Forms == {"login", "setup", "join", "link"}
Flow == [form : Forms \cup {"oauth", "logout"}, at : {"post", "me", "status"}, as : Member]

ASSUME SignInAssumption ==
    /\ Nobody \notin Member /\ Idle \notin Flow
    /\ MaxSignIns \in Nat /\ MaxCalls \in Nat

VARIABLES
    session,    \* sessions the server knows, by account
    family,     \* a family has been set up
    cookie,     \* the session cookie of the browser
    user,       \* AuthContext.user
    loading, needsSetup,
    route,      \* the page the router shows
    startup,    \* the first effect of AuthProvider: "none" before it has run, the
                \* request it awaits, or "done"
    sentAs,     \* the cookie its /api/auth/me was sent with
    flow,       \* the form handler or sign-out in progress: [form, at, as]
    calls,      \* cookies the requests on their way were sent with
    signIns,
    overtaken   \* history: the startup answer arrived under another cookie, or a
                \* sign-in over a signed-in screen lost its second answer

signInVars == <<session, family, cookie, user, loading, needsSetup, route, startup,
                sentAs, flow, calls, signIns, overtaken>>
Account == Member \cup {Nobody}
Route == {"/", "/login", "/setup", "/join", "/oauth"}

AssignUser(u) ==
    /\ user' = u
    /\ needsSetup' = (needsSetup /\ u = Nobody)

-----------------------------------------------------------------------------
(***************************************************************************)
(* The application starts: who am I, and if that fails, is there a family? *)
(***************************************************************************)
Start ==
    /\ startup = "none" /\ startup' = "me" /\ sentAs' = cookie
    /\ UNCHANGED <<session, family, cookie, user, loading, needsSetup, route, flow, calls,
                   signIns, overtaken>>

StartupKnown ==
    /\ startup = "me" /\ sentAs \in session
    /\ AssignUser(sentAs)
    /\ startup' = "done" /\ loading' = FALSE
    /\ overtaken' = (overtaken \/ sentAs # cookie)
    /\ UNCHANGED <<session, family, cookie, route, sentAs, flow, calls, signIns>>

StartupUnknown ==
    /\ startup = "me"
    /\ startup' = "status"
    /\ UNCHANGED <<session, family, cookie, user, loading, needsSetup, route, sentAs,
                   flow, calls, signIns, overtaken>>

\* Mutant: without an answer the application stays loading.
StartupStillLoading ==
    /\ startup = "status"
    /\ startup' = "done"
    /\ \/ loading' = FALSE /\ needsSetup' = ~family
       \/ UNCHANGED <<loading, needsSetup>>
    /\ UNCHANGED <<session, family, cookie, user, route, sentAs, flow, calls,
                   signIns, overtaken>>

StartupStatus ==
    /\ startup = "status"
    /\ startup' = "done" /\ loading' = FALSE
    /\ needsSetup' \in {~family, needsSetup}
    /\ UNCHANGED <<session, family, cookie, user, route, sentAs, flow, calls,
                   signIns, overtaken>>

\* RequireAuth, and the early returns of Login and Setup.
Redirect ==
    /\ route' = CASE route = "/" /\ ~loading /\ user = Nobody ->
                        IF needsSetup THEN "/setup" ELSE "/login"
                  [] route = "/login" /\ user # Nobody -> "/"
                  [] route = "/setup" /\ ~loading /\ user # Nobody -> "/"
                  [] route = "/setup" /\ ~loading /\ user = Nobody /\ ~needsSetup -> "/login"
                  [] OTHER -> route
    /\ route' # route
    /\ UNCHANGED <<session, family, cookie, user, loading, needsSetup, startup, sentAs,
                   flow, calls, signIns, overtaken>>

-----------------------------------------------------------------------------
(***************************************************************************)
(* The forms.  Each posts, and then asks who it is now.  A second submit   *)
(* waits for the first: the button is disabled while submitting.           *)
(***************************************************************************)
Submit(form, m) ==
    /\ flow = Idle /\ signIns < MaxSignIns
    /\ signIns' = signIns + 1
    /\ flow' = [form |-> form, at |-> "post", as |-> m]
    /\ UNCHANGED <<session, family, cookie, user, loading, needsSetup, route, startup,
                   sentAs, calls, overtaken>>

SubmitLogin(m) == route = "/login" /\ user = Nobody /\ Submit("login", m)
SubmitSetup(m) == /\ route = "/setup" /\ ~loading /\ user = Nobody /\ needsSetup
                  /\ Submit("setup", m)
SubmitJoin(m) == route = "/join" /\ Submit("join", m)
SubmitLink(m) == route = "/oauth" /\ Submit("link", m)

\* A family is set up once; the other forms need one.
Accepts(f) == (f.form = "setup") # family

\* The server signs the account in; its answer carries the cookie.
PostAccepted ==
    /\ flow # Idle /\ flow.form \in Forms /\ flow.at = "post" /\ Accepts(flow)
    /\ session' = session \cup {flow.as} /\ cookie' = flow.as
    /\ family' = TRUE
    /\ flow' = [flow EXCEPT !.at = "me"]
    /\ UNCHANGED <<user, loading, needsSetup, route, startup, sentAs, calls, signIns, overtaken>>

\* The form is refused, or its answer is lost with or without the server
\* having taken it; the client gives up after ten seconds.
PostFails ==
    /\ flow # Idle /\ flow.form \in Forms /\ flow.at = "post"
    /\ \/ UNCHANGED <<session, family>>
       \/ Accepts(flow) /\ session' = session \cup {flow.as} /\ family' = TRUE
    /\ flow' = Idle
    /\ UNCHANGED <<cookie, user, loading, needsSetup, route, startup, sentAs, calls,
                   signIns, overtaken>>

\* The user is the one the cookie of the answer belongs to.
MeAnswered ==
    /\ flow # Idle /\ flow.at = "me" /\ cookie \in session
    /\ AssignUser(cookie)
    /\ route' = "/" /\ flow' = Idle
    /\ UNCHANGED <<session, family, cookie, loading, startup, sentAs, calls, signIns, overtaken>>

\* Only the linking page falls back on the answer of its first request; on the
\* others the form shows a failure although the browser is signed in.
MeFails ==
    /\ flow # Idle /\ flow.at = "me"
    /\ IF flow.form = "link" THEN AssignUser(flow.as) /\ route' = "/"
       ELSE UNCHANGED <<user, needsSetup, route>>
    /\ flow' = Idle
    /\ overtaken' = (overtaken \/ user # Nobody)
    /\ UNCHANGED <<session, family, cookie, loading, startup, sentAs, calls, signIns>>

\* The first effect of OAuthComplete: the server has set the cookie on the
\* redirect and the page asks who it is.
OAuthReturns(m) ==
    /\ flow = Idle /\ signIns < MaxSignIns
    /\ signIns' = signIns + 1
    /\ session' = session \cup {m} /\ cookie' = m /\ family
    /\ route' = "/oauth"
    /\ user' = Nobody /\ loading' = TRUE /\ needsSetup' = FALSE \* a full page load
    /\ startup' = "me" /\ sentAs' = m /\ calls' = {}
    /\ flow' = [form |-> "oauth", at |-> "me", as |-> m]
    /\ UNCHANGED <<family, overtaken>>

-----------------------------------------------------------------------------
(***************************************************************************)
(* Signing out, from the menu of the shell.                                *)
(***************************************************************************)
Logout ==
    /\ route = "/" /\ user # Nobody /\ flow = Idle
    /\ flow' = [form |-> "logout", at |-> "post", as |-> user]
    /\ UNCHANGED <<session, family, cookie, user, loading, needsSetup, route, startup,
                   sentAs, calls, signIns, overtaken>>

\* Mutant: the user is not cleared.
LogoutKeepsUser ==
    /\ flow # Idle /\ flow.form = "logout" /\ flow.at = "post"
    /\ session' = session \ {cookie} /\ cookie' = Nobody
    /\ flow' = [flow EXCEPT !.at = "status"]
    /\ UNCHANGED <<family, user, loading, needsSetup, route, startup, sentAs, calls,
                   signIns, overtaken>>

LogoutAnswered ==
    /\ flow # Idle /\ flow.form = "logout" /\ flow.at = "post"
    /\ session' = session \ {cookie} /\ cookie' = Nobody
    /\ user' = Nobody
    /\ flow' = [flow EXCEPT !.at = "status"]
    /\ UNCHANGED <<family, loading, needsSetup, route, startup, sentAs, calls, signIns, overtaken>>

\* The rejection is nobody's: the user stays on the screen.
LogoutFails ==
    /\ flow # Idle /\ flow.form = "logout" /\ flow.at = "post"
    /\ session' \in {session, session \ {cookie}}
    /\ flow' = Idle
    /\ UNCHANGED <<family, cookie, user, loading, needsSetup, route, startup, sentAs,
                   calls, signIns, overtaken>>

LogoutStatus ==
    /\ flow # Idle /\ flow.form = "logout" /\ flow.at = "status"
    /\ needsSetup' \in {~family, FALSE}
    /\ flow' = Idle
    /\ UNCHANGED <<session, family, cookie, user, loading, route, startup, sentAs, calls,
                   signIns, overtaken>>

-----------------------------------------------------------------------------
(***************************************************************************)
(* The requests of the other screens.                                      *)
(***************************************************************************)
Call ==
    /\ user # Nobody /\ cookie \notin calls /\ Cardinality(calls) < MaxCalls
    /\ calls' = calls \cup {cookie}
    /\ UNCHANGED <<session, family, cookie, user, loading, needsSetup, route, startup,
                   sentAs, flow, signIns, overtaken>>

\* request() in api/client.ts: a 401 calls the handler AuthProvider has set,
\* whoever has signed in since.
CallAnswered(c) ==
    /\ c \in calls /\ calls' = calls \ {c}
    /\ IF c \in session THEN UNCHANGED <<user, needsSetup>> ELSE AssignUser(Nobody)
    /\ UNCHANGED <<session, family, cookie, loading, route, startup, sentAs, flow,
                   signIns, overtaken>>

CallLost(c) ==
    /\ c \in calls /\ calls' = calls \ {c}
    /\ UNCHANGED <<session, family, cookie, user, loading, needsSetup, route, startup,
                   sentAs, flow, signIns, overtaken>>

\* The server forgets a session: it expires, or an adult revokes it.
Expire(m) ==
    /\ m \in session /\ session' = session \ {m}
    /\ UNCHANGED <<family, cookie, user, loading, needsSetup, route, startup, sentAs,
                   flow, calls, signIns, overtaken>>

\* Another browser sets the family up.
SetUpElsewhere ==
    /\ ~family /\ family' = TRUE
    /\ UNCHANGED <<session, cookie, user, loading, needsSetup, route, startup, sentAs,
                   flow, calls, signIns, overtaken>>

\* An address is opened in the running application, while nothing is awaited.
Open(r) ==
    /\ flow = Idle /\ r # route /\ route' = r
    /\ UNCHANGED <<session, family, cookie, user, loading, needsSetup, startup, sentAs,
                   flow, calls, signIns, overtaken>>

-----------------------------------------------------------------------------
SignInInit ==
    /\ cookie \in Account /\ session \in SUBSET (Member \cap {cookie})
    /\ family \in BOOLEAN /\ (session # {} => family)
    /\ user = Nobody /\ loading = TRUE /\ needsSetup = FALSE
    /\ route \in Route \ {"/oauth"} /\ startup = "none" /\ sentAs = cookie
    /\ flow = Idle /\ calls = {} /\ signIns = 0 /\ overtaken = FALSE

Answers ==
    \/ StartupKnown \/ StartupUnknown \/ StartupStatus
    \/ PostAccepted \/ PostFails \/ MeAnswered \/ MeFails
    \/ LogoutAnswered \/ LogoutFails \/ LogoutStatus

SignInNext ==
    \/ Start \/ Answers \/ Redirect \/ Logout
    \/ \E m \in Member : \/ SubmitLogin(m) \/ SubmitSetup(m) \/ SubmitJoin(m) \/ SubmitLink(m)
                         \/ OAuthReturns(m) \/ Expire(m)
    \/ Call \/ \E c \in calls : CallAnswered(c) \/ CallLost(c)
    \/ SetUpElsewhere \/ \E r \in Route : Open(r)

\* Every request of the client is answered or given up within ten seconds; the
\* home page, which stays mounted, polls, and not every answer it asks for is lost.
SignInFairness ==
    /\ WF_signInVars(Answers) /\ WF_signInVars(Call)
    /\ SF_signInVars(\E c \in calls : CallAnswered(c))

SignInSpec == SignInInit /\ [][SignInNext]_signInVars /\ SignInFairness
-----------------------------------------------------------------------------
SignInTypeOK ==
    /\ session \subseteq Member /\ cookie \in Account /\ user \in Account
    /\ sentAs \in Account /\ calls \subseteq Account /\ signIns \in 0 .. MaxSignIns
    /\ family \in BOOLEAN /\ loading \in BOOLEAN /\ needsSetup \in BOOLEAN
    /\ overtaken \in BOOLEAN
    /\ route \in Route /\ startup \in {"none", "me", "status", "done"}
    /\ flow \in Flow \cup {Idle}
    /\ loading <=> startup # "done"

\* The screens are drawn for the account whose cookie the browser sends, once
\* no form is in progress, and unless the answer to the very first request came in
\* after another sign-in or a sign-in over another user's screen was cut short.
ScreenIsSession == user # Nobody /\ flow = Idle /\ ~overtaken => user = cookie

\* needsSetup and a user exclude one another, so that a session that ends in the
\* running application leads to the sign-in page and never to the first-run setup.
SetupOrUser == needsSetup => user = Nobody

\* To end, whatever answers are lost: a form that was submitted and a sign-out,
\* so that no page stays submitting; a session on the screen the server has dropped.
FormInProgress == flow # Idle
DroppedOnScreen == user # Nobody /\ cookie \notin session
=============================================================================
