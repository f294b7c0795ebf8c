---------------------------- MODULE KioskPairing ----------------------------
(***************************************************************************)
(* Pairing a wall tablet (server/internal/api/kiosks.go).  A kiosk is a    *)
(* family member of role kiosk; a device signs in as one by claiming a     *)
(* pairing.  A pairing is either started by the device and approved by an  *)
(* adult, who thereby creates the kiosk, or created approved by an adult.  *)
(*                                                                         *)
(* Every handler is several SQL statements without a transaction: `calls'  *)
(* holds the requests between two of their statements.  Statements that    *)
(* read what never changes (family, role, name) are no steps of their own. *)
(***************************************************************************)
EXTENDS Integers, FiniteSets, Functions

CONSTANTS
    Kiosk,      \* ids of family members of role kiosk (uuids: never reused)
    Pairing,    \* pairing tokens (random: never reused)
    Session,    \* session tokens (random: never reused)
    Caller,     \* HTTP requests that may be in flight at the same time
    None,       \* SQL NULL
    MayCrash    \* TRUE: the server may die with requests in flight

ASSUME KioskAssumption == None \notin Kiosk /\ MayCrash \in BOOLEAN

VARIABLES
    kiosks,     \* family_members of role kiosk
    pairings,   \* kiosk_pairing_tokens: token -> [kiosk, status, claim]
    sessions,   \* sessions: token -> [kiosk, pairing], `pairing' being history
    expired,    \* pairings past their fifteen minutes
    calls,      \* requests in flight
    drawn,      \* history: ids and tokens drawn so far
    disturbed,  \* history: pairings two approvals or two claims overlapped on,
                \* or whose claim died between its session and its mark
    contested   \* history: kiosks two claims overlapped on, or two requests
               \* that make a link

vars == <<kiosks, pairings, sessions, expired, calls, drawn, disturbed, contested>>

PairingStatus == {"pending", "approved", "claimed", "revoked"}

\* A claim token is drawn by each approval, which also draws a kiosk: the
\* kiosk's id stands for the token.  None is the empty column.
PairingRow == [kiosk : Kiosk \cup {None}, status : PairingStatus, claim : Kiosk \cup {None}]
Call == [caller : Caller, op : {"approve", "create", "repair", "claim", "delete"},
         at : {"member", "row", "revoke", "wipe", "session", "mark", "tokens"},
         pairing : Pairing \cup {None}, kiosk : Kiosk \cup {None}]

-----------------------------------------------------------------------------
Free(p) == \A q \in calls : q.caller # p

Put(f, x, v) == [y \in DOMAIN f \cup {x} |-> IF y = x THEN v ELSE f[y]]

Open(p, op, at, g, k) ==
    calls' = calls \cup
        {[caller |-> p, op |-> op, at |-> at, pairing |-> g, kiosk |-> k]}

\* The request goes on to its next statement, or is answered.
GoTo(q, at) == calls' = (calls \ {q}) \cup {[q EXCEPT !.at = at]}
Answer(q) == calls' = calls \ {q}

-----------------------------------------------------------------------------
(***************************************************************************)
(* The device's own flow: StartPending, and an adult's Approve, which      *)
(* reads the row, inserts the kiosk and updates the row as it was read.    *)
(***************************************************************************)
StartPending(g) ==
    /\ g \in Pairing \ drawn
    /\ drawn' = drawn \cup {g}
    /\ pairings' = Put(pairings, g, [kiosk |-> None, status |-> "pending", claim |-> None])
    /\ UNCHANGED <<kiosks, sessions, expired, calls, disturbed, contested>>

\* Mutant: any pairing may be approved.
MayApproveAny(g) == g \in DOMAIN pairings /\ g \notin expired

MayApprove(g) ==
    /\ g \in DOMAIN pairings
    /\ pairings[g].status = "pending"
    /\ g \notin expired

BeginApprove(p, g) ==
    /\ Free(p) /\ MayApprove(g)
    /\ Open(p, "approve", "member", g, None)
    /\ disturbed' = IF \E q \in calls : q.op = "approve" /\ q.pairing = g
                    THEN disturbed \cup {g} ELSE disturbed
    /\ UNCHANGED <<kiosks, pairings, sessions, expired, drawn, contested>>

\* insertKioskMember, for Approve and for Create.
InsertMember(q, k) ==
    /\ q \in calls /\ q.at = "member" /\ q.op \in {"approve", "create"}
    /\ k \in Kiosk \ drawn
    /\ drawn' = drawn \cup {k}
    /\ kiosks' = kiosks \cup {k}
    /\ calls' = (calls \ {q}) \cup {[q EXCEPT !.at = "row", !.kiosk = k]}
    /\ UNCHANGED <<pairings, sessions, expired, disturbed, contested>>

\* UPDATE .. WHERE id = g, whatever the status has become; kiosk_member_id is a
\* foreign key, so the statement fails once the kiosk is gone.
ApproveRow(q) ==
    /\ q \in calls /\ q.op = "approve" /\ q.at = "row"
    /\ Answer(q)
    /\ pairings' = IF q.pairing \in DOMAIN pairings /\ q.kiosk \in kiosks
                   THEN [pairings EXCEPT ![q.pairing] =
                           [kiosk |-> q.kiosk, status |-> "approved", claim |-> q.kiosk]]
                   ELSE pairings
    /\ UNCHANGED <<kiosks, sessions, expired, drawn, disturbed, contested>>

-----------------------------------------------------------------------------
(***************************************************************************)
(* The adult's flow: Create makes a kiosk and an approved pairing for it;  *)
(* CreatePairing revokes the live pairings of a kiosk and makes a new one. *)
(***************************************************************************)
BeginCreate(p) ==
    /\ Free(p)
    /\ Open(p, "create", "member", None, None)
    /\ UNCHANGED <<kiosks, pairings, sessions, expired, drawn, disturbed, contested>>

BeginCreatePairing(p, k) ==
    /\ Free(p) /\ k \in kiosks
    /\ Open(p, "repair", "revoke", None, k)
    /\ contested' = IF \E q \in calls : q.op \in {"repair", "create", "approve"} /\ q.kiosk = k
                    THEN contested \cup {k} ELSE contested
    /\ UNCHANGED <<kiosks, pairings, sessions, expired, drawn, disturbed>>

\* Mutant: the other links of the kiosk stay good.
RevokeNothing(q) ==
    /\ q \in calls /\ q.op = "repair" /\ q.at = "revoke"
    /\ GoTo(q, "row")
    /\ UNCHANGED <<pairings, kiosks, sessions, expired, drawn, disturbed, contested>>

RevokeLive(q) ==
    /\ q \in calls /\ q.op = "repair" /\ q.at = "revoke"
    /\ GoTo(q, "row")
    /\ pairings' = [g \in DOMAIN pairings |->
                      IF /\ pairings[g].kiosk = q.kiosk
                         /\ pairings[g].status \in {"pending", "approved"}
                      THEN [pairings[g] EXCEPT !.status = "revoked"] ELSE pairings[g]]
    /\ UNCHANGED <<kiosks, sessions, expired, drawn, disturbed, contested>>

\* insertPairingToken; the insert fails once the kiosk is gone.
InsertPairing(q, g) ==
    /\ q \in calls /\ q.op \in {"create", "repair"} /\ q.at = "row"
    /\ g \in Pairing \ drawn
    /\ drawn' = drawn \cup {g}
    /\ Answer(q)
    /\ pairings' = IF q.kiosk \in kiosks
                   THEN Put(pairings, g, [kiosk |-> q.kiosk, status |-> "approved",
                                          claim |-> None])
                   ELSE pairings
    /\ UNCHANGED <<kiosks, sessions, expired, disturbed, contested>>

-----------------------------------------------------------------------------
(***************************************************************************)
(* Claim: read the row, delete the kiosk's sessions, create one, mark the  *)
(* row.  A row is found by its claim token, or by its token while its      *)
(* claim token is empty.                                                   *)
(***************************************************************************)
MayClaim(g) ==
    /\ g \in DOMAIN pairings
    /\ pairings[g].status = "approved"
    /\ g \notin expired
    /\ pairings[g].kiosk # None

BeginClaim(p, g) ==
    /\ Free(p) /\ MayClaim(g)
    /\ Open(p, "claim", "wipe", g, pairings[g].kiosk)
    /\ disturbed' = IF \E q \in calls : q.op = "claim" /\ q.pairing = g
                    THEN disturbed \cup {g} ELSE disturbed
    /\ contested' = IF \E q \in calls : q.op = "claim" /\ q.kiosk = pairings[g].kiosk
                    THEN contested \cup {pairings[g].kiosk} ELSE contested
    /\ UNCHANGED <<kiosks, pairings, sessions, expired, drawn>>

SessionsOf(k) == {s \in DOMAIN sessions : sessions[s].kiosk = k}

\* Mutant: the sessions the kiosk already has are left.
WipeNothing(q) ==
    /\ q \in calls /\ q.op = "claim" /\ q.at = "wipe"
    /\ GoTo(q, "session")
    /\ UNCHANGED <<sessions, kiosks, pairings, expired, drawn, disturbed, contested>>

Wipe(q) ==
    /\ q \in calls /\ q.op = "claim" /\ q.at = "wipe"
    /\ GoTo(q, "session")
    /\ sessions' = Restrict(sessions, DOMAIN sessions \ SessionsOf(q.kiosk))
    /\ UNCHANGED <<kiosks, pairings, expired, drawn, disturbed, contested>>

\* CreateSession; the insert fails once the kiosk is gone.
InsertSession(q, s) ==
    /\ q \in calls /\ q.op = "claim" /\ q.at = "session"
    /\ s \in Session \ drawn
    /\ drawn' = drawn \cup {s}
    /\ IF q.kiosk \in kiosks
       THEN /\ sessions' = Put(sessions, s, [kiosk |-> q.kiosk, pairing |-> q.pairing])
            /\ GoTo(q, "mark")
       ELSE Answer(q) /\ UNCHANGED sessions
    /\ UNCHANGED <<kiosks, pairings, expired, disturbed, contested>>

\* Mutant: the pairing is not marked.
ForgetMark(q) ==
    /\ q \in calls /\ q.op = "claim" /\ q.at = "mark"
    /\ Answer(q)
    /\ UNCHANGED <<pairings, kiosks, sessions, expired, drawn, disturbed, contested>>

MarkClaimed(q) ==
    /\ q \in calls /\ q.op = "claim" /\ q.at = "mark"
    /\ Answer(q)
    /\ pairings' = IF q.pairing \in DOMAIN pairings
                   THEN [pairings EXCEPT ![q.pairing].status = "claimed",
                                         ![q.pairing].claim = None]
                   ELSE pairings
    /\ UNCHANGED <<kiosks, sessions, expired, drawn, disturbed, contested>>

-----------------------------------------------------------------------------
(***************************************************************************)
(* Logout and Delete.                                                      *)
(***************************************************************************)
Logout(k) ==
    /\ k \in kiosks
    /\ sessions' = Restrict(sessions, DOMAIN sessions \ SessionsOf(k))
    /\ UNCHANGED <<kiosks, pairings, expired, calls, drawn, disturbed, contested>>

BeginDelete(p, k) ==
    /\ Free(p) /\ k \in kiosks
    /\ Open(p, "delete", "tokens", None, k)
    /\ UNCHANGED <<kiosks, pairings, sessions, expired, drawn, disturbed, contested>>

PairingsOf(k) == {g \in DOMAIN pairings : pairings[g].kiosk = k}

DeleteTokens(q) ==
    /\ q \in calls /\ q.op = "delete" /\ q.at = "tokens"
    /\ GoTo(q, "member")
    /\ pairings' = Restrict(pairings, DOMAIN pairings \ PairingsOf(q.kiosk))
    /\ UNCHANGED <<kiosks, sessions, expired, drawn, disturbed, contested>>

\* Mutant: sessions.member_id has no ON DELETE CASCADE.
DeleteMemberOnly(q) ==
    /\ q \in calls /\ q.op = "delete" /\ q.at = "member"
    /\ Answer(q)
    /\ kiosks' = kiosks \ {q.kiosk}
    /\ UNCHANGED <<pairings, sessions, expired, drawn, disturbed, contested>>

\* ON DELETE CASCADE takes the sessions, and pairings made in between.
DeleteMember(q) ==
    /\ q \in calls /\ q.op = "delete" /\ q.at = "member"
    /\ Answer(q)
    /\ kiosks' = kiosks \ {q.kiosk}
    /\ pairings' = Restrict(pairings, DOMAIN pairings \ PairingsOf(q.kiosk))
    /\ sessions' = Restrict(sessions, DOMAIN sessions \ SessionsOf(q.kiosk))
    /\ UNCHANGED <<expired, drawn, disturbed, contested>>

-----------------------------------------------------------------------------
Expire(g) ==
    /\ g \in DOMAIN pairings \ expired
    /\ expired' = expired \cup {g}
    /\ UNCHANGED <<kiosks, pairings, sessions, calls, drawn, disturbed, contested>>

\* The process dies: a claim that has signed a device in leaves no mark.
Crash ==
    /\ MayCrash
    /\ calls # {}
    /\ calls' = {}
    /\ disturbed' = disturbed \cup
         {q.pairing : q \in {r \in calls : r.op = "claim" /\ r.at = "mark"}}
    /\ UNCHANGED <<kiosks, pairings, sessions, expired, drawn, contested>>

Init ==
    /\ kiosks = {} /\ expired = {} /\ calls = {} /\ drawn = {}
    /\ pairings = [g \in {} |-> 0]
    /\ sessions = [s \in {} |-> 0]
    /\ disturbed = {} /\ contested = {}

Begin(p) ==
    \/ BeginCreate(p)
    \/ \E g \in Pairing : BeginApprove(p, g) \/ BeginClaim(p, g)
    \/ \E k \in Kiosk : BeginCreatePairing(p, k) \/ BeginDelete(p, k)

Continue(q) ==
    \/ \E k \in Kiosk : InsertMember(q, k)
    \/ \E g \in Pairing : InsertPairing(q, g)
    \/ \E s \in Session : InsertSession(q, s)
    \/ ApproveRow(q) \/ RevokeLive(q) \/ Wipe(q) \/ MarkClaimed(q)
    \/ DeleteTokens(q) \/ DeleteMember(q)

Next ==
    \/ \E g \in Pairing : StartPending(g) \/ Expire(g)
    \/ \E p \in Caller : Begin(p)
    \/ \E q \in calls : Continue(q)
    \/ \E k \in Kiosk : Logout(k)
    \/ Crash

Spec == Init /\ [][Next]_vars

-----------------------------------------------------------------------------
(***************************************************************************)
(* Properties.                                                             *)
(***************************************************************************)
\* The variables have the shape of their tables, and the foreign keys hold.
PairingTypeOK ==
    /\ kiosks \subseteq Kiosk
    /\ DOMAIN pairings \subseteq Pairing
    /\ pairings \in [DOMAIN pairings -> PairingRow]
    /\ DOMAIN sessions \subseteq Session
    /\ sessions \in [DOMAIN sessions -> [kiosk : Kiosk, pairing : Pairing]]
    /\ expired \subseteq Pairing
    /\ calls \subseteq Call
    /\ drawn \subseteq Kiosk \cup Pairing \cup Session
    /\ disturbed \subseteq Pairing /\ contested \subseteq Kiosk
    /\ \A g \in DOMAIN pairings : pairings[g].kiosk \in kiosks \cup {None}
    /\ \A s \in DOMAIN sessions : sessions[s].kiosk \in kiosks

\* A kiosk is signed in on one device at a time, unless two claims of it, or two
\* new links for it, were in flight together.
OneDevicePerKiosk ==
    \A k \in Kiosk \ contested : \A s, t \in SessionsOf(k) : s = t

\* An adult who asks for a new link has put an end to every older one: a kiosk
\* has at most one link that can still be claimed.
OneLiveLink ==
    \A k \in Kiosk \ contested : \A g, h \in PairingsOf(k) :
        pairings[g].status = "approved" /\ pairings[h].status = "approved" => g = h

\* A pairing that signed a device in cannot be used again.
UsedOnce ==
    \A s \in DOMAIN sessions :
        LET g == sessions[s].pairing IN
        g \in DOMAIN pairings \ disturbed =>
            \/ pairings[g].status = "claimed"
            \/ \E q \in calls : q.op = "claim" /\ q.at = "mark" /\ q.pairing = g

\* A claimed pairing stays claimed, although a slow approval writes its row
\* whatever it has become.
ClaimedIsFinal ==
    [][\A g \in DOMAIN pairings \ disturbed :
         pairings[g].status = "claimed" =>
             g \notin DOMAIN pairings' \/ pairings'[g].status = "claimed"]_vars

\* "the resulting session lasts until an adult revokes it": a claim never ends
\* a session that the same pairing created.
LastsUntilRevoked ==
    [][\A q \in calls : Wipe(q) =>
         \A s \in SessionsOf(q.kiosk) : sessions[s].pairing # q.pairing]_vars
=============================================================================
