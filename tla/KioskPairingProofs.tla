------------------------ MODULE KioskPairingProofs -------------------------
(***************************************************************************)
(* Theorems about kiosk pairing, for any number of kiosks, pairings,       *)
(* sessions and requests in flight.                                        *)
(*                                                                         *)
(* No property of kiosk_pairing is inductive: each speaks of rows, and the *)
(* requests between two statements decide what becomes of the rows.  The   *)
(* strengthening says what a request in flight may rely on:                *)
(*   - ids and tokens are fresh when they are drawn (Fresh);               *)
(*   - a kiosk nobody contests has one request making a link for it, and   *)
(*     no live link once that request is about to insert one (LinkInv);    *)
(*   - it has one claim, and no session once that claim is about to create *)
(*     one (DeviceInv);                                                    *)
(*   - an undisturbed pairing with an approval in flight is pending, and   *)
(*     one that has signed a device in is used, or about to be (UseInv).   *)
(***************************************************************************)
EXTENDS KioskPairing, TLAPS

\* Which columns a request has filled in, and which statements it goes through.
Shape ==
    \A q \in calls :
        /\ q.op \in {"repair", "delete", "claim"} => q.kiosk \in Kiosk
        /\ q.op \in {"approve", "claim"} => q.pairing \in Pairing
        /\ q.op \in {"create", "approve"} /\ q.at = "row" => q.kiosk \in Kiosk
        /\ q.op \in {"create", "approve"} /\ q.at # "row" => q.kiosk = None

Fresh ==
    /\ kiosks \subseteq drawn
    /\ DOMAIN pairings \subseteq drawn
    /\ \A g \in DOMAIN pairings : pairings[g].kiosk \in drawn \cup {None}
    /\ \A s \in DOMAIN sessions : sessions[s].pairing \in drawn
    /\ \A q \in calls :
         /\ q.kiosk \in drawn \cup {None}
         /\ q.op \in {"approve", "claim"} => q.pairing \in drawn

TypeInv == PairingTypeOK /\ Shape /\ Fresh

Maker(q) == q.op \in {"repair", "create", "approve"}

PendingIsBare ==
    \A g \in DOMAIN pairings : pairings[g].status = "pending" => pairings[g].kiosk = None

OneMaker ==
    \A q, r \in calls :
        Maker(q) /\ Maker(r) /\ q.kiosk = r.kiosk /\ q.kiosk \in Kiosk \ contested => q = r

NoLinkYet ==
    \A q \in calls : Maker(q) /\ q.at = "row" /\ q.kiosk \in Kiosk \ contested =>
        \A g \in PairingsOf(q.kiosk) : pairings[g].status # "approved"

LinkInv == PendingIsBare /\ OneMaker /\ NoLinkYet /\ OneLiveLink

OneClaim ==
    \A q, r \in calls :
        q.op = "claim" /\ r.op = "claim" /\ q.kiosk = r.kiosk /\ q.kiosk \notin contested
            => q = r

NoSessionYet ==
    \A q \in calls : q.op = "claim" /\ q.at = "session" /\ q.kiosk \notin contested =>
        SessionsOf(q.kiosk) = {}

DeviceInv == OneClaim /\ NoSessionYet /\ OneDevicePerKiosk

OneUse ==
    \A q, r \in calls :
        q.op \in {"approve", "claim"} /\ r.op = q.op /\ q.pairing = r.pairing
            /\ q.pairing \notin disturbed => q = r

StillPending ==
    \A q \in calls : q.op = "approve" /\ q.pairing \in DOMAIN pairings \ disturbed =>
        pairings[q.pairing].status = "pending"

\* Nothing makes a pairing pending again.
BeyondPending ==
    \A q \in calls : q.op = "claim" /\ q.pairing \in DOMAIN pairings =>
        pairings[q.pairing].status # "pending"

UseInv == OneUse /\ StillPending /\ BeyondPending /\ UsedOnce

LEMMA PairingInit == Init => TypeInv /\ LinkInv /\ DeviceInv /\ UseInv
  BY DEF Init, TypeInv, PairingTypeOK, Shape, Fresh, LinkInv, PendingIsBare, OneMaker, NoLinkYet,
         OneLiveLink, PairingsOf,
         DeviceInv, OneClaim, NoSessionYet, OneDevicePerKiosk, SessionsOf,
         UseInv, OneUse, StillPending, BeyondPending, UsedOnce

LEMMA TypeStep == TypeInv /\ [Next]_vars => TypeInv'
<1> SUFFICES ASSUME TypeInv, [Next]_vars PROVE TypeInv'
  OBVIOUS
<1> USE KioskAssumption DEF TypeInv, PairingTypeOK, Shape, Fresh, PairingRow, PairingStatus, Call, Put, Open, GoTo, Answer, Restrict, PairingsOf, SessionsOf
<1>1. ASSUME NEW g \in Pairing, StartPending(g) PROVE TypeInv'
  BY <1>1 DEF StartPending
<1>2. ASSUME NEW g \in Pairing, Expire(g) PROVE TypeInv'
  BY <1>2 DEF Expire
<1>3. ASSUME NEW p \in Caller, BeginCreate(p) PROVE TypeInv'
  BY <1>3 DEF BeginCreate
<1>4. ASSUME NEW p \in Caller, NEW g \in Pairing, BeginApprove(p, g) PROVE TypeInv'
  BY <1>4 DEF BeginApprove, MayApprove
<1>5. ASSUME NEW p \in Caller, NEW g \in Pairing, BeginClaim(p, g) PROVE TypeInv'
  BY <1>5 DEF BeginClaim, MayClaim
<1>6. ASSUME NEW p \in Caller, NEW k \in Kiosk, BeginCreatePairing(p, k) PROVE TypeInv'
  BY <1>6 DEF BeginCreatePairing
<1>7. ASSUME NEW p \in Caller, NEW k \in Kiosk, BeginDelete(p, k) PROVE TypeInv'
  BY <1>7 DEF BeginDelete
<1>8. ASSUME NEW q \in calls, NEW k \in Kiosk, InsertMember(q, k) PROVE TypeInv'
  BY <1>8 DEF InsertMember
<1>9. ASSUME NEW q \in calls, NEW g \in Pairing, InsertPairing(q, g) PROVE TypeInv'
  BY <1>9 DEF InsertPairing
<1>10. ASSUME NEW q \in calls, NEW s \in Session, InsertSession(q, s) PROVE TypeInv'
  BY <1>10 DEF InsertSession
<1>11. ASSUME NEW q \in calls, ApproveRow(q) PROVE TypeInv'
  BY <1>11 DEF ApproveRow
<1>12. ASSUME NEW q \in calls, RevokeLive(q) PROVE TypeInv'
  BY <1>12 DEF RevokeLive
<1>13. ASSUME NEW q \in calls, Wipe(q) PROVE TypeInv'
  BY <1>13 DEF Wipe
<1>14. ASSUME NEW q \in calls, MarkClaimed(q) PROVE TypeInv'
  BY <1>14 DEF MarkClaimed
<1>15. ASSUME NEW q \in calls, DeleteTokens(q) PROVE TypeInv'
  BY <1>15 DEF DeleteTokens
<1>16. ASSUME NEW q \in calls, DeleteMember(q) PROVE TypeInv'
  BY <1>16 DEF DeleteMember
<1>17. ASSUME NEW k \in Kiosk, Logout(k) PROVE TypeInv'
  BY <1>17 DEF Logout
<1>18. CASE Crash
  BY <1>18 DEF Crash
<1>19. CASE UNCHANGED vars
  BY <1>19 DEF vars
<1> QED
  BY <1>1, <1>2, <1>3, <1>4, <1>5, <1>6, <1>7, <1>8, <1>9, <1>10, <1>11, <1>12, <1>13, <1>14, <1>15, <1>16, <1>17, <1>18, <1>19
  DEF Next, Begin, Continue

\* A request that goes on keeps its place among the requests.
LEMMA OneStays ==
    ASSUME NEW q \in calls, NEW t, calls' = (calls \ {q}) \cup {t},
           t.op = q.op, t.kiosk = q.kiosk, t.pairing = q.pairing,
           contested' = contested, disturbed' = disturbed
    PROVE  (OneMaker => OneMaker') /\ (OneClaim => OneClaim') /\ (OneUse => OneUse')
  BY DEF OneMaker, OneClaim, OneUse, Maker

LEMMA GoesOn ==
    ASSUME NEW q \in calls, calls \subseteq Call, NEW at, GoTo(q, at),
           contested' = contested, disturbed' = disturbed
    PROVE  /\ (OneMaker => OneMaker') /\ (OneClaim => OneClaim') /\ (OneUse => OneUse')
           /\ \A r \in calls' :
                \/ r \in calls /\ r # q
                \/ r.at = at /\ r.op = q.op /\ r.kiosk = q.kiosk /\ r.pairing = q.pairing
           /\ \A r \in calls : r # q => r \in calls'
           /\ \E r \in calls' : r.at = at /\ r.op = q.op /\ r.pairing = q.pairing
<1> DEFINE t == [q EXCEPT !.at = at]
<1>1. /\ calls' = (calls \ {q}) \cup {t} /\ t.at = at
      /\ t.op = q.op /\ t.kiosk = q.kiosk /\ t.pairing = q.pairing
  BY DEF GoTo, Call
<1>2. (OneMaker => OneMaker') /\ (OneClaim => OneClaim') /\ (OneUse => OneUse')
  BY <1>1, OneStays
<1> HIDE DEF t
<1> QED
  BY <1>1, <1>2

\* A request that has drawn a kiosk is the only one that knows of it.
LEMMA Drew ==
    ASSUME TypeInv, NEW q \in calls, NEW k \in Kiosk, InsertMember(q, k)
    PROVE  /\ q.op \in {"approve", "create"} /\ k \notin drawn
           /\ UNCHANGED <<pairings, sessions, expired, disturbed, contested>>
           /\ \E t :
                /\ calls' = (calls \ {q}) \cup {t}
                /\ t.at = "row" /\ t.op = q.op /\ t.pairing = q.pairing /\ t.kiosk = k
           /\ \A r \in calls : r.kiosk # k
           /\ \A g \in DOMAIN pairings : pairings[g].kiosk # k
<1> DEFINE t == [q EXCEPT !.at = "row", !.kiosk = k]
<1>1. /\ calls' = (calls \ {q}) \cup {t}
      /\ q.op \in {"approve", "create"} /\ k \notin drawn
      /\ UNCHANGED <<pairings, sessions, expired, disturbed, contested>>
  BY DEF InsertMember
<1>2. t.at = "row" /\ t.op = q.op /\ t.pairing = q.pairing /\ t.kiosk = k
  BY DEF TypeInv, PairingTypeOK, Call
<1>3. /\ \A r \in calls : r.kiosk # k
      /\ \A g \in DOMAIN pairings : pairings[g].kiosk # k
  BY <1>1, KioskAssumption DEF TypeInv, Fresh
<1> HIDE DEF t
<1> QED
  BY <1>1, <1>2, <1>3

\* A request that is answered takes nothing from the others.
LEMMA Answered ==
    ASSUME calls' \subseteq calls, contested' = contested, disturbed \subseteq disturbed'
    PROVE  (OneMaker => OneMaker') /\ (OneClaim => OneClaim') /\ (OneUse => OneUse')
  BY DEF OneMaker, OneClaim, OneUse

LEMMA LinkStep == TypeInv /\ LinkInv /\ [Next]_vars => LinkInv'
<1> SUFFICES ASSUME TypeInv /\ LinkInv, [Next]_vars PROVE LinkInv'
  OBVIOUS
<1> USE KioskAssumption DEF TypeInv, PairingTypeOK, Shape, Fresh,
        Put, Open, Answer, Restrict, PairingsOf, LinkInv, PendingIsBare, OneMaker, NoLinkYet,
        OneLiveLink, Maker
<1>1. ASSUME NEW g \in Pairing, StartPending(g) PROVE LinkInv'
  BY <1>1 DEF StartPending
<1>2. ASSUME NEW g \in Pairing, Expire(g) PROVE LinkInv'
  BY <1>2 DEF Expire
<1>3. ASSUME NEW p \in Caller, BeginCreate(p) PROVE LinkInv'
  BY <1>3 DEF BeginCreate
<1>4. ASSUME NEW p \in Caller, NEW g \in Pairing, BeginApprove(p, g) PROVE LinkInv'
  BY <1>4 DEF BeginApprove
<1>5. ASSUME NEW p \in Caller, NEW g \in Pairing, BeginClaim(p, g) PROVE LinkInv'
  BY <1>5 DEF BeginClaim
<1>6. ASSUME NEW p \in Caller, NEW k \in Kiosk, BeginCreatePairing(p, k) PROVE LinkInv'
  BY <1>6 DEF BeginCreatePairing
<1>7. ASSUME NEW p \in Caller, NEW k \in Kiosk, BeginDelete(p, k) PROVE LinkInv'
  BY <1>7 DEF BeginDelete
<1>8. ASSUME NEW q \in calls, NEW k \in Kiosk, InsertMember(q, k) PROVE LinkInv'
  <2>1. PICK t :
          /\ calls' = (calls \ {q}) \cup {t}
          /\ t.at = "row" /\ t.op = q.op /\ t.pairing = q.pairing /\ t.kiosk = k
    BY <1>8, Drew
  <2>2. /\ q.op \in {"approve", "create"} /\ k \notin drawn
        /\ UNCHANGED <<pairings, sessions, expired, disturbed, contested>>
        /\ \A r \in calls : r.kiosk # k
        /\ \A g \in DOMAIN pairings : pairings[g].kiosk # k
    BY <1>8, Drew
  <2>3. OneMaker'
    BY <2>1, <2>2
  <2>4. PendingIsBare'
    BY <2>1, <2>2
  <2>5. NoLinkYet'
    BY <2>1, <2>2
  <2>6. OneLiveLink'
    BY <2>1, <2>2
  <2> QED
    BY <2>3, <2>4, <2>5, <2>6
<1>9. ASSUME NEW q \in calls, NEW g \in Pairing, InsertPairing(q, g) PROVE LinkInv'
  BY <1>9 DEF InsertPairing
<1>10. ASSUME NEW q \in calls, NEW s \in Session, InsertSession(q, s) PROVE LinkInv'
  <2>1. CASE q.kiosk \in kiosks
    <3>1. /\ OneMaker'
          /\ \A r \in calls' :
               \/ r \in calls /\ r # q
               \/ r.at = "mark" /\ r.op = q.op /\ r.kiosk = q.kiosk /\ r.pairing = q.pairing
      BY <1>10, <2>1, GoesOn DEF InsertSession
    <3>2. PendingIsBare'
      BY <1>10, <2>1, <3>1 DEF InsertSession
    <3>3. NoLinkYet'
      BY <1>10, <2>1, <3>1 DEF InsertSession
    <3>4. OneLiveLink'
      BY <1>10, <2>1, <3>1 DEF InsertSession
    <3> QED
      BY <3>1, <3>2, <3>3, <3>4
  <2>2. CASE q.kiosk \notin kiosks
    BY <1>10, <2>2, Answered DEF InsertSession
  <2> QED
    BY <2>1, <2>2
<1>11. ASSUME NEW q \in calls, ApproveRow(q) PROVE LinkInv'
  BY <1>11 DEF ApproveRow
<1>12. ASSUME NEW q \in calls, RevokeLive(q) PROVE LinkInv'
  <2>1. /\ OneMaker'
        /\ \A r \in calls' :
             \/ r \in calls /\ r # q
             \/ r.at = "row" /\ r.op = q.op /\ r.kiosk = q.kiosk /\ r.pairing = q.pairing
    BY <1>12, GoesOn DEF RevokeLive
  <2>2. PendingIsBare'
    BY <1>12, <2>1 DEF RevokeLive
  <2>3. NoLinkYet'
    BY <1>12, <2>1 DEF RevokeLive
  <2>4. OneLiveLink'
    BY <1>12, <2>1 DEF RevokeLive
  <2> QED
    BY <2>1, <2>2, <2>3, <2>4
<1>13. ASSUME NEW q \in calls, Wipe(q) PROVE LinkInv'
  <2>1. /\ OneMaker'
        /\ \A r \in calls' :
             \/ r \in calls /\ r # q
             \/ r.at = "session" /\ r.op = q.op /\ r.kiosk = q.kiosk /\ r.pairing = q.pairing
    BY <1>13, GoesOn DEF Wipe
  <2>2. PendingIsBare'
    BY <1>13, <2>1 DEF Wipe
  <2>3. NoLinkYet'
    BY <1>13, <2>1 DEF Wipe
  <2>4. OneLiveLink'
    BY <1>13, <2>1 DEF Wipe
  <2> QED
    BY <2>1, <2>2, <2>3, <2>4
<1>14. ASSUME NEW q \in calls, MarkClaimed(q) PROVE LinkInv'
  BY <1>14 DEF MarkClaimed
<1>15. ASSUME NEW q \in calls, DeleteTokens(q) PROVE LinkInv'
  <2>1. /\ OneMaker'
        /\ \A r \in calls' :
             \/ r \in calls /\ r # q
             \/ r.at = "member" /\ r.op = q.op /\ r.kiosk = q.kiosk /\ r.pairing = q.pairing
    BY <1>15, GoesOn DEF DeleteTokens
  <2>2. PendingIsBare'
    BY <1>15, <2>1 DEF DeleteTokens
  <2>3. NoLinkYet'
    BY <1>15, <2>1 DEF DeleteTokens
  <2>4. OneLiveLink'
    BY <1>15, <2>1 DEF DeleteTokens
  <2> QED
    BY <2>1, <2>2, <2>3, <2>4
<1>16. ASSUME NEW q \in calls, DeleteMember(q) PROVE LinkInv'
  BY <1>16 DEF DeleteMember
<1>17. ASSUME NEW k \in Kiosk, Logout(k) PROVE LinkInv'
  BY <1>17 DEF Logout
<1>18. CASE Crash
  BY <1>18 DEF Crash
<1>19. CASE UNCHANGED vars
  BY <1>19 DEF vars
<1> QED
  BY <1>1, <1>2, <1>3, <1>4, <1>5, <1>6, <1>7, <1>8, <1>9, <1>10, <1>11, <1>12, <1>13, <1>14, <1>15, <1>16, <1>17, <1>18, <1>19
  DEF Next, Begin, Continue

LEMMA DeviceStep == TypeInv /\ DeviceInv /\ [Next]_vars => DeviceInv'
<1> SUFFICES ASSUME TypeInv /\ DeviceInv, [Next]_vars PROVE DeviceInv'
  OBVIOUS
<1> USE KioskAssumption DEF TypeInv, PairingTypeOK, Shape, Fresh,
        Put, Open, Answer, Restrict, SessionsOf, DeviceInv, OneClaim, NoSessionYet, OneDevicePerKiosk
<1>1. ASSUME NEW g \in Pairing, StartPending(g) PROVE DeviceInv'
  BY <1>1 DEF StartPending
<1>2. ASSUME NEW g \in Pairing, Expire(g) PROVE DeviceInv'
  BY <1>2 DEF Expire
<1>3. ASSUME NEW p \in Caller, BeginCreate(p) PROVE DeviceInv'
  BY <1>3 DEF BeginCreate
<1>4. ASSUME NEW p \in Caller, NEW g \in Pairing, BeginApprove(p, g) PROVE DeviceInv'
  BY <1>4 DEF BeginApprove
<1>5. ASSUME NEW p \in Caller, NEW g \in Pairing, BeginClaim(p, g) PROVE DeviceInv'
  BY <1>5 DEF BeginClaim
<1>6. ASSUME NEW p \in Caller, NEW k \in Kiosk, BeginCreatePairing(p, k) PROVE DeviceInv'
  BY <1>6 DEF BeginCreatePairing
<1>7. ASSUME NEW p \in Caller, NEW k \in Kiosk, BeginDelete(p, k) PROVE DeviceInv'
  BY <1>7 DEF BeginDelete
<1>8. ASSUME NEW q \in calls, NEW k \in Kiosk, InsertMember(q, k) PROVE DeviceInv'
  <2>1. PICK t :
          /\ calls' = (calls \ {q}) \cup {t}
          /\ t.at = "row" /\ t.op = q.op /\ t.pairing = q.pairing /\ t.kiosk = k
    BY <1>8, Drew
  <2>2. /\ q.op \in {"approve", "create"} /\ k \notin drawn
        /\ UNCHANGED <<pairings, sessions, expired, disturbed, contested>>
        /\ \A r \in calls : r.kiosk # k
        /\ \A g \in DOMAIN pairings : pairings[g].kiosk # k
    BY <1>8, Drew
  <2>3. OneClaim'
    BY <2>1, <2>2
  <2>4. NoSessionYet'
    BY <2>1, <2>2
  <2>5. OneDevicePerKiosk'
    BY <2>1, <2>2
  <2> QED
    BY <2>3, <2>4, <2>5
<1>9. ASSUME NEW q \in calls, NEW g \in Pairing, InsertPairing(q, g) PROVE DeviceInv'
  BY <1>9 DEF InsertPairing
<1>10. ASSUME NEW q \in calls, NEW s \in Session, InsertSession(q, s) PROVE DeviceInv'
  <2>1. CASE q.kiosk \in kiosks
    <3>1. /\ OneClaim'
          /\ \A r \in calls' :
               \/ r \in calls /\ r # q
               \/ r.at = "mark" /\ r.op = q.op /\ r.kiosk = q.kiosk /\ r.pairing = q.pairing
      BY <1>10, <2>1, GoesOn DEF InsertSession
    <3>2. NoSessionYet'
      BY <1>10, <2>1, <3>1 DEF InsertSession
    <3>3. OneDevicePerKiosk'
      BY <1>10, <2>1, <3>1 DEF InsertSession
    <3> QED
      BY <3>1, <3>2, <3>3
  <2>2. CASE q.kiosk \notin kiosks
    BY <1>10, <2>2, Answered DEF InsertSession
  <2> QED
    BY <2>1, <2>2
<1>11. ASSUME NEW q \in calls, ApproveRow(q) PROVE DeviceInv'
  BY <1>11 DEF ApproveRow
<1>12. ASSUME NEW q \in calls, RevokeLive(q) PROVE DeviceInv'
  <2>1. /\ OneClaim'
        /\ \A r \in calls' :
             \/ r \in calls /\ r # q
             \/ r.at = "row" /\ r.op = q.op /\ r.kiosk = q.kiosk /\ r.pairing = q.pairing
    BY <1>12, GoesOn DEF RevokeLive
  <2>2. NoSessionYet'
    BY <1>12, <2>1 DEF RevokeLive
  <2>3. OneDevicePerKiosk'
    BY <1>12, <2>1 DEF RevokeLive
  <2> QED
    BY <2>1, <2>2, <2>3
<1>13. ASSUME NEW q \in calls, Wipe(q) PROVE DeviceInv'
  <2>1. /\ OneClaim'
        /\ \A r \in calls' :
             \/ r \in calls /\ r # q
             \/ r.at = "session" /\ r.op = q.op /\ r.kiosk = q.kiosk /\ r.pairing = q.pairing
    BY <1>13, GoesOn DEF Wipe
  <2>2. NoSessionYet'
    BY <1>13, <2>1 DEF Wipe
  <2>3. OneDevicePerKiosk'
    BY <1>13, <2>1 DEF Wipe
  <2> QED
    BY <2>1, <2>2, <2>3
<1>14. ASSUME NEW q \in calls, MarkClaimed(q) PROVE DeviceInv'
  BY <1>14 DEF MarkClaimed
<1>15. ASSUME NEW q \in calls, DeleteTokens(q) PROVE DeviceInv'
  <2>1. /\ OneClaim'
        /\ \A r \in calls' :
             \/ r \in calls /\ r # q
             \/ r.at = "member" /\ r.op = q.op /\ r.kiosk = q.kiosk /\ r.pairing = q.pairing
    BY <1>15, GoesOn DEF DeleteTokens
  <2>2. NoSessionYet'
    BY <1>15, <2>1 DEF DeleteTokens
  <2>3. OneDevicePerKiosk'
    BY <1>15, <2>1 DEF DeleteTokens
  <2> QED
    BY <2>1, <2>2, <2>3
<1>16. ASSUME NEW q \in calls, DeleteMember(q) PROVE DeviceInv'
  BY <1>16 DEF DeleteMember
<1>17. ASSUME NEW k \in Kiosk, Logout(k) PROVE DeviceInv'
  BY <1>17 DEF Logout
<1>18. CASE Crash
  BY <1>18 DEF Crash
<1>19. CASE UNCHANGED vars
  BY <1>19 DEF vars
<1> QED
  BY <1>1, <1>2, <1>3, <1>4, <1>5, <1>6, <1>7, <1>8, <1>9, <1>10, <1>11, <1>12, <1>13, <1>14, <1>15, <1>16, <1>17, <1>18, <1>19
  DEF Next, Begin, Continue

LEMMA UseStep == TypeInv /\ LinkInv /\ UseInv /\ [Next]_vars => UseInv'
<1> SUFFICES ASSUME TypeInv /\ LinkInv /\ UseInv, [Next]_vars PROVE UseInv'
  OBVIOUS
<1> USE KioskAssumption DEF TypeInv, PairingTypeOK, Shape, Fresh,
        Put, Open, Answer, Restrict, PairingsOf, SessionsOf, LinkInv, PendingIsBare,
        UseInv, OneUse, StillPending, BeyondPending, UsedOnce
<1>1. ASSUME NEW g \in Pairing, StartPending(g) PROVE UseInv'
  BY <1>1 DEF StartPending
<1>2. ASSUME NEW g \in Pairing, Expire(g) PROVE UseInv'
  BY <1>2 DEF Expire
<1>3. ASSUME NEW p \in Caller, BeginCreate(p) PROVE UseInv'
  BY <1>3 DEF BeginCreate
<1>4. ASSUME NEW p \in Caller, NEW g \in Pairing, BeginApprove(p, g) PROVE UseInv'
  BY <1>4 DEF BeginApprove, MayApprove
<1>5. ASSUME NEW p \in Caller, NEW g \in Pairing, BeginClaim(p, g) PROVE UseInv'
  BY <1>5 DEF BeginClaim, MayClaim
<1>6. ASSUME NEW p \in Caller, NEW k \in Kiosk, BeginCreatePairing(p, k) PROVE UseInv'
  BY <1>6 DEF BeginCreatePairing
<1>7. ASSUME NEW p \in Caller, NEW k \in Kiosk, BeginDelete(p, k) PROVE UseInv'
  BY <1>7 DEF BeginDelete
<1>8. ASSUME NEW q \in calls, NEW k \in Kiosk, InsertMember(q, k) PROVE UseInv'
  <2>1. PICK t :
          /\ calls' = (calls \ {q}) \cup {t}
          /\ t.at = "row" /\ t.op = q.op /\ t.pairing = q.pairing /\ t.kiosk = k
    BY <1>8, Drew
  <2>2. /\ q.op \in {"approve", "create"} /\ k \notin drawn
        /\ UNCHANGED <<pairings, sessions, expired, disturbed, contested>>
        /\ \A r \in calls : r.kiosk # k
        /\ \A g \in DOMAIN pairings : pairings[g].kiosk # k
    BY <1>8, Drew
  <2>3. OneUse'
    BY <2>1, <2>2
  <2>4. StillPending'
    BY <2>1, <2>2
  <2>5. BeyondPending'
    BY <2>1, <2>2
  <2>6. UsedOnce'
    BY <2>1, <2>2
  <2> QED
    BY <2>3, <2>4, <2>5, <2>6
<1>9. ASSUME NEW q \in calls, NEW g \in Pairing, InsertPairing(q, g) PROVE UseInv'
  BY <1>9 DEF InsertPairing
<1>10. ASSUME NEW q \in calls, NEW s \in Session, InsertSession(q, s) PROVE UseInv'
  <2>1. CASE q.kiosk \in kiosks
    <3>1. /\ OneUse'
          /\ \A r \in calls' :
               \/ r \in calls /\ r # q
               \/ r.at = "mark" /\ r.op = q.op /\ r.kiosk = q.kiosk /\ r.pairing = q.pairing
          /\ \A r \in calls : r # q => r \in calls'
          /\ \E r \in calls' : r.at = "mark" /\ r.op = q.op /\ r.pairing = q.pairing
      BY <1>10, <2>1, GoesOn DEF InsertSession
    <3>2. StillPending'
      BY <1>10, <2>1, <3>1 DEF InsertSession
    <3>3. BeyondPending'
      BY <1>10, <2>1, <3>1 DEF InsertSession
    <3>4. UsedOnce'
      BY <1>10, <2>1, <3>1 DEF InsertSession
    <3> QED
      BY <3>1, <3>2, <3>3, <3>4
  <2>2. CASE q.kiosk \notin kiosks
    BY <1>10, <2>2, Answered DEF InsertSession
  <2> QED
    BY <2>1, <2>2
<1>11. ASSUME NEW q \in calls, ApproveRow(q) PROVE UseInv'
  BY <1>11 DEF ApproveRow
<1>12. ASSUME NEW q \in calls, RevokeLive(q) PROVE UseInv'
  <2>1. /\ OneUse'
        /\ \A r \in calls' :
             \/ r \in calls /\ r # q
             \/ r.at = "row" /\ r.op = q.op /\ r.kiosk = q.kiosk /\ r.pairing = q.pairing
        /\ \A r \in calls : r # q => r \in calls'
        /\ \E r \in calls' : r.at = "row" /\ r.op = q.op /\ r.pairing = q.pairing
    BY <1>12, GoesOn DEF RevokeLive
  <2>2. StillPending'
    BY <1>12, <2>1 DEF RevokeLive
  <2>3. BeyondPending'
    BY <1>12, <2>1 DEF RevokeLive
  <2>4. UsedOnce'
    BY <1>12, <2>1 DEF RevokeLive
  <2> QED
    BY <2>1, <2>2, <2>3, <2>4
<1>13. ASSUME NEW q \in calls, Wipe(q) PROVE UseInv'
  <2>1. /\ OneUse'
        /\ \A r \in calls' :
             \/ r \in calls /\ r # q
             \/ r.at = "session" /\ r.op = q.op /\ r.kiosk = q.kiosk /\ r.pairing = q.pairing
        /\ \A r \in calls : r # q => r \in calls'
        /\ \E r \in calls' : r.at = "session" /\ r.op = q.op /\ r.pairing = q.pairing
    BY <1>13, GoesOn DEF Wipe
  <2>2. StillPending'
    BY <1>13, <2>1 DEF Wipe
  <2>3. BeyondPending'
    BY <1>13, <2>1 DEF Wipe
  <2>4. UsedOnce'
    BY <1>13, <2>1 DEF Wipe
  <2> QED
    BY <2>1, <2>2, <2>3, <2>4
<1>14. ASSUME NEW q \in calls, MarkClaimed(q) PROVE UseInv'
  <2>1. OneUse'
    BY <1>14 DEF MarkClaimed
  <2>2. StillPending'
    BY <1>14 DEF MarkClaimed
  <2>3. BeyondPending'
    BY <1>14 DEF MarkClaimed
  <2>4. UsedOnce'
    BY <1>14 DEF MarkClaimed
  <2> QED
    BY <2>1, <2>2, <2>3, <2>4
<1>15. ASSUME NEW q \in calls, DeleteTokens(q) PROVE UseInv'
  <2>1. /\ OneUse'
        /\ \A r \in calls' :
             \/ r \in calls /\ r # q
             \/ r.at = "member" /\ r.op = q.op /\ r.kiosk = q.kiosk /\ r.pairing = q.pairing
        /\ \A r \in calls : r # q => r \in calls'
        /\ \E r \in calls' : r.at = "member" /\ r.op = q.op /\ r.pairing = q.pairing
    BY <1>15, GoesOn DEF DeleteTokens
  <2>2. StillPending'
    BY <1>15, <2>1 DEF DeleteTokens
  <2>3. BeyondPending'
    BY <1>15, <2>1 DEF DeleteTokens
  <2>4. UsedOnce'
    BY <1>15, <2>1 DEF DeleteTokens
  <2> QED
    BY <2>1, <2>2, <2>3, <2>4
<1>16. ASSUME NEW q \in calls, DeleteMember(q) PROVE UseInv'
  BY <1>16 DEF DeleteMember
<1>17. ASSUME NEW k \in Kiosk, Logout(k) PROVE UseInv'
  BY <1>17 DEF Logout
<1>18. CASE Crash
  BY <1>18 DEF Crash
<1>19. CASE UNCHANGED vars
  BY <1>19 DEF vars
<1> QED
  BY <1>1, <1>2, <1>3, <1>4, <1>5, <1>6, <1>7, <1>8, <1>9, <1>10, <1>11, <1>12, <1>13, <1>14, <1>15, <1>16, <1>17, <1>18, <1>19
  DEF Next, Begin, Continue

-----------------------------------------------------------------------------
LEMMA PairingInvariant == Spec => [](TypeInv /\ LinkInv /\ DeviceInv /\ UseInv)
<1>1. Init => TypeInv /\ LinkInv /\ DeviceInv /\ UseInv
  BY PairingInit
<1>2. TypeInv /\ LinkInv /\ DeviceInv /\ UseInv /\ [Next]_vars
          => TypeInv' /\ LinkInv' /\ DeviceInv' /\ UseInv'
  BY TypeStep, LinkStep, DeviceStep, UseStep
<1> QED
  BY <1>1, <1>2, PTL DEF Spec

\* The tables keep their types and their foreign keys, whatever handlers of
\* kiosks.go overlap and wherever the server dies.
THEOREM PairingTypeCorrect == Spec => []PairingTypeOK
<1>1. TypeInv => PairingTypeOK
  BY DEF TypeInv
<1> QED
  BY <1>1, PairingInvariant, PTL

\* CreatePairing and Create: a kiosk has at most one link that can be claimed,
\* unless two requests were making one at the same time.
THEOREM PairingOneLiveLink == Spec => []OneLiveLink
<1>1. LinkInv => OneLiveLink
  BY DEF LinkInv
<1> QED
  BY <1>1, PairingInvariant, PTL

\* Claim: a kiosk is signed in on at most one device, unless two claims of it
\* were in flight at the same time.
THEOREM PairingOneDevice == Spec => []OneDevicePerKiosk
<1>1. DeviceInv => OneDevicePerKiosk
  BY DEF DeviceInv
<1> QED
  BY <1>1, PairingInvariant, PTL

\* Claim: a link that has signed a device in is marked as used, or the request
\* that used it is about to mark it, unless that request died or overlapped
\* with another one.
THEOREM PairingUsedOnce == Spec => []UsedOnce
<1>1. UseInv => UsedOnce
  BY DEF UseInv
<1> QED
  BY <1>1, PairingInvariant, PTL

\* Approve, RevokeLive and Claim: no step takes a pairing out of `claimed'.
LEMMA ClaimedStep ==
    ASSUME TypeInv, LinkInv, UseInv, [Next]_vars, NEW g \in DOMAIN pairings \ disturbed,
           pairings[g].status = "claimed"
    PROVE  g \notin DOMAIN pairings' \/ pairings'[g].status = "claimed"
<1> USE DEF TypeInv, PairingTypeOK
<1>1. ASSUME NEW h \in Pairing, StartPending(h)
      PROVE  g \in DOMAIN pairings' => pairings'[g].status = "claimed"
  BY <1>1 DEF StartPending, Fresh, Put
<1>2. ASSUME NEW q \in calls, NEW h \in Pairing, InsertPairing(q, h)
      PROVE  g \in DOMAIN pairings' => pairings'[g].status = "claimed"
  BY <1>2 DEF InsertPairing, Fresh, Put
<1>3. ASSUME NEW q \in calls, ApproveRow(q)
      PROVE  g \in DOMAIN pairings' => pairings'[g].status = "claimed"
  <2>1. q.pairing # g
    BY <1>3 DEF ApproveRow, UseInv, StillPending
  <2> QED
    BY <1>3, <2>1 DEF ApproveRow
<1>4. ASSUME NEW q \in calls, RevokeLive(q)
      PROVE  g \in DOMAIN pairings' => pairings'[g].status = "claimed"
  BY <1>4 DEF RevokeLive
<1>5. ASSUME NEW q \in calls, MarkClaimed(q)
      PROVE  g \in DOMAIN pairings' => pairings'[g].status = "claimed"
  <2>1. CASE q.pairing = g
    <3> DEFINE row == [pairings[g] EXCEPT !.status = "claimed", !.claim = None]
    <3>1. pairings[g] \in PairingRow
      OBVIOUS
    <3>2. row.status = "claimed"
      BY <3>1 DEF PairingRow
    <3>3. pairings' = [pairings EXCEPT ![g] = row]
      BY <1>5, <2>1 DEF MarkClaimed
    <3> HIDE DEF row
    <3> QED
      BY <3>2, <3>3
  <2>2. CASE q.pairing # g
    BY <1>5, <2>2 DEF MarkClaimed
  <2> QED
    BY <2>1, <2>2
<1>6. ASSUME NEW q \in calls, DeleteTokens(q) \/ DeleteMember(q)
      PROVE  g \in DOMAIN pairings' => pairings'[g].status = "claimed"
  BY <1>6 DEF DeleteTokens, DeleteMember, Restrict
<1>7. CASE UNCHANGED pairings
  BY <1>7
<1> HIDE DEF TypeInv, PairingTypeOK
<1>8. ASSUME NEW q \in calls, Continue(q)
       PROVE  g \in DOMAIN pairings' => pairings'[g].status = "claimed"
  <2>1. CASE \E h \in Pairing : InsertPairing(q, h)
    BY <2>1, <1>2
  <2>2. CASE \/ \E k \in Kiosk : InsertMember(q, k)
             \/ \E s \in Session : InsertSession(q, s)
             \/ Wipe(q)
    <3>1. UNCHANGED pairings
      BY <2>2 DEF InsertMember, InsertSession, Wipe
    <3> QED
      BY <3>1, <1>7
  <2>3. CASE ApproveRow(q) \/ RevokeLive(q) \/ MarkClaimed(q)
    BY <2>3, <1>3, <1>4, <1>5
  <2>4. CASE DeleteTokens(q) \/ DeleteMember(q)
    BY <2>4, <1>6
  <2> QED
    BY <1>8, <2>1, <2>2, <2>3, <2>4 DEF Continue
<1>9. ASSUME NEW h \in Pairing, StartPending(h) \/ Expire(h)
       PROVE  g \in DOMAIN pairings' => pairings'[g].status = "claimed"
  <2>1. CASE StartPending(h)
    BY <2>1, <1>1
  <2>2. CASE Expire(h)
    BY <2>2, <1>7 DEF Expire
  <2> QED
    BY <1>9, <2>1, <2>2
<1>10. CASE \/ \E p \in Caller : Begin(p)
            \/ \E k \in Kiosk : Logout(k)
            \/ Crash
            \/ UNCHANGED vars
  <2>1. UNCHANGED pairings
    BY <1>10 DEF Begin, BeginCreate, BeginApprove, BeginClaim, BeginCreatePairing, BeginDelete,
                 Logout, Crash, vars
  <2> QED
    BY <2>1, <1>7
<1>11. CASE Next
  <2>1. CASE \E h \in Pairing : StartPending(h) \/ Expire(h)
    BY <2>1, <1>9
  <2>2. CASE \E q \in calls : Continue(q)
    BY <2>2, <1>8
  <2> QED
    BY <1>11, <1>10, <2>1, <2>2 DEF Next
<1> QED
  BY <1>10, <1>11

\* A claimed pairing stays claimed: a slow approval, which writes its row
\* whatever the row has become, overtakes a claim only when it is disturbed.
THEOREM PairingClaimedIsFinal == Spec => ClaimedIsFinal
<1>1. TypeInv /\ LinkInv /\ UseInv /\ [Next]_vars =>
        [\A g \in DOMAIN pairings \ disturbed :
           pairings[g].status = "claimed" =>
               g \notin DOMAIN pairings' \/ pairings'[g].status = "claimed"]_vars
  BY ClaimedStep
<1> QED
  BY <1>1, PairingInvariant, PTL DEF Spec, ClaimedIsFinal
=============================================================================
