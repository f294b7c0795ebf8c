----------------------------- MODULE HubProofs -----------------------------
(***************************************************************************)
(* Theorems about the websocket hub, for any number of connections and     *)
(* callers and any buffer sizes.                                           *)
(*                                                                         *)
(* The invariants of hub_safety are not inductive one by one.  Run does    *)
(* not panic because the map and the set of closed channels stay           *)
(* complementary (Complementary), which in turn needs to know that a       *)
(* connection is registered exactly once (JoinedOnce).  A browser is shown *)
(* an unbroken run because, while its connection is open, what is shown,   *)
(* held by the writer and buffered is a run of the log that ends where Run *)
(* is (InOrder, UpToDate).                                                 *)
(***************************************************************************)
EXTENDS Hub, TLAPS

\* writePump is started when the connection is registered.
JoinedOnce ==
    \A c \in Client : (writer[c] = "off") <=> (reader[c] \in {"absent", "joining"})

Complementary ==
    \A c \in Client : (c \in closed) <=> (writer[c] # "off" /\ c \notin clients)

Joined == \A c \in clients : writer[c] # "off"

\* writePump writes the message it took.
Holding == \A c \in Client : writer[c] = "writing" => held[c] # 0

\* A fan-out is about the last message of the log.
Serving == todo # {} => Len(log) > 0

SafeInv ==
    /\ HubTypeOK /\ JoinedOnce /\ Complementary /\ Joined /\ Holding /\ Serving
    /\ ~panicked

LEMMA SafeInit == Init => SafeInv
<1> SUFFICES ASSUME Init PROVE SafeInv
  OBVIOUS
<1>1. HubTypeOK
  <2>1. <<>> \in Seq(Msg)
    OBVIOUS
  <2>2. send \in [Client -> Seq(Msg)] /\ got \in [Client -> Seq(Msg)]
    BY <2>1 DEF Init
  <2>3. /\ calling \in [Caller -> 0..MaxMsg] /\ held \in [Client -> 0..MaxMsg]
        /\ issued \in 0..MaxMsg /\ from \in [Client -> Nat]
    BY HubAssumption DEF Init, HubAssumption
  <2> QED
    BY <2>1, <2>2, <2>3 DEF Init, HubTypeOK
<1>2. JoinedOnce /\ Complementary /\ Joined /\ Holding /\ Serving /\ ~panicked
  BY DEF Init, JoinedOnce, Complementary, Joined, Holding, Serving
<1> QED
  BY <1>1, <1>2 DEF SafeInv

LEMMA SafeStep == SafeInv /\ [Next]_vars => SafeInv'
<1> SUFFICES ASSUME SafeInv, [Next]_vars PROVE SafeInv'
  OBVIOUS
<1> USE HubAssumption
    DEF SafeInv, HubTypeOK, JoinedOnce, Complementary, Joined, Holding, Serving, Msg,
        channelVars, hubVars, pumpVars, vars, AtSelect, CloseSend
<1>1. ASSUME NEW p \in Caller, Call(p) PROVE SafeInv'
  BY <1>1 DEF Call
<1>2. ASSUME NEW p \in Caller, Broadcast(p) PROVE SafeInv'
  <2>1. broadcast' \in Seq(Msg)
    BY <1>2 DEF Broadcast
  <2> QED
    BY <1>2, <2>1 DEF Broadcast
<1>3. ASSUME TakeMessage PROVE SafeInv'
  <2>1. Head(broadcast) \in Msg /\ Tail(broadcast) \in Seq(Msg)
    BY <1>3 DEF TakeMessage
  <2>2. broadcast' \in Seq(Msg) /\ log' \in Seq(Msg) /\ Len(log') > 0
    BY <1>3, <2>1 DEF TakeMessage
  <2>3. HubTypeOK'
    <3>1. /\ UNCHANGED <<issued, calling, clients, closed, panicked, from, pumpVars, send>>
          /\ todo' = clients
      BY <1>3 DEF TakeMessage
    <3> QED
      BY <2>2, <3>1
  <2>4. (JoinedOnce /\ Complementary /\ Joined /\ Holding /\ Serving /\ ~panicked)'
    BY <1>3, <2>2 DEF TakeMessage
  <2> QED
    BY <2>3, <2>4
<1>4. ASSUME NEW c \in Client, Register(c) PROVE SafeInv'
  <2>1. HubTypeOK'
    BY <1>4 DEF Register
  <2>2. (JoinedOnce /\ Joined /\ Holding /\ Serving)'
    BY <1>4 DEF Register
  <2>3. (Complementary /\ ~panicked)'
    BY <1>4 DEF Register
  <2> QED
    BY <2>1, <2>2, <2>3
<1>5. ASSUME NEW c \in Client, Unregister(c) PROVE SafeInv'
  <2>1. HubTypeOK'
    BY <1>5 DEF Unregister
  <2>2. (JoinedOnce /\ Joined /\ Holding /\ Serving)'
    BY <1>5 DEF Unregister
  <2>3. (Complementary /\ ~panicked)'
    BY <1>5 DEF Unregister
  <2> QED
    BY <2>1, <2>2, <2>3
<1>6. ASSUME NEW c \in Client, Offer(c) PROVE SafeInv'
  <2>1. c \in clients /\ c \notin closed
    BY <1>6 DEF Offer
  <2>2. CASE Len(send[c]) < SendCap
    <3>1. log[Len(log)] \in Msg
      BY <1>6 DEF Offer
    <3>2. Append(send[c], log[Len(log)]) \in Seq(Msg)
      BY <3>1
    <3>3. HubTypeOK'
      BY <1>6, <2>2, <3>2 DEF Offer
    <3>4. (JoinedOnce /\ Complementary /\ Joined /\ Holding /\ Serving /\ ~panicked)'
      BY <1>6, <2>1, <2>2 DEF Offer
    <3> QED
      BY <3>3, <3>4
  <2>3. CASE Len(send[c]) >= SendCap
    <3>1. SendCap \in Nat
      BY DEF HubAssumption
    <3>2. /\ todo' = todo \ {c} /\ clients' = clients \ {c} /\ CloseSend(c)
          /\ UNCHANGED <<channelVars, log, from, pumpVars, send>>
      BY <1>6, <2>3, <3>1 DEF Offer
    <3>3. HubTypeOK'
      BY <2>1, <3>2
    <3>4. (JoinedOnce /\ Complementary /\ Joined /\ Holding /\ Serving /\ ~panicked)'
      BY <2>1, <3>2
    <3> QED
      BY <3>3, <3>4
  <2>4. Len(send[c]) < SendCap \/ Len(send[c]) >= SendCap
    <3>1. Len(send[c]) \in Nat /\ SendCap \in Nat
      BY DEF HubAssumption
    <3> QED
      BY <3>1
  <2> QED
    BY <2>2, <2>3, <2>4
<1>7. ASSUME NEW c \in Client, PumpStep(c) PROVE SafeInv'
  <2>1. CASE ServeWS(c)
    BY <2>1 DEF ServeWS
  <2>2. CASE PeerGone(c)
    BY <2>2 DEF PeerGone
  <2>3. CASE ReadError(c)
    BY <2>3 DEF ReadError
  <2>4. CASE ReadClose(c)
    BY <2>4 DEF ReadClose
  <2>5. CASE WriteTake(c)
    <3>1. Head(send[c]) \in Msg /\ Tail(send[c]) \in Seq(Msg)
      BY <2>5 DEF WriteTake
    <3>2. Head(send[c]) # 0 /\ Head(send[c]) \in 0..MaxMsg
      BY <3>1, HubAssumption DEF HubAssumption
    <3>3. HubTypeOK'
      BY <2>5, <3>1, <3>2 DEF WriteTake
    <3>4. (JoinedOnce /\ Complementary /\ Joined /\ Holding /\ Serving /\ ~panicked)'
      BY <2>5, <3>2 DEF WriteTake
    <3> QED
      BY <3>3, <3>4
  <2>6. CASE WriteDone(c)
    <3>1. held[c] \in Msg
      BY <2>6 DEF WriteDone
    <3>2. Append(got[c], held[c]) \in Seq(Msg)
      BY <3>1
    <3>3. got' \in [Client -> Seq(Msg)]
      BY <2>6, <3>2 DEF WriteDone
    <3>4. HubTypeOK'
      BY <2>6, <3>3 DEF WriteDone
    <3>5. (JoinedOnce /\ Complementary /\ Joined /\ Holding /\ Serving /\ ~panicked)'
      BY <2>6 DEF WriteDone
    <3> QED
      BY <3>4, <3>5
  <2>7. CASE WriteError(c)
    BY <2>7 DEF WriteError
  <2>8. CASE WriteEnd(c)
    BY <2>8 DEF WriteEnd
  <2> QED
    BY <1>7, <2>1, <2>2, <2>3, <2>4, <2>5, <2>6, <2>7, <2>8 DEF PumpStep
<1>8. CASE UNCHANGED vars
  BY <1>8
<1> QED
  BY <1>1, <1>2, <1>3, <1>4, <1>5, <1>6, <1>7, <1>8 DEF Next, RunStep
-----------------------------------------------------------------------------
(***************************************************************************)
(* The stream of one connection.                                           *)
(***************************************************************************)
Hand(c) == IF writer[c] = "writing" THEN 1 ELSE 0
Behind(c) == IF c \in todo THEN 1 ELSE 0

\* Where in the log the first message not yet shown is.
Shown(c) == from[c] + Len(got[c])

\* Nothing has been buffered for a connection before it is registered.
Fresh(c) == writer[c] = "off" => got[c] = <<>> /\ send[c] = <<>>

\* While the connection is open, the held and the buffered messages follow in
\* the log the ones that were shown.
InOrder(c) ==
    conn[c] = "open" =>
        /\ Shown(c) + Hand(c) + Len(send[c]) <= Len(log)
        /\ writer[c] = "writing" => held[c] = log[Shown(c) + 1]
        /\ \A i \in 1..Len(send[c]) : send[c][i] = log[Shown(c) + Hand(c) + i]

\* Nothing is missing from a registered, open connection but the message that
\* the fan-out has not offered it yet.
UpToDate(c) ==
    c \in clients /\ conn[c] = "open" =>
        Shown(c) + Hand(c) + Len(send[c]) + Behind(c) = Len(log)

Unbroken(c) ==
    /\ Shown(c) <= Len(log)
    /\ \A i \in 1..Len(got[c]) : got[c][i] = log[from[c] + i]

Stream(c) == Fresh(c) /\ InOrder(c) /\ UpToDate(c) /\ Unbroken(c)

LEMMA StreamInit == Init => \A c \in Client : Stream(c)
<1> SUFFICES ASSUME Init, NEW c \in Client PROVE Stream(c)
  OBVIOUS
<1>1. /\ got[c] = <<>> /\ send[c] = <<>> /\ log = <<>> /\ from[c] = 0
      /\ conn[c] = "none" /\ clients = {}
  BY DEF Init
<1>2. Unbroken(c)
  BY <1>1 DEF Unbroken, Shown
<1>3. Fresh(c) /\ InOrder(c) /\ UpToDate(c)
  BY <1>1 DEF Fresh, InOrder, UpToDate
<1> QED
  BY <1>2, <1>3 DEF Stream

\* A step that leaves a connection's own variables, the log and the map alone
\* leaves its stream alone.
LEMMA StreamFrame ==
    ASSUME NEW d \in Client, Stream(d),
           got'[d] = got[d], send'[d] = send[d], writer'[d] = writer[d],
           held'[d] = held[d], from'[d] = from[d], log' = log,
           conn'[d] = "open" => conn[d] = "open",
           d \in clients' => d \in clients,
           d \in clients' => (d \in todo' <=> d \in todo)
    PROVE  Stream(d)'
  BY DEF Stream, Fresh, InOrder, UpToDate, Unbroken, Shown, Hand, Behind

LEMMA StreamStep ==
    SafeInv /\ (\A c \in Client : Stream(c)) /\ [Next]_vars
        => \A c \in Client : Stream(c)'
<1> SUFFICES ASSUME SafeInv, \A c \in Client : Stream(c), [Next]_vars,
                    NEW d \in Client
             PROVE  Stream(d)'
  OBVIOUS
<1> USE DEF channelVars, hubVars, pumpVars, vars
<1>0. /\ from[d] \in Nat /\ got[d] \in Seq(Msg) /\ send[d] \in Seq(Msg) /\ log \in Seq(Msg)
      /\ Len(got[d]) \in Nat /\ Len(send[d]) \in Nat /\ Len(log) \in Nat
      /\ Stream(d)
  BY DEF SafeInv, HubTypeOK
<1>1. ASSUME NEW p \in Caller, Call(p) \/ Broadcast(p) PROVE Stream(d)'
  BY <1>1, <1>0, StreamFrame DEF Call, Broadcast
<1>2. ASSUME TakeMessage PROVE Stream(d)'
  <2>1. Head(broadcast) \in Msg
    BY <1>2 DEF TakeMessage, SafeInv, HubTypeOK
  <2>2. /\ Len(log') = Len(log) + 1
        /\ \A i \in 1..Len(log) : log'[i] = log[i]
    BY <1>0, <1>2, <2>1 DEF TakeMessage
  <2>3. /\ got' = got /\ send' = send /\ writer' = writer /\ held' = held
        /\ from' = from /\ conn' = conn /\ clients' = clients
        /\ todo = {} /\ todo' = clients
    BY <1>2 DEF TakeMessage, AtSelect
  <2>4. Fresh(d)'
    BY <1>0, <2>3 DEF Stream, Fresh
  <2>5. Unbroken(d)'
    <3>1. Shown(d)' = Shown(d) /\ Shown(d) <= Len(log) /\ Shown(d) \in Nat
      BY <1>0, <2>3 DEF Stream, Unbroken, Shown
    <3>2. \A i \in 1..Len(got[d]) : from[d] + i \in 1..Len(log)
      BY <1>0, <3>1 DEF Shown
    <3>3. \A i \in 1..Len(got[d]) : got[d][i] = log[from[d] + i]
      BY <1>0 DEF Stream, Unbroken
    <3>4. \A i \in 1..Len(got[d]) : got[d][i] = log'[from[d] + i]
      BY <2>2, <3>2, <3>3
    <3>5. Shown(d)' <= Len(log')
      BY <1>0, <2>2, <3>1
    <3> QED
      BY <2>3, <3>4, <3>5 DEF Unbroken
  <2>6. InOrder(d)'
    <3>1. CASE conn[d] # "open"
      BY <2>3, <3>1 DEF InOrder
    <3>2. CASE conn[d] = "open"
      <4>1. /\ Shown(d)' = Shown(d) /\ Hand(d)' = Hand(d)
            /\ Shown(d) \in Nat /\ Hand(d) \in 0..1
            /\ writer[d] = "writing" => Hand(d) = 1
        BY <1>0, <2>3 DEF Shown, Hand
      <4>2. /\ Shown(d) + Hand(d) + Len(send[d]) <= Len(log)
            /\ writer[d] = "writing" => held[d] = log[Shown(d) + 1]
            /\ \A i \in 1..Len(send[d]) : send[d][i] = log[Shown(d) + Hand(d) + i]
        BY <1>0, <3>2 DEF Stream, InOrder
      <4>3. /\ writer[d] = "writing" => Shown(d) + 1 \in 1..Len(log)
            /\ \A i \in 1..Len(send[d]) : Shown(d) + Hand(d) + i \in 1..Len(log)
        BY <1>0, <4>1, <4>2
      <4>4. /\ writer[d] = "writing" => held[d] = log'[Shown(d) + 1]
            /\ \A i \in 1..Len(send[d]) : send[d][i] = log'[Shown(d) + Hand(d) + i]
        BY <2>2, <4>2, <4>3
      <4>5. Shown(d) + Hand(d) + Len(send[d]) <= Len(log')
        BY <1>0, <2>2, <4>1, <4>2
      <4> QED
        BY <2>3, <4>1, <4>4, <4>5 DEF InOrder
    <3> QED
      BY <3>1, <3>2
  <2>7. UpToDate(d)'
    <3>1. CASE d \in clients /\ conn[d] = "open"
      <4>1. /\ Shown(d)' = Shown(d) /\ Hand(d)' = Hand(d)
            /\ Shown(d) \in Nat /\ Hand(d) \in 0..1
            /\ Behind(d) = 0 /\ Behind(d)' = 1
        BY <1>0, <2>3, <3>1 DEF Shown, Hand, Behind
      <4>2. Shown(d) + Hand(d) + Len(send[d]) + Behind(d) = Len(log)
        BY <1>0, <3>1 DEF Stream, UpToDate
      <4>3. Shown(d) + Hand(d) + Len(send[d]) = Len(log)
        BY <1>0, <4>1, <4>2
      <4>4. Shown(d) + Hand(d) + Len(send[d]) + 1 = Len(log')
        BY <2>2, <4>3
      <4>5. Shown(d)' + Hand(d)' + Len(send[d]) + Behind(d)' = Len(log')
        BY <4>1, <4>4
      <4> QED
        BY <2>3, <4>5 DEF UpToDate
    <3>2. CASE ~(d \in clients /\ conn[d] = "open")
      BY <2>3, <3>2 DEF UpToDate
    <3> QED
      BY <3>1, <3>2
  <2> QED
    BY <2>4, <2>5, <2>6, <2>7 DEF Stream
<1>3. ASSUME NEW c \in Client, Register(c) PROVE Stream(d)'
  <2>1. CASE d # c
    BY <1>0, <1>3, <2>1, StreamFrame DEF Register, SafeInv, HubTypeOK
  <2>2. CASE d = c
    <3>1. got[d] = <<>> /\ send[d] = <<>>
      BY <1>0, <1>3, <2>2 DEF Register, SafeInv, JoinedOnce, Stream, Fresh
    <3>2. /\ got' = got /\ send' = send /\ log' = log /\ todo' = {}
          /\ from'[d] = Len(log) /\ writer'[d] = "waiting"
      BY <1>3, <2>2 DEF Register, AtSelect, SafeInv, HubTypeOK
    <3>3. Shown(d)' = Len(log) /\ Hand(d)' = 0 /\ Behind(d)' = 0
      BY <1>0, <3>1, <3>2 DEF Shown, Hand, Behind
    <3> QED
      BY <1>0, <3>1, <3>2, <3>3 DEF Stream, Fresh, InOrder, UpToDate, Unbroken
  <2> QED
    BY <2>1, <2>2
<1>4. ASSUME NEW c \in Client, Unregister(c) PROVE Stream(d)'
  BY <1>0, <1>4, StreamFrame DEF Unregister, AtSelect
<1>5. ASSUME NEW c \in Client, Offer(c) PROVE Stream(d)'
  <2>1. CASE d # c
    BY <1>0, <1>5, <2>1, StreamFrame DEF Offer, CloseSend, SafeInv, HubTypeOK
  <2>2. CASE d = c /\ ~(Len(send[c]) < SendCap)
    <3>1. /\ got' = got /\ send' = send /\ writer' = writer /\ held' = held
          /\ from' = from /\ log' = log /\ conn' = conn /\ d \notin clients'
      BY <1>5, <2>2 DEF Offer
    <3> QED
      BY <1>0, <3>1, StreamFrame
  <2>3. CASE d = c /\ Len(send[c]) < SendCap
    <3>1. /\ got' = got /\ writer' = writer /\ held' = held /\ from' = from
          /\ log' = log /\ conn' = conn /\ clients' = clients
          /\ d \in clients /\ d \in todo /\ d \notin todo'
          /\ send'[d] = Append(send[d], log[Len(log)])
      <4>1. SendCap \in Nat
        BY HubAssumption DEF HubAssumption
      <4>2. ~(Len(send[c]) >= SendCap)
        BY <1>0, <2>3, <4>1
      <4> QED
        BY <1>5, <2>3, <4>2 DEF Offer, SafeInv, HubTypeOK
    <3>2. writer[d] # "off"
      BY <3>1 DEF SafeInv, Joined
    <3>3. Len(log) > 0 /\ log[Len(log)] \in Msg
      BY <1>0, <3>1 DEF SafeInv, Serving
    <3>4. /\ Len(send'[d]) = Len(send[d]) + 1
          /\ \A i \in 1..Len(send[d]) : send'[d][i] = send[d][i]
          /\ send'[d][Len(send[d]) + 1] = log[Len(log)]
      BY <1>0, <3>1, <3>3
    <3>5. Fresh(d)' /\ Unbroken(d)'
      BY <1>0, <3>1, <3>2 DEF Stream, Fresh, Unbroken, Shown
    <3>6. CASE conn[d] # "open"
      BY <3>1, <3>5, <3>6 DEF Stream, InOrder, UpToDate
    <3>7. CASE conn[d] = "open"
      <4>1. /\ Shown(d)' = Shown(d) /\ Hand(d)' = Hand(d)
            /\ Shown(d) \in Nat /\ Hand(d) \in 0..1
            /\ Behind(d) = 1 /\ Behind(d)' = 0
        BY <1>0, <3>1 DEF Shown, Hand, Behind
      <4>2. Shown(d) + Hand(d) + Len(send[d]) + 1 = Len(log)
        BY <1>0, <3>1, <3>7, <4>1 DEF Stream, UpToDate
      <4>3. UpToDate(d)'
        BY <1>0, <3>1, <3>4, <4>1, <4>2 DEF UpToDate
      <4>4. \A i \in 1..Len(send'[d]) : send'[d][i] = log[Shown(d) + Hand(d) + i]
        <5> SUFFICES ASSUME NEW i \in 1..Len(send'[d])
                     PROVE  send'[d][i] = log[Shown(d) + Hand(d) + i]
          OBVIOUS
        <5>1. CASE i \in 1..Len(send[d])
          BY <1>0, <3>4, <3>7, <5>1 DEF Stream, InOrder
        <5>2. CASE i = Len(send[d]) + 1
          BY <1>0, <3>4, <4>1, <4>2, <5>2
        <5> QED
          BY <1>0, <3>4, <5>1, <5>2
      <4>5. InOrder(d)'
        BY <1>0, <3>1, <3>4, <3>7, <4>1, <4>2, <4>4 DEF Stream, InOrder
      <4> QED
        BY <3>5, <4>3, <4>5 DEF Stream
    <3> QED
      BY <3>6, <3>7
  <2> QED
    BY <2>1, <2>2, <2>3
<1>6. ASSUME NEW c \in Client, ServeWS(c) PROVE Stream(d)'
  <2>1. CASE d # c
    BY <1>0, <1>6, <2>1, StreamFrame DEF ServeWS, SafeInv, HubTypeOK
  <2>2. CASE d = c
    <3>1. writer[d] = "off" /\ d \notin clients
      BY <1>6, <2>2 DEF ServeWS, SafeInv, JoinedOnce, Joined
    <3>2. got[d] = <<>> /\ send[d] = <<>>
      BY <1>0, <3>1 DEF Stream, Fresh
    <3>3. /\ got' = got /\ send' = send /\ writer' = writer /\ from' = from
          /\ log' = log /\ clients' = clients
      BY <1>6 DEF ServeWS
    <3>4. Shown(d)' = from[d] /\ Hand(d)' = 0 /\ from[d] <= Len(log)
      BY <1>0, <3>1, <3>2, <3>3 DEF Stream, Unbroken, Shown, Hand
    <3> QED
      BY <1>0, <3>1, <3>2, <3>3, <3>4
      DEF Stream, Fresh, InOrder, UpToDate, Unbroken
  <2> QED
    BY <2>1, <2>2
<1>7. ASSUME NEW c \in Client,
             PeerGone(c) \/ ReadError(c) \/ ReadClose(c)
      PROVE  Stream(d)'
  BY <1>0, <1>7, StreamFrame DEF PeerGone, ReadError, ReadClose, SafeInv, HubTypeOK
<1>8. ASSUME NEW c \in Client, WriteTake(c) PROVE Stream(d)'
  <2>1. CASE d # c
    BY <1>0, <1>8, <2>1, StreamFrame DEF WriteTake, SafeInv, HubTypeOK
  <2>2. CASE d = c
    <3>1. /\ got' = got /\ from' = from /\ conn' = conn /\ clients' = clients
          /\ todo' = todo /\ log' = log
          /\ writer[d] = "waiting" /\ writer'[d] = "writing"
          /\ send[d] # <<>>
          /\ held'[d] = Head(send[d]) /\ send'[d] = Tail(send[d])
      BY <1>8, <2>2 DEF WriteTake, SafeInv, HubTypeOK
    <3>2. /\ Len(send[d]) >= 1 /\ Len(send'[d]) = Len(send[d]) - 1
          /\ held'[d] = send[d][1]
          /\ \A i \in 1..Len(send'[d]) : send'[d][i] = send[d][i + 1]
      BY <1>0, <3>1
    <3>3. /\ Shown(d)' = Shown(d) /\ Shown(d) \in Nat
          /\ Hand(d) = 0 /\ Hand(d)' = 1 /\ Behind(d)' = Behind(d) /\ Behind(d) \in 0..1
      BY <1>0, <3>1 DEF Shown, Hand, Behind
    <3>4. Fresh(d)' /\ Unbroken(d)'
      BY <1>0, <3>1 DEF Stream, Fresh, Unbroken, Shown
    <3>5. UpToDate(d)'
      BY <1>0, <3>1, <3>2, <3>3 DEF Stream, UpToDate
    <3>6. CASE conn[d] # "open"
      BY <3>1, <3>4, <3>5, <3>6 DEF Stream, InOrder
    <3>7. CASE conn[d] = "open"
      <4>1. /\ Shown(d) + Len(send[d]) <= Len(log)
            /\ \A i \in 1..Len(send[d]) : send[d][i] = log[Shown(d) + i]
        BY <1>0, <3>3, <3>7 DEF Stream, InOrder
      <4>2. \A i \in 1..Len(send'[d]) : send'[d][i] = log[Shown(d) + 1 + i]
        <5> SUFFICES ASSUME NEW i \in 1..Len(send'[d])
                     PROVE  send'[d][i] = log[Shown(d) + 1 + i]
          OBVIOUS
        <5>1. i + 1 \in 1..Len(send[d]) /\ Shown(d) + (i + 1) = Shown(d) + 1 + i
          BY <1>0, <3>2, <3>3
        <5> QED
          BY <3>2, <4>1, <5>1
      <4>3. held'[d] = log[Shown(d) + 1]
        BY <1>0, <3>2, <4>1
      <4> QED
        BY <1>0, <3>1, <3>2, <3>3, <3>4, <3>5, <4>1, <4>2, <4>3 DEF Stream, InOrder
    <3> QED
      BY <3>6, <3>7
  <2> QED
    BY <2>1, <2>2
<1>9. ASSUME NEW c \in Client, WriteDone(c) PROVE Stream(d)'
  <2>1. CASE d # c
    BY <1>0, <1>9, <2>1, StreamFrame DEF WriteDone, SafeInv, HubTypeOK
  <2>2. CASE d = c
    <3>1. /\ send' = send /\ from' = from /\ conn' = conn /\ clients' = clients
          /\ todo' = todo /\ log' = log
          /\ writer[d] = "writing" /\ writer'[d] = "waiting"
      BY <1>9, <2>2 DEF WriteDone, SafeInv, HubTypeOK
    <3>2. CASE conn[d] # "open"
      <4>1. got' = got
        BY <1>9, <2>2, <3>2 DEF WriteDone
      <4> QED
        BY <1>0, <3>1, <3>2, <4>1
        DEF Stream, Fresh, InOrder, UpToDate, Unbroken, Shown
    <3>3. CASE conn[d] = "open"
      <4>1. got'[d] = Append(got[d], held[d]) /\ held[d] \in Msg
        BY <1>9, <2>2, <3>1, <3>3 DEF WriteDone, SafeInv, HubTypeOK, Holding, Msg
      <4>2. /\ Len(got'[d]) = Len(got[d]) + 1
            /\ \A i \in 1..Len(got[d]) : got'[d][i] = got[d][i]
            /\ got'[d][Len(got[d]) + 1] = held[d]
        BY <1>0, <4>1
      <4>3. /\ Shown(d)' = Shown(d) + 1 /\ Shown(d) = from[d] + Len(got[d])
            /\ Shown(d) \in Nat
            /\ Hand(d) = 1 /\ Hand(d)' = 0 /\ Behind(d)' = Behind(d) /\ Behind(d) \in 0..1
        <5>1. from'[d] = from[d] /\ Shown(d) = from[d] + Len(got[d])
          BY <3>1 DEF Shown
        <5>2. Shown(d)' = Shown(d) + 1 /\ Shown(d) \in Nat
          BY <1>0, <4>2, <5>1 DEF Shown
        <5>3. Hand(d) = 1 /\ Hand(d)' = 0
          BY <3>1 DEF Hand
        <5>4. Behind(d)' = Behind(d) /\ Behind(d) \in 0..1
          BY <3>1 DEF Behind
        <5> QED
          BY <5>1, <5>2, <5>3, <5>4
      <4>4. /\ Shown(d) + 1 + Len(send[d]) <= Len(log)
            /\ held[d] = log[Shown(d) + 1]
            /\ \A i \in 1..Len(send[d]) : send[d][i] = log[Shown(d) + 1 + i]
        BY <1>0, <3>1, <3>3, <4>3 DEF Stream, InOrder
      <4>5. \A i \in 1..Len(got'[d]) : got'[d][i] = log[from[d] + i]
        <5> SUFFICES ASSUME NEW i \in 1..Len(got'[d])
                     PROVE  got'[d][i] = log[from[d] + i]
          OBVIOUS
        <5>1. CASE i \in 1..Len(got[d])
          BY <1>0, <4>2, <5>1 DEF Stream, Unbroken
        <5>2. CASE i = Len(got[d]) + 1
          <6>1. from[d] + i = Shown(d) + 1
            BY <1>0, <4>3, <5>2
          <6> QED
            BY <4>2, <4>4, <5>2, <6>1
        <5> QED
          BY <1>0, <4>2, <5>1, <5>2
      <4>6. Unbroken(d)'
        BY <1>0, <3>1, <4>3, <4>4, <4>5 DEF Unbroken
      <4>7. InOrder(d)' /\ Fresh(d)'
        BY <1>0, <3>1, <3>3, <4>3, <4>4 DEF InOrder, Fresh
      <4>8. UpToDate(d)'
        BY <1>0, <3>1, <4>3 DEF Stream, UpToDate
      <4> QED
        BY <4>6, <4>7, <4>8 DEF Stream
    <3> QED
      BY <3>2, <3>3
  <2> QED
    BY <2>1, <2>2
<1>10. ASSUME NEW c \in Client, WriteError(c) \/ WriteEnd(c) PROVE Stream(d)'
  <2>1. CASE d # c
    BY <1>0, <1>10, <2>1, StreamFrame DEF WriteError, WriteEnd, SafeInv, HubTypeOK
  <2>2. CASE d = c
    <3>1. /\ got' = got /\ send' = send /\ from' = from /\ log' = log
          /\ conn'[d] = "closed" /\ writer'[d] = "done"
      BY <1>10, <2>2 DEF WriteError, WriteEnd, SafeInv, HubTypeOK
    <3> QED
      BY <1>0, <3>1 DEF Stream, Fresh, InOrder, UpToDate, Unbroken, Shown
  <2> QED
    BY <2>1, <2>2
<1>11. CASE UNCHANGED vars
  BY <1>0, <1>11, StreamFrame
<1> QED
  BY <1>1, <1>2, <1>3, <1>4, <1>5, <1>6, <1>7, <1>8, <1>9, <1>10, <1>11
  DEF Next, RunStep, PumpStep

-----------------------------------------------------------------------------
LEMMA HubInvariant == Spec => []SafeInv /\ [](\A c \in Client : Stream(c))
<1>1. Init => SafeInv /\ \A c \in Client : Stream(c)
  BY SafeInit, StreamInit
<1>2. SafeInv /\ (\A c \in Client : Stream(c)) /\ [Next]_vars
        => SafeInv' /\ (\A c \in Client : Stream(c))'
  BY SafeStep, StreamStep
<1> QED
  BY <1>1, <1>2, PTL DEF Spec

\* The variables of the hub keep their shape: every message that is buffered,
\* held or shown is one that was broadcast, and a fan-out serves registered
\* connections only.
THEOREM HubTypeCorrect == Spec => []HubTypeOK
<1>1. SafeInv => HubTypeOK
  BY DEF SafeInv
<1> QED
  BY <1>1, HubInvariant, PTL

\* Run never sends on, or closes, a closed channel.
THEOREM HubNoPanic == Spec => []NoPanic
<1>1. SafeInv => NoPanic
  BY DEF SafeInv, NoPanic
<1> QED
  BY <1>1, HubInvariant, PTL

\* The channel of a connection is closed exactly when the connection has been
\* registered and has left the map.
THEOREM HubOpenIffRegistered == Spec => []OpenIffRegistered
<1>1. SafeInv => OpenIffRegistered
  BY DEF SafeInv, Complementary, OpenIffRegistered
<1> QED
  BY <1>1, HubInvariant, PTL

\* What a browser has been shown is an unbroken run of the broadcast messages.
THEOREM HubUnbrokenRun == Spec => []UnbrokenRun
<1>1. SafeInv /\ (\A c \in Client : Stream(c)) => UnbrokenRun
  <2> SUFFICES ASSUME SafeInv, \A c \in Client : Stream(c), NEW c \in Client
               PROVE  /\ Len(got[c]) + from[c] <= Len(log)
                      /\ \A i \in 1..Len(got[c]) : got[c][i] = log[from[c] + i]
    BY DEF UnbrokenRun
  <2>1. Len(got[c]) \in Nat /\ from[c] \in Nat
    BY DEF SafeInv, HubTypeOK
  <2>2. Unbroken(c)
    BY DEF Stream
  <2> QED
    BY <2>1, <2>2 DEF Unbroken, Shown
<1> QED
  BY <1>1, HubInvariant, PTL
=============================================================================
