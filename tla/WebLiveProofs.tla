--------------------------- MODULE WebLiveProofs ---------------------------
(***************************************************************************)
(* Theorems about the live parts of the web client, each by itself and     *)
(* together (MCWebLive), for any number of keys, sockets, accounts, codes, *)
(* sources and presses.  Each part has an inductive invariant of its own.  *)
(* A step of the whole is a step, or a stutter, of every part              *)
(* (StepOfEach), so that the conjunction of the invariants is inductive.   *)
(***************************************************************************)
EXTENDS MCWebLive, FiniteSetTheorems, TLAPS

-----------------------------------------------------------------------------
(***************************************************************************)
(* The query cache.  That a key is fetched once at a time is not           *)
(* inductive: the entry says so before the request is sent (useQuery looks *)
(* at `promise'), so an entry must be busy exactly while a request of its  *)
(* key is out (BusyIsOut), no two of which are alike (OneOut); that the    *)
(* dashboard's parts can be read out of it needs an answer behind every    *)
(* scheduled seed (SeedHasData).                                           *)
(***************************************************************************)
Message == [part : Part, version : 1 .. MaxVersion]

RequestsOK ==
    \A r \in requests :
        /\ r = [key |-> r.key, n |-> 0, read |-> r.read]
        /\ r.key \in Key
        /\ r.read = Nothing \/ r.read \in Answer(r.key)

OneOut == \A r1, r2 \in requests : r1.key = r2.key => r1 = r2

BusyIsOut == \A k \in Key : store[k].busy <=> \E r \in requests : r.key = k

SeedHasData == seeding => store[Dash].data # Nothing

LiveInv == LiveTypeOK /\ RequestsOK /\ OneOut /\ BusyIsOut /\ SeedHasData

-----------------------------------------------------------------------------
LEMMA EmptyEntry == ASSUME NEW k PROVE Empty \in Entry(k)
  BY DEF Empty, Entry

\* What an entry becomes when it is requested, given back, invalidated or filled.
LEMMA EntryAsked ==
  ASSUME NEW k, NEW e \in Entry(k), NEW f, f = [e EXCEPT !.busy = TRUE]
  PROVE  f \in Entry(k) /\ f.busy /\ f.data = e.data
<1>1. f \in Entry(k)
  BY DEF Entry
<1>2. f.busy /\ f.data = e.data
  BY DEF Entry
<1> QED
  BY <1>1, <1>2

LEMMA EntryReleased ==
  ASSUME NEW k, NEW e \in Entry(k), NEW f, f = [e EXCEPT !.busy = FALSE]
  PROVE  f \in Entry(k) /\ ~f.busy /\ f.data = e.data
<1>1. f \in Entry(k)
  BY DEF Entry
<1>2. ~f.busy /\ f.data = e.data
  BY DEF Entry
<1> QED
  BY <1>1, <1>2

LEMMA EntryInvalidated ==
  ASSUME NEW k, NEW e \in Entry(k), NEW f, f = [e EXCEPT !.dated = FALSE]
  PROVE  f \in Entry(k) /\ f.busy = e.busy /\ f.data = e.data
<1>1. f \in Entry(k)
  BY DEF Entry
<1>2. f.busy = e.busy /\ f.data = e.data
  BY DEF Entry
<1> QED
  BY <1>1, <1>2

LEMMA EntryFilled ==
  ASSUME NEW k, NEW e \in Entry(k), NEW a \in Answer(k), NEW f, f = Filled(e, a)
  PROVE  f \in Entry(k) /\ f.busy = e.busy /\ f.data = a /\ f.dated
<1>1. f \in Entry(k)
  BY DEF Entry, Filled
<1>2. f.busy = e.busy
  BY DEF Entry, Filled
<1>3. f.data = a /\ f.dated
  BY DEF Entry, Filled
<1> QED
  BY <1>1, <1>2, <1>3

LEMMA SnapshotIsAnswer ==
  ASSUME LiveTypeOK, NEW k \in Key
  PROVE  Snapshot(k) \in Answer(k)
  BY DEF LiveTypeOK, Snapshot, Answer, Content, Key

\* Of an entry's data, what a seed needs: one part, out of all of them.
LEMMA PartIsAnswer ==
  ASSUME NEW a \in Answer(Dash), NEW p \in Part
  PROVE  [q \in {p} |-> a[q]] \in Answer(p)
  BY LiveAssumption DEF Answer, Content

LEMMA LiveInitInv == LiveInit => LiveInv /\ StaleIsPursued
<1> SUFFICES ASSUME LiveInit PROVE LiveInv /\ StaleIsPursued
  OBVIOUS
<1>1. DOMAIN store = Key /\ \A k \in Key : store[k] \in Entry(k) /\ ~store[k].busy
  BY EmptyEntry DEF LiveInit, Empty
<1>2. LiveTypeOK
  <2>1. server \in [Part -> 0 .. MaxVersion] /\ failures \in 0 .. MaxFailures
    BY LiveAssumption DEF LiveInit
  <2> QED
    BY <1>1, <2>1 DEF LiveInit, LiveTypeOK
<1> QED
  BY <1>1, <1>2 DEF LiveInit, LiveInv, RequestsOK, OneOut, BusyIsOut, SeedHasData,
                    StaleIsPursued

-----------------------------------------------------------------------------
\* One step per action; what the cache becomes, then the invariant.
LEMMA LiveStepInv == LiveInv /\ [LiveNext]_liveVars => LiveInv'
<1> SUFFICES ASSUME LiveInv, [LiveNext]_liveVars PROVE LiveInv'
  OBVIOUS
<1>a. /\ LiveTypeOK /\ DOMAIN store = Key
      /\ \A k \in Key : store[k] \in Entry(k)
      /\ Dash \in Key /\ Part \subseteq Key /\ Dash \notin Part
      /\ link = Nothing \/ link \in Seq(Message)
  BY LiveAssumption DEF LiveInv, LiveTypeOK, Key, Message
<1>b. /\ \A r \in requests : /\ r = [key |-> r.key, n |-> 0, read |-> r.read]
                             /\ r.key \in Key
                             /\ r.read = Nothing \/ r.read \in Answer(r.key)
      /\ \A r1, r2 \in requests : r1.key = r2.key => r1 = r2
      /\ \A k \in Key : store[k].busy <=> \E r \in requests : r.key = k
      /\ seeding => store[Dash].data # Nothing
  BY DEF LiveInv, RequestsOK, OneOut, BusyIsOut, SeedHasData
<1>c. (LiveTypeOK /\ RequestsOK /\ OneOut /\ BusyIsOut /\ SeedHasData)' => LiveInv'
  BY DEF LiveInv
<1>d. UNCHANGED <<store, requests>> => RequestsOK' /\ OneOut' /\ BusyIsOut'
  BY <1>b DEF RequestsOK, OneOut, BusyIsOut
<1>1. ASSUME NEW k \in Key, Mount(k) \/ Unmount(k) PROVE LiveInv'
  BY <1>1, <1>a, <1>b, <1>c, <1>d DEF Mount, Unmount, LiveTypeOK, SeedHasData
<1>2. ASSUME NEW k \in Key, RunEffect(k) PROVE LiveInv'
  <2>1. UNCHANGED <<kind, server, link, mounted, seeding, failures>> /\ due' = due \ {k}
    BY <1>2 DEF RunEffect
  <2>2. CASE UNCHANGED <<store, requests>>
    BY <2>1, <2>2, <1>a, <1>b, <1>c, <1>d DEF LiveTypeOK, SeedHasData
  <2>3. CASE MayFetch(k) /\ ~ UNCHANGED <<store, requests>>
    <3>1. {r \in requests : r.key = k} = {}
      BY <2>3, <1>b DEF MayFetch
    <3>2. Cardinality({r \in requests : r.key = k}) = 0
      BY <3>1, FS_EmptySet
    <3>3. /\ requests' = requests \cup {[key |-> k, n |-> 0, read |-> Nothing]}
          /\ store' = [store EXCEPT ![k].busy = TRUE]
      BY <1>2, <2>3, <3>2 DEF RunEffect
    <3>4. RequestsOK' /\ OneOut'
      BY <1>b, <3>1, <3>3 DEF RequestsOK, OneOut
    <3>5. /\ DOMAIN store' = Key
          /\ store'[k] = [store[k] EXCEPT !.busy = TRUE]
          /\ \A l \in Key \ {k} : store'[l] = store[l]
      BY <1>a, <3>3
    <3>6. store'[k] \in Entry(k) /\ store'[k].busy /\ store'[k].data = store[k].data
      BY <1>a, <3>5, EntryAsked
    <3>7. BusyIsOut'
      <4>1. store'[k].busy /\ \E r \in requests' : r.key = k
        <5>1. PICK s : s = [key |-> k, n |-> 0, read |-> Nothing]
          OBVIOUS
        <5>2. s.key = k /\ s \in requests'
          BY <3>3, <5>1
        <5> QED
          BY <3>6, <5>2
      <4>2. ASSUME NEW l \in Key, l # k PROVE store'[l].busy <=> \E r \in requests' : r.key = l
        <5>1. (\E r \in requests' : r.key = l) <=> \E r \in requests : r.key = l
          BY <3>3, <4>2
        <5> QED
          BY <1>b, <3>5, <4>2, <5>1
      <4> QED
        BY <4>1, <4>2 DEF BusyIsOut
    <3>8. LiveTypeOK'
      BY <1>a, <2>1, <3>5, <3>6 DEF LiveTypeOK
    <3>9. SeedHasData'
      BY <1>a, <1>b, <2>1, <3>5, <3>6 DEF SeedHasData
    <3> QED
      BY <1>c, <3>4, <3>7, <3>8, <3>9
  <2> QED
    BY <1>2, <2>2, <2>3 DEF RunEffect
<1>3. ASSUME NEW r \in requests, ServerReads(r) PROVE LiveInv'
  <2>1. Snapshot(r.key) \in Answer(r.key)
    BY <1>a, <1>b, SnapshotIsAnswer
  <2>2. r = [key |-> r.key, n |-> 0, read |-> r.read]
    BY <1>b
  <2>3. [r EXCEPT !.read = Snapshot(r.key)] =
            [key |-> r.key, n |-> 0, read |-> Snapshot(r.key)]
    BY <2>2
  <2>4. /\ requests' = (requests \ {r}) \cup {[key |-> r.key, n |-> 0, read |-> Snapshot(r.key)]}
        /\ UNCHANGED <<kind, server, link, store, mounted, due, seeding, failures>>
    BY <1>3, <2>3 DEF ServerReads
  <2>5. RequestsOK'
    BY <1>b, <2>1, <2>4 DEF RequestsOK
  <2>6. OneOut'
    BY <1>b, <2>4 DEF OneOut
  <2>6a. ASSUME NEW k PROVE (\E q \in requests' : q.key = k) <=> \E q \in requests : q.key = k
    <3>1. PICK s : s = [key |-> r.key, n |-> 0, read |-> Snapshot(r.key)]
      OBVIOUS
    <3>2. s.key = r.key /\ requests' = (requests \ {r}) \cup {s}
      BY <2>4, <3>1
    <3> QED
      BY <3>2
  <2>6b. BusyIsOut'
    BY <1>b, <2>4, <2>6a DEF BusyIsOut
  <2>7. LiveTypeOK' /\ SeedHasData'
    BY <1>a, <1>b, <2>4 DEF LiveTypeOK, SeedHasData
  <2> QED
    BY <1>c, <2>5, <2>6, <2>6b, <2>7
<1>4. ASSUME NEW r \in requests, Answered(r) PROVE LiveInv'
  <2>1. r.key \in Key /\ r.read \in Answer(r.key) /\ r.read # Nothing
    BY <1>4, <1>b DEF Answered
  <2>2. /\ requests' = requests \ {r}
        /\ DOMAIN store' = Key
        /\ store'[r.key] = [Filled(store[r.key], r.read) EXCEPT !.busy = FALSE]
        /\ \A k \in Key \ {r.key} : store'[k] = store[k]
        /\ seeding' = (seeding \/ r.key = Dash)
        /\ UNCHANGED <<kind, server, link, mounted, failures>>
        /\ due' = due \cup ({r.key} \cap mounted)
    BY <1>4, <1>a, <2>1 DEF Answered, Notify
  <2>3. store'[r.key] \in Entry(r.key)
        /\ ~store'[r.key].busy /\ store'[r.key].data = r.read
    <3>1. store[r.key] \in Entry(r.key)
      BY <1>a, <2>1
    <3>2. PICK f : f = Filled(store[r.key], r.read)
      OBVIOUS
    <3>3. f \in Entry(r.key) /\ f.data = r.read
      BY <2>1, <3>1, <3>2, EntryFilled
    <3> QED
      BY <2>2, <3>2, <3>3, EntryReleased
  <2>5. LiveTypeOK'
    BY <1>a, <2>2, <2>3 DEF LiveTypeOK
  <2>6. SeedHasData'
    BY <1>a, <1>b, <2>1, <2>2, <2>3 DEF SeedHasData
  <2>7. RequestsOK' /\ OneOut'
    BY <1>b, <2>2 DEF RequestsOK, OneOut
  <2>8. BusyIsOut'
    <3>1. ~store'[r.key].busy /\ ~\E q \in requests' : q.key = r.key
      BY <1>b, <2>2, <2>3
    <3>2. ASSUME NEW k \in Key, k # r.key PROVE store'[k].busy <=> \E q \in requests' : q.key = k
      <4>1. (\E q \in requests' : q.key = k) <=> \E q \in requests : q.key = k
        BY <2>2, <3>2
      <4> QED
        BY <1>b, <2>2, <3>2, <4>1
    <3> QED
      BY <3>1, <3>2 DEF BusyIsOut
  <2> QED
    BY <1>c, <2>5, <2>6, <2>7, <2>8
<1>5. ASSUME NEW r \in requests, Failed(r) PROVE LiveInv'
  <2>1. r.key \in Key
    BY <1>b
  <2>2. /\ requests' = requests \ {r}
        /\ DOMAIN store' = Key
        /\ store'[r.key] = [store[r.key] EXCEPT !.busy = FALSE]
        /\ \A k \in Key \ {r.key} : store'[k] = store[k]
        /\ failures' = failures + 1 /\ failures < MaxFailures
        /\ UNCHANGED <<kind, server, link, mounted, seeding>>
        /\ due' = due \cup ({r.key} \cap mounted)
    BY <1>5, <1>a, <2>1 DEF Failed, Notify
  <2>3. store'[r.key] \in Entry(r.key)
        /\ ~store'[r.key].busy /\ store'[r.key].data = store[r.key].data
    BY <1>a, <2>1, <2>2, EntryReleased
  <2>5. LiveTypeOK'
    BY <1>a, <2>2, <2>3, LiveAssumption DEF LiveTypeOK
  <2>6. SeedHasData'
    BY <1>a, <1>b, <2>2, <2>3 DEF SeedHasData
  <2>7. RequestsOK' /\ OneOut'
    BY <1>b, <2>2 DEF RequestsOK, OneOut
  <2>8. BusyIsOut'
    <3>1. ~store'[r.key].busy /\ ~\E q \in requests' : q.key = r.key
      BY <1>b, <2>2, <2>3
    <3>2. ASSUME NEW k \in Key, k # r.key PROVE store'[k].busy <=> \E q \in requests' : q.key = k
      <4>1. (\E q \in requests' : q.key = k) <=> \E q \in requests : q.key = k
        BY <2>2, <3>2
      <4> QED
        BY <1>b, <2>2, <3>2, <4>1
    <3> QED
      BY <3>1, <3>2 DEF BusyIsOut
  <2> QED
    BY <1>c, <2>5, <2>6, <2>7, <2>8
<1>6. ASSUME NEW ks \in SUBSET Key, store' = Invalidated(ks), Notify(ks),
             UNCHANGED <<kind, server, requests, mounted, seeding, failures>>,
             link' = Nothing \/ link' \in Seq(Message)
      PROVE LiveInv'
  <2>1. DOMAIN store' = Key
    BY <1>6 DEF Invalidated
  <2>2. ASSUME NEW k \in Key
        PROVE  /\ store'[k] \in Entry(k)
               /\ store'[k].data = store[k].data
               /\ store'[k].busy = store[k].busy
    <3>1. store'[k] = store[k] \/ store'[k] = [store[k] EXCEPT !.dated = FALSE]
      BY <1>6 DEF Invalidated
    <3> QED
      BY <1>a, <3>1, EntryInvalidated
  <2>3. LiveTypeOK'
    BY <1>6, <1>a, <2>1, <2>2 DEF LiveTypeOK, Notify, Message
  <2>4. RequestsOK' /\ OneOut'
    BY <1>6, <1>b DEF RequestsOK, OneOut
  <2>5. BusyIsOut' /\ SeedHasData'
    BY <1>6, <1>a, <1>b, <2>2 DEF BusyIsOut, SeedHasData
  <2> QED
    BY <1>c, <2>3, <2>4, <2>5
<1>7. ASSUME NEW k \in Key, Tick(k) PROVE LiveInv'
  BY <1>a, <1>6, <1>7 DEF Tick
<1>8. CASE Update
  BY <1>a, <1>6, <1>8 DEF Update
<1>9. CASE Seed
  <2>1. store[Dash].data \in Answer(Dash)
    BY <1>9, <1>a, <1>b DEF Seed, Entry
  <2>2. /\ DOMAIN store' = Key /\ seeding' = FALSE
        /\ \A k \in Part : store'[k] = Filled(store[k], [p \in {k} |-> store[Dash].data[p]])
        /\ \A k \in Key \ Part : store'[k] = store[k]
        /\ due' = due \cup (Part \cap mounted)
        /\ UNCHANGED <<kind, server, link, requests, mounted, failures>>
    BY <1>9, <1>a DEF Seed, Notify
  <2>3. ASSUME NEW k \in Key
        PROVE  store'[k] \in Entry(k) /\ store'[k].busy = store[k].busy
    <3>1. CASE k \in Part
      <4>1. [p \in {k} |-> store[Dash].data[p]] \in Answer(k)
        BY <2>1, <3>1, PartIsAnswer
      <4>2. store[k] \in Entry(k) /\ store'[k] = Filled(store[k], [p \in {k} |-> store[Dash].data[p]])
        BY <1>a, <2>2, <3>1
      <4> QED
        BY <4>1, <4>2, EntryFilled
    <3>2. CASE k \notin Part
      BY <1>a, <2>2, <3>2
    <3> QED
      BY <3>1, <3>2
  <2>4. LiveTypeOK'
    <3>1. \A k \in Key : store'[k] \in Entry(k)
      BY <2>3
    <3> QED
      <4>1. due' \subseteq mounted
        BY <1>a, <2>2 DEF LiveTypeOK
      <4>2. seeding' \in BOOLEAN
        BY <2>2
      <4> QED
        BY <1>a, <2>2, <3>1, <4>1, <4>2 DEF LiveTypeOK
  <2>5. RequestsOK' /\ OneOut' /\ SeedHasData'
    BY <1>b, <2>2 DEF RequestsOK, OneOut, SeedHasData
  <2>6. BusyIsOut'
    BY <1>b, <2>2, <2>3 DEF BusyIsOut
  <2> QED
    BY <1>c, <2>4, <2>5, <2>6
<1>10. CASE Receive
  <2> DEFINE m == Head(link)
  <2>1. link \in Seq(Message) /\ link # <<>> /\ link' = Tail(link)
    BY <1>10, <1>a DEF Receive
  <2>2. m \in Message /\ link' \in Seq(Message)
    BY <2>1
  <2>3. m.part \in Part /\ m.part # Dash /\ m.version \in 0 .. MaxVersion
    BY <1>a, <2>2, LiveAssumption DEF Message
  <2>4. CASE kind[m.part] # "pushed"
    <3>1. store' = Invalidated({m.part, Dash}) /\ Notify({m.part, Dash})
      BY <1>10, <2>4 DEF Receive
    <3>2. UNCHANGED <<kind, server, requests, mounted, seeding, failures>>
      BY <1>10 DEF Receive
    <3>3. {m.part, Dash} \in SUBSET Key
      BY <1>a, <2>3
    <3> QED
      BY <1>6, <2>2, <3>1, <3>2, <3>3
  <2>5. CASE kind[m.part] = "pushed"
    <3>1. [p \in {m.part} |-> m.version] \in Answer(m.part)
      BY <2>3 DEF Answer, Content
    <3>2. /\ DOMAIN store' = Key
          /\ store'[m.part] = Filled(store[m.part], [p \in {m.part} |-> m.version])
          /\ \A k \in Key \ {m.part} : store'[k] = store[k]
          /\ Notify({m.part})
          /\ UNCHANGED <<kind, server, requests, mounted, seeding, failures>>
      BY <1>10, <1>a, <2>3, <2>5 DEF Receive
    <3>3. store'[m.part] \in Entry(m.part) /\ store'[m.part].busy = store[m.part].busy
      <4>1. store[m.part] \in Entry(m.part)
        BY <1>a, <2>3
      <4> QED
        BY <4>1, <3>1, <3>2, EntryFilled
    <3>4. LiveTypeOK'
      BY <1>a, <2>2, <3>2, <3>3 DEF LiveTypeOK, Notify, Message
    <3>5. RequestsOK' /\ OneOut'
      BY <1>b, <3>2 DEF RequestsOK, OneOut
    <3>6. BusyIsOut'
      BY <1>b, <3>2, <3>3 DEF BusyIsOut
    <3>7. SeedHasData'
      BY <1>a, <1>b, <2>3, <3>2 DEF SeedHasData
    <3> QED
      BY <1>c, <3>4, <3>5, <3>6, <3>7
  <2> QED
    BY <2>4, <2>5
<1>11. ASSUME NEW p \in Part, Write(p) PROVE LiveInv'
  <2>1. server[p] \in 0 .. MaxVersion /\ server[p] < MaxVersion
    BY <1>11, <1>a DEF Write, LiveTypeOK
  <2>2. [part |-> p, version |-> server[p] + 1] \in Message
    BY <2>1, LiveAssumption DEF Message
  <2>3. link' = Nothing \/ link' \in Seq(Message)
    BY <1>11, <1>a, <2>2 DEF Write
  <2>4. server' \in [Part -> 0 .. MaxVersion]
    BY <1>11, <1>a, <2>1, LiveAssumption DEF Write, LiveTypeOK
  <2>5. LiveTypeOK'
    BY <1>11, <1>a, <2>3, <2>4 DEF Write, LiveTypeOK, Message
  <2> QED
    BY <1>11, <1>b, <1>c, <1>d, <2>5 DEF Write, SeedHasData
<1>12. CASE LinkDrops \/ Connect
  <2>1. link' = Nothing \/ link' \in Seq(Message)
    <3>1. <<>> \in Seq(Message)
      OBVIOUS
    <3> QED
      BY <1>12, <3>1 DEF LinkDrops, Connect
  <2>2. LiveTypeOK'
    BY <1>12, <1>a, <2>1 DEF LinkDrops, Connect, LiveTypeOK, Message
  <2> QED
    BY <1>12, <1>b, <1>c, <1>d, <2>2 DEF LinkDrops, Connect, SeedHasData
<1>13. CASE UNCHANGED liveVars
  BY <1>13, <1>a, <1>b, <1>c, <1>d DEF liveVars, LiveTypeOK, SeedHasData
<1> QED
  BY <1>1, <1>2, <1>3, <1>4, <1>5, <1>7, <1>8, <1>9, <1>10, <1>11, <1>12, <1>13
     DEF LiveNext

-----------------------------------------------------------------------------
\* Whatever changes an entry for the worse has its mounted effect scheduled.
LEMMA StaleStep ==
  LiveInv /\ StaleIsPursued /\ [LiveNext]_liveVars => StaleIsPursued'
<1> SUFFICES ASSUME LiveInv, StaleIsPursued, [LiveNext]_liveVars,
                    NEW k \in mounted', ~store'[k].dated \/ store'[k].data = Nothing,
                    k \notin due'
             PROVE  store'[k].busy
  BY DEF StaleIsPursued
<1>a. /\ LiveTypeOK /\ DOMAIN store = Key
      /\ \A l \in Key : store[l] \in Entry(l)
      /\ Dash \in Key /\ Part \subseteq Key /\ Dash \notin Part
      /\ mounted \subseteq Key
  BY LiveAssumption DEF LiveInv, LiveTypeOK, Key
<1>b. \A r \in requests : r.key \in Key
  BY DEF LiveInv, RequestsOK
\* An entry a step leaves alone, or whose only change schedules its effect.
<1>1. CASE k \in mounted /\ k \in Key /\ store'[k] = store[k] /\ (k \in due => k \in due')
  BY <1>1 DEF StaleIsPursued
<1>2. ASSUME NEW l \in Key, Mount(l) \/ Unmount(l) PROVE store'[k].busy
  BY <1>1, <1>2, <1>a DEF Mount, Unmount
<1>3. ASSUME NEW l \in Key, RunEffect(l) PROVE store'[k].busy
  <2>1. k \in mounted /\ k \in Key /\ due' = due \ {l}
    BY <1>3, <1>a DEF RunEffect
  <2>2. CASE UNCHANGED store
    <3>1. CASE l # k
      BY <1>1, <2>1, <2>2, <3>1
    <3>2. CASE l = k
      <4>1. MayBeFresh(k) \/ ~MayFetch(k) \/ store'[k] = [store[k] EXCEPT !.busy = TRUE]
        BY <1>3, <1>a, <3>2 DEF RunEffect
      <4> QED
        BY <1>a, <2>1, <2>2, <3>2, <4>1, EntryAsked DEF MayBeFresh, MayFetch
    <3> QED
      BY <3>1, <3>2
  <2>3. CASE store' = [store EXCEPT ![l].busy = TRUE]
    <3>1. CASE l # k
      BY <1>1, <1>a, <2>1, <2>3, <3>1
    <3>2. CASE l = k
      <4>1. store'[k] = [store[k] EXCEPT !.busy = TRUE]
        BY <1>a, <2>1, <2>3, <3>2
      <4> QED
        BY <1>a, <2>1, <4>1, EntryAsked
    <3> QED
      BY <3>1, <3>2
  <2> QED
    BY <1>3, <2>2, <2>3 DEF RunEffect
<1>4. ASSUME NEW r \in requests, ServerReads(r) PROVE store'[k].busy
  BY <1>1, <1>4, <1>a DEF ServerReads
<1>5. ASSUME NEW ks \in SUBSET Key, Notify(ks), mounted' = mounted,
             \A l \in Key \ ks : store'[l] = store[l]
      PROVE  store'[k].busy
  <2>1. k \notin ks
    BY <1>5 DEF Notify
  <2> QED
    BY <1>1, <1>5, <1>a, <2>1 DEF Notify
<1>6. ASSUME NEW r \in requests, Answered(r) \/ Failed(r) PROVE store'[k].busy
  <2>1. {r.key} \in SUBSET Key
    BY <1>b
  <2> QED
    BY <1>5, <1>6, <1>a, <2>1 DEF Answered, Failed
<1>7. ASSUME NEW l \in Key, Tick(l) PROVE store'[k].busy
  BY <1>5, <1>7, <1>a DEF Tick, Invalidated
<1>8. CASE Update
  BY <1>5, <1>8, <1>a DEF Update, Invalidated
<1>9. CASE Seed
  BY <1>5, <1>9, <1>a DEF Seed
<1>10. CASE Receive
  <2>1. link # <<>> /\ link \in Seq(Message)
    BY <1>10, <1>a DEF Receive, LiveTypeOK, Message
  <2>2. Head(link).part \in Part
    <3>1. Head(link) \in Message
      BY <2>1
    <3> QED
      BY <3>1 DEF Message
  <2>3. CASE kind[Head(link).part] = "pushed"
    BY <1>5, <1>10, <1>a, <2>2, <2>3 DEF Receive
  <2>4. CASE kind[Head(link).part] # "pushed"
    BY <1>5, <1>10, <1>a, <2>2, <2>4 DEF Receive, Invalidated
  <2> QED
    BY <2>3, <2>4
<1>11. ASSUME NEW p \in Part, Write(p) PROVE store'[k].busy
  BY <1>1, <1>11, <1>a DEF Write
<1>12. CASE LinkDrops \/ Connect
  BY <1>1, <1>12, <1>a DEF LinkDrops, Connect
<1>13. CASE UNCHANGED liveVars
  BY <1>1, <1>13, <1>a DEF liveVars
<1> QED
  BY <1>2, <1>3, <1>4, <1>6, <1>7, <1>8, <1>9, <1>10, <1>11, <1>12, <1>13
     DEF LiveNext

-----------------------------------------------------------------------------
\* Two requests of a key are one, so there is at most one.
LEMMA OneFetch == LiveInv => OneFetchPerKey
<1> SUFFICES ASSUME LiveInv, NEW k \in Key
             PROVE  /\ Cardinality({r \in requests : r.key = k}) <= 1
                    /\ store[k].busy <=> \E r \in requests : r.key = k
  BY DEF OneFetchPerKey
<1>1. store[k].busy <=> \E r \in requests : r.key = k
  BY DEF LiveInv, BusyIsOut
<1> DEFINE out == {r \in requests : r.key = k}
<1>2. CASE out = {}
  BY <1>1, <1>2, FS_EmptySet
<1>3. CASE out # {}
  <2>1. PICK r : r \in out
    BY <1>3
  <2>2. out = {r}
    BY <2>1 DEF LiveInv, OneOut
  <2>3. Cardinality(out) = 1
    BY <2>2, FS_Singleton
  <2> QED
    BY <1>1, <2>3
<1> QED
  BY <1>2, <1>3

\* The cache, its requests and its messages have the shapes useQuery (query.ts)
\* relies on, whatever is mounted, pushed, invalidated or lost.
THEOREM CacheTyped == LiveSpec => []LiveTypeOK
<1>1. LiveInv => LiveTypeOK
  BY DEF LiveInv
<1> QED
  BY <1>1, LiveInitInv, LiveStepInv, PTL DEF LiveSpec

\* No key is fetched twice at a time (query.ts:115-134), for any number of
\* resources, remounts, notices and failures.
THEOREM FetchedOnceAtATime == LiveSpec => []OneFetchPerKey
  BY LiveInitInv, LiveStepInv, OneFetch, PTL DEF LiveSpec

\* No stale entry on the screen is forgotten (query.ts:22-24, 115-134).
THEOREM StalePursued == LiveSpec => []StaleIsPursued
  BY LiveInitInv, LiveStepInv, StaleStep, PTL DEF LiveSpec

-----------------------------------------------------------------------------
(***************************************************************************)
(* Signing in.  That the screen is the session's speaks of the moments     *)
(* when no form is in progress; between the two requests of a form the     *)
(* cookie is already the new account's and the user still the old one's,   *)
(* so the strengthening says what holds in each stage of a form (Screen,   *)
(* SecondAsk).  That the first-run setup is shown to nobody who has signed *)
(* in rests on there being a family whenever there is a session, a user or *)
(* the second request of a form (FamilyFirst).                             *)
(***************************************************************************)
AsksMe == flow # Idle /\ flow.at = "me"

FamilyFirst == session # {} \/ user # Nobody \/ AsksMe => family

\* The second request of a form is sent under the cookie of its account.
SecondAsk == AsksMe => cookie = flow.as

Screen == user # Nobody /\ ~overtaken /\ ~AsksMe => user = cookie

SignInInv == SignInTypeOK /\ FamilyFirst /\ SecondAsk /\ Screen /\ SetupOrUser

\* What a form becomes is a form, and not Idle.
LEMMA FlowIsBusy ==
  ASSUME NEW kindOf \in Forms \cup {"oauth", "logout"}, NEW stage \in {"post", "me", "status"},
         NEW m \in Member, NEW f, f = [form |-> kindOf, at |-> stage, as |-> m]
  PROVE  f # Idle /\ f \in Flow /\ f.form = kindOf /\ f.at = stage /\ f.as = m
<1>1. f \in Flow /\ f.form = kindOf /\ f.at = stage /\ f.as = m
  BY DEF Flow
<1> QED
  BY <1>1, SignInAssumption

LEMMA SignInInitInv == SignInInit => SignInInv
<1> SUFFICES ASSUME SignInInit PROVE SignInInv
  OBVIOUS
<1>1. SignInTypeOK
  <2>1. session \subseteq Member /\ cookie \in Account /\ user \in Account
    BY DEF SignInInit, Account
  <2>2. sentAs \in Account /\ calls \subseteq Account /\ signIns \in 0 .. MaxSignIns
    BY SignInAssumption DEF SignInInit, Account
  <2>3. family \in BOOLEAN /\ loading = TRUE /\ needsSetup = FALSE /\ overtaken = FALSE
    BY DEF SignInInit
  <2>4. route \in Route /\ startup = "none" /\ flow = Idle
    BY DEF SignInInit, Route
  <2> QED
    BY <2>1, <2>2, <2>3, <2>4 DEF SignInTypeOK
<1>2. FamilyFirst /\ SecondAsk /\ Screen /\ SetupOrUser
  BY DEF SignInInit, FamilyFirst, SecondAsk, Screen, SetupOrUser, AsksMe
<1> QED
  BY <1>1, <1>2 DEF SignInInv

\* One step per action.
LEMMA SignInStepInv == SignInInv /\ [SignInNext]_signInVars => SignInInv'
<1> SUFFICES ASSUME SignInInv, [SignInNext]_signInVars PROVE SignInInv'
  OBVIOUS
<1> USE SignInAssumption
    DEF SignInInv, SignInTypeOK, FamilyFirst, SecondAsk, Screen, SetupOrUser, AsksMe,
        Flow, Account, AssignUser
<1>1. CASE Start
  BY <1>1 DEF Start
<1>2. CASE StartupKnown
  BY <1>2 DEF StartupKnown
<1>3. CASE StartupUnknown
  BY <1>3 DEF StartupUnknown
<1>4. CASE StartupStatus
  BY <1>4 DEF StartupStatus
<1>5. CASE PostAccepted
  <2>1. flow \in Flow /\ flow.as \in Member /\ flow' = [flow EXCEPT !.at = "me"]
    BY <1>5 DEF PostAccepted
  <2>2. flow' \in Flow /\ flow'.as = flow.as /\ flow'.at = "me" /\ flow' # Idle
    <3>1. flow' = [form |-> flow.form, at |-> "me", as |-> flow.as]
      BY <2>1
    <3>2. flow.form \in Forms \cup {"oauth", "logout"} /\ flow.as \in Member
      BY <2>1
    <3> HIDE DEF Flow
    <3> QED
      BY <3>1, <3>2, FlowIsBusy
  <2>3. /\ session' = session \cup {flow.as} /\ cookie' = flow.as /\ family' = TRUE
        /\ UNCHANGED <<user, loading, needsSetup, route, startup, sentAs, calls, signIns,
                       overtaken>>
    BY <1>5 DEF PostAccepted
  <2>4. SignInTypeOK'
    BY <2>1, <2>2, <2>3
  <2>5. FamilyFirst' /\ SecondAsk'
    BY <2>2, <2>3
  <2>6. Screen' /\ SetupOrUser'
    BY <2>2, <2>3
  <2> QED
    BY <2>2, <2>4, <2>5, <2>6
<1>6. CASE PostFails
  <2>1. /\ flow \in Flow /\ flow.as \in Member /\ flow' = Idle /\ ~AsksMe /\ ~AsksMe'
        /\ UNCHANGED <<cookie, user, loading, needsSetup, route, startup, sentAs, calls,
                       signIns, overtaken>>
        /\ session' \in {session, session \cup {flow.as}}
        /\ family' \in BOOLEAN /\ (family \/ session' # session => family')
    <3>1. flow \in Flow /\ flow.as \in Member /\ flow' = Idle /\ flow.at = "post"
      BY <1>6 DEF PostFails
    <3>2. /\ UNCHANGED <<cookie, user, loading, needsSetup, route, startup, sentAs, calls,
                         signIns, overtaken>>
          /\ \/ UNCHANGED <<session, family>>
             \/ session' = session \cup {flow.as} /\ family' = TRUE
      BY <1>6 DEF PostFails
    <3> QED
      BY <3>1, <3>2
  <2>2. session' \subseteq Member /\ family' \in BOOLEAN
    BY <2>1
  <2>3. SignInTypeOK'
    BY <2>1, <2>2
  <2>4. FamilyFirst' /\ SecondAsk'
    BY <2>1
  <2>5. Screen' /\ SetupOrUser'
    BY <2>1
  <2> QED
    BY <2>1, <2>3, <2>4, <2>5
<1>7. CASE MeAnswered
  BY <1>7 DEF MeAnswered, Route
<1>8. CASE MeFails
  BY <1>8 DEF MeFails, Route
<1>9. CASE LogoutAnswered
  BY <1>9 DEF LogoutAnswered
<1>10. CASE LogoutFails
  BY <1>10 DEF LogoutFails
<1>11. CASE LogoutStatus
  BY <1>11 DEF LogoutStatus
<1>12. CASE Redirect
  <2>1. route' \in Route
    BY <1>12 DEF Redirect, Route
  <2> QED
    BY <1>12, <2>1 DEF Redirect
<1>13. CASE Logout
  BY <1>13 DEF Logout
<1>14. ASSUME NEW m \in Member, NEW of \in Forms, Submit(of, m)
       PROVE  SignInInv'
  BY <1>14 DEF Submit
<1>15. ASSUME NEW m \in Member, SubmitLogin(m) \/ SubmitSetup(m) \/ SubmitJoin(m) \/ SubmitLink(m)
       PROVE  SignInInv'
  BY <1>14, <1>15 DEF SubmitLogin, SubmitSetup, SubmitJoin, SubmitLink, Forms
<1>16. ASSUME NEW m \in Member, OAuthReturns(m)
       PROVE  SignInInv'
  <2>1. /\ session' = session \cup {m} /\ cookie' = m /\ family /\ UNCHANGED <<family, overtaken>>
        /\ user' = Nobody /\ loading' = TRUE /\ needsSetup' = FALSE /\ route' \in Route
        /\ startup' = "me" /\ sentAs' = m /\ calls' = {}
        /\ signIns' = signIns + 1 /\ signIns < MaxSignIns
        /\ flow' = [form |-> "oauth", at |-> "me", as |-> m]
    BY <1>16 DEF OAuthReturns, Route
  <2>2. session' \subseteq Member /\ signIns' \in 0 .. MaxSignIns
    BY <2>1
  <2>3. flow' \in Flow /\ flow'.as = m /\ flow'.form = "oauth" /\ flow'.at = "me" /\ flow' # Idle
    <3> HIDE DEF Flow
    <3> QED
      BY <2>1, FlowIsBusy
  <2>5. SignInTypeOK'
    BY <2>1, <2>2, <2>3
  <2>4. FamilyFirst' /\ SecondAsk' /\ Screen' /\ SetupOrUser'
    BY <2>1, <2>3
  <2> QED
    BY <2>3, <2>4, <2>5
<1>17. ASSUME NEW m \in Member, Expire(m)
       PROVE  SignInInv'
  BY <1>17 DEF Expire
<1>18. CASE Call
  BY <1>18 DEF Call
<1>19. ASSUME NEW c \in calls, CallAnswered(c)
       PROVE  SignInInv'
  BY <1>19 DEF CallAnswered
<1>20. ASSUME NEW c \in calls, CallLost(c)
       PROVE  SignInInv'
  BY <1>20 DEF CallLost
<1>21. CASE SetUpElsewhere
  BY <1>21 DEF SetUpElsewhere
<1>22. ASSUME NEW r \in Route, Open(r)
       PROVE  SignInInv'
  BY <1>22 DEF Open
<1>23. CASE UNCHANGED signInVars
  BY <1>23 DEF signInVars
<1> HIDE DEF SignInInv
<1> QED
  BY <1>1, <1>2, <1>3, <1>4, <1>5, <1>6, <1>7, <1>8, <1>9, <1>10, <1>11, <1>12, <1>13,
     <1>15, <1>16, <1>17, <1>18, <1>19, <1>20, <1>21, <1>22, <1>23
     DEF SignInNext, Answers

LEMMA SignInSafe == SignInInv => SignInTypeOK /\ ScreenIsSession /\ SetupOrUser
  BY DEF SignInInv, Screen, AsksMe, ScreenIsSession

\* Whatever answers are lost and whoever else acts, the variables of AuthContext
\* keep their types; the application is loading until its first effect is done.
THEOREM SignInTyped == SignInSpec => []SignInTypeOK
  BY SignInInitInv, SignInStepInv, SignInSafe, PTL DEF SignInSpec

\* The user of AuthContext is the account of the cookie whenever no form is in
\* progress, short of the races `overtaken' names.
THEOREM ScreenFollowsSession == SignInSpec => []ScreenIsSession
  BY SignInInitInv, SignInStepInv, SignInSafe, PTL DEF SignInSpec

\* A user and the first-run setup exclude one another (AuthContext.tsx:33-36).
THEOREM SetupBeforeUsers == SignInSpec => []SetupOrUser
  BY SignInInitInv, SignInStepInv, SignInSafe, PTL DEF SignInSpec

-----------------------------------------------------------------------------
(***************************************************************************)
(* The socket.  A socket that is not closed is the one wsRef holds, with   *)
(* its handler; it and a running timer exclude one another, and sign-out   *)
(* knows the timer it has to clear.                                        *)
(***************************************************************************)
TimerKnown == timers \in {0, 1} /\ (timerKnown <=> timers = 1) /\ (timers = 1 => watching)

Held ==
    \A s \in Socket : sockets[s].phase # "closed" =>
        s = wsRef /\ sockets[s].onclose /\ timers = 0 /\ enabled

SocketInv == SocketTypeOK /\ (enabled <=> watching) /\ TimerKnown /\ Held

LEMMA SocketInitInv == SocketInit => SocketInv
<1> SUFFICES ASSUME SocketInit PROVE SocketInv
  OBVIOUS
<1>1. SocketTypeOK
  <2>1. sockets \in [Socket -> [phase : {"connecting", "open", "closing", "closed"},
                                onclose : BOOLEAN]]
    BY DEF SocketInit, Garbage
  <2>2. /\ wsRef = NoSocket /\ timers = 0 /\ timerKnown = FALSE /\ enabled = FALSE
        /\ watching = FALSE /\ toggles \in 0 .. MaxToggles
    BY SocketAssumption DEF SocketInit
  <2> QED
    BY <2>1, <2>2 DEF SocketTypeOK
<1>2. Held /\ TimerKnown /\ (enabled <=> watching)
  BY DEF SocketInit, Held, TimerKnown, Garbage
<1> QED
  BY <1>1, <1>2 DEF SocketInv

\* A new socket is opened when there is neither a socket nor a timer.
LEMMA OpenKeeps ==
  ASSUME SocketInv, OpenSocket(sockets), \A s \in Socket : sockets[s].phase = "closed",
         timers' = 0, timerKnown' = FALSE, enabled' = TRUE, watching' = TRUE,
         toggles' \in 0 .. MaxToggles
  PROVE  SocketInv'
<1>1. PICK s \in Socket :
        /\ sockets' = [sockets EXCEPT ![s] = [phase |-> "connecting", onclose |-> TRUE]]
        /\ wsRef' = s
  BY DEF OpenSocket
<1>2. SocketTypeOK'
  BY <1>1 DEF SocketInv, SocketTypeOK
<1>3. Held'
  BY <1>1 DEF SocketInv, SocketTypeOK, Held
<1>4. TimerKnown' /\ (enabled' <=> watching')
  BY DEF TimerKnown
<1> QED
  BY <1>2, <1>3, <1>4 DEF SocketInv

LEMMA SocketStepInv == SocketInv /\ [SocketNext]_socketVars => SocketInv'
<1> SUFFICES ASSUME SocketInv, [SocketNext]_socketVars PROVE SocketInv'
  OBVIOUS
<1>1. CASE Effect
  <2>1. \A s \in Socket : sockets[s].phase = "closed"
    BY <1>1 DEF Effect, SocketInv, Held
  <2>2. timers' = 0 /\ timerKnown' = FALSE
    BY <1>1 DEF Effect, SocketInv, TimerKnown
  <2> QED
    <3>1. toggles' \in 0 .. MaxToggles
      BY <1>1, SocketAssumption DEF Effect, SocketInv, SocketTypeOK
    <3> QED
      BY <1>1, <2>1, <2>2, <3>1, OpenKeeps DEF Effect
<1>2. CASE Cleanup
  <2>1. timers' = 0 /\ timerKnown' = FALSE /\ enabled' = FALSE /\ watching' = FALSE
    <3>1. enabled' = FALSE /\ watching' = FALSE /\ timerKnown' = FALSE
      BY <1>2 DEF Cleanup
    <3>2. timers' = 0
      BY <1>2 DEF Cleanup, SocketInv, TimerKnown
    <3> QED
      BY <3>1, <3>2
  <2>2. /\ \A s \in Socket : sockets'[s].phase = "closed"
        /\ sockets' \in [Socket -> [phase : {"connecting", "open", "closing", "closed"},
                                    onclose : BOOLEAN]]
    BY <1>2, SocketAssumption DEF Cleanup, SocketInv, SocketTypeOK, Held, Garbage
  <2> QED
    <3>1. SocketTypeOK'
      <4>1. wsRef' = NoSocket /\ toggles' \in 0 .. MaxToggles
        BY <1>2 DEF Cleanup, SocketInv, SocketTypeOK
      <4> QED
        BY <2>1, <2>2, <4>1 DEF SocketTypeOK
    <3>2. Held' /\ TimerKnown' /\ (enabled' <=> watching')
      BY <2>1, <2>2 DEF Held, TimerKnown
    <3> QED
      BY <3>1, <3>2 DEF SocketInv
<1>3. CASE Reconnect
  <2>1. timers = 1 /\ watching /\ enabled /\ \A s \in Socket : sockets[s].phase = "closed"
    BY <1>3 DEF Reconnect, SocketInv, TimerKnown, Held
  <2>2. OpenSocket(sockets) /\ timers' = 0 /\ timerKnown' = FALSE
    BY <1>3, <2>1 DEF Reconnect
  <2>3. enabled' = TRUE /\ watching' = TRUE /\ toggles' \in 0 .. MaxToggles
    BY <1>3, <2>1 DEF Reconnect, SocketInv, SocketTypeOK
  <2> QED
    BY <2>1, <2>2, <2>3, OpenKeeps
<1>4. ASSUME NEW s \in Socket, Handshake(s) PROVE SocketInv'
  <2>1. sockets[s] \in [phase : {"connecting", "open", "closing", "closed"}, onclose : BOOLEAN]
    BY DEF SocketInv, SocketTypeOK
  <2>2. PICK t : t = [sockets[s] EXCEPT !.phase = "open"]
    OBVIOUS
  <2>3. /\ t \in [phase : {"connecting", "open", "closing", "closed"}, onclose : BOOLEAN]
        /\ t.onclose = sockets[s].onclose
    BY <2>1, <2>2
  <2>4. sockets' = [sockets EXCEPT ![s] = t] /\ sockets[s].phase # "closed"
    BY <1>4, <2>2 DEF Handshake
  <2>5. SocketTypeOK'
    BY <1>4, <2>3, <2>4 DEF Handshake, SocketInv, SocketTypeOK
  <2>6. Held'
    BY <1>4, <2>3, <2>4 DEF Handshake, SocketInv, SocketTypeOK, Held
  <2> QED
    BY <1>4, <2>5, <2>6 DEF Handshake, SocketInv, TimerKnown
<1>5. ASSUME NEW s \in Socket, SocketClosed(s) PROVE SocketInv'
  <2>1. s = wsRef /\ sockets[s].onclose /\ timers = 0 /\ watching
    BY <1>5 DEF SocketClosed, SocketInv, Held
  <2>2. timers' = 1 /\ timerKnown' = TRUE /\ sockets' = [sockets EXCEPT ![s] = Garbage]
    BY <1>5, <2>1 DEF SocketClosed
  <2>3. /\ \A t \in Socket : sockets'[t].phase = "closed"
        /\ sockets' \in [Socket -> [phase : {"connecting", "open", "closing", "closed"},
                                    onclose : BOOLEAN]]
    BY <2>1, <2>2 DEF SocketInv, SocketTypeOK, Held, Garbage
  <2> QED
    BY <1>5, <2>1, <2>2, <2>3 DEF SocketClosed, SocketInv, SocketTypeOK, TimerKnown, Held
<1>6. CASE UNCHANGED socketVars
  BY <1>6 DEF socketVars, SocketInv, SocketTypeOK, TimerKnown, Held
<1> QED
  BY <1>1, <1>2, <1>3, <1>4, <1>5, <1>6 DEF SocketNext

LEMMA SocketSafe == SocketInv => OneSocket
<1> SUFFICES ASSUME SocketInv PROVE OneSocket
  OBVIOUS
<1> DEFINE up == {s \in Socket : sockets[s].phase \in {"connecting", "open"}}
<1>1. CASE up = {}
  <2>1. Cardinality(up) = 0
    BY <1>1, FS_EmptySet
  <2>2. 0 + timers <= (IF enabled THEN 1 ELSE 0)
    BY DEF SocketInv, TimerKnown
  <2> QED
    BY <2>1, <2>2 DEF OneSocket
<1>2. CASE up # {}
  <2>1. up = {wsRef} /\ timers = 0 /\ enabled
    BY <1>2 DEF SocketInv, Held
  <2>2. Cardinality(up) = 1
    BY <2>1, FS_Singleton
  <2> QED
    BY <2>1, <2>2 DEF OneSocket
<1> QED
  BY <1>1, <1>2

-----------------------------------------------------------------------------
(***************************************************************************)
(* The pairing screens.  An effect starts after the one before it has been *)
(* cancelled, and a cancelled one sleeps no more.                          *)
(***************************************************************************)
OneLive == \A c, d \in chains : c.live /\ d.live => c = d

SleepIsLive == \A c \in chains : c.at = "sleep" => c.live

KioskInv == KioskScreensTypeOK /\ OneLive /\ SleepIsLive

LEMMA KioskInitInv == KioskScreensInit => KioskInv
  BY KioskScreensAssumption
     DEF KioskScreensInit, KioskInv, KioskScreensTypeOK, OneLive, SleepIsLive, AnyCode

LEMMA RunIsChain ==
  ASSUME NEW g \in AnyCode \cup {NoUser}, NEW at0 \in Place, NEW alive \in BOOLEAN
  PROVE  Run(g, at0, alive) \in Chain
  BY DEF Run, Chain

LEMMA CancelledOK ==
  ASSUME NEW cs \in SUBSET Chain
  PROVE  /\ Cancelled(cs) \subseteq Chain
         /\ \A c \in Cancelled(cs) : c.live = FALSE /\ c.at # "sleep"
<1> SUFFICES ASSUME NEW c \in Cancelled(cs)
             PROVE  c \in Chain /\ c.live = FALSE /\ c.at # "sleep"
  OBVIOUS
<1>1. PICK d \in cs : d.at # "sleep" /\ c = Run(d.code, d.at, FALSE)
  BY DEF Cancelled
<1>2. d.code \in AnyCode \cup {NoUser} /\ d.at \in Place
  BY DEF Chain
<1>3. c \in Chain
  BY <1>1, <1>2, RunIsChain
<1>4. c.live = FALSE /\ c.at = d.at
  BY <1>1 DEF Run
<1> QED
  BY <1>1, <1>3, <1>4

\* Adding the only live run to cancelled ones.
LEMMA FreshRun ==
  ASSUME KioskInv, NEW cs \in SUBSET Chain, NEW g \in AnyCode \cup {NoUser},
         NEW at0 \in Place \ {"sleep"}, chains' = Cancelled(cs) \cup {Run(g, at0, TRUE)}
  PROVE  chains' \subseteq Chain /\ OneLive' /\ SleepIsLive'
<1>1. PICK r : r = Run(g, at0, TRUE)
  OBVIOUS
<1>2. r \in Chain /\ r.at = at0 /\ r.live = TRUE
  BY <1>1, RunIsChain DEF Run
<1>3. chains' = Cancelled(cs) \cup {r}
  BY <1>1
<1>4. chains' \subseteq Chain
  BY <1>2, <1>3, CancelledOK
<1>5. OneLive'
  BY <1>3, CancelledOK DEF OneLive
<1>6. SleepIsLive'
  BY <1>2, <1>3, CancelledOK DEF SleepIsLive
<1> QED
  BY <1>4, <1>5, <1>6

\* Nothing but cancelled runs.
LEMMA OnlyCancelled ==
  ASSUME NEW cs \in SUBSET Chain, chains' = Cancelled(cs)
  PROVE  chains' \subseteq Chain /\ OneLive' /\ SleepIsLive'
  BY CancelledOK DEF OneLive, SleepIsLive

\* One run moves on, or ends.
LEMMA RunMoves ==
  ASSUME KioskInv, NEW c \in chains, NEW g \in AnyCode \cup {NoUser}, NEW at0 \in Place,
         at0 = "sleep" => c.live,
         \/ chains' = (chains \ {c}) \cup {Run(g, at0, c.live)}
         \/ chains' = chains \ {c}
  PROVE  chains' \subseteq Chain /\ OneLive' /\ SleepIsLive'
<1>1. chains \subseteq Chain /\ OneLive /\ SleepIsLive
  BY DEF KioskInv, KioskScreensTypeOK
<1>2. PICK r : r = Run(g, at0, c.live)
  OBVIOUS
<1>3. r \in Chain /\ r.at = at0 /\ r.live = c.live
  <2>1. c.live \in BOOLEAN
    BY <1>1 DEF Chain
  <2> QED
    BY <1>2, <2>1, RunIsChain DEF Run
<1>4. chains' \subseteq (chains \ {c}) \cup {r}
  BY <1>2
<1>5. OneLive'
  BY <1>1, <1>3, <1>4 DEF OneLive
<1>6. SleepIsLive'
  BY <1>1, <1>3, <1>4 DEF SleepIsLive
<1> QED
  BY <1>1, <1>3, <1>4, <1>5, <1>6

LEMMA KioskStepInv == KioskInv /\ [KioskScreensNext]_kioskScreenVars => KioskInv'
<1> SUFFICES ASSUME KioskInv, [KioskScreensNext]_kioskScreenVars PROVE KioskInv'
  OBVIOUS
<1>a. KioskScreensTypeOK /\ OneLive /\ SleepIsLive /\ chains \in SUBSET Chain
  BY DEF KioskInv, KioskScreensTypeOK
<1>b. \A c \in chains : c.code \in AnyCode \cup {NoUser} /\ c.at \in Place /\ c.live \in BOOLEAN
  BY <1>a DEF Chain
<1>c. UNCHANGED chains => chains' \subseteq Chain /\ OneLive' /\ SleepIsLive'
  BY <1>a DEF OneLive, SleepIsLive
<1>1. CASE OpenSetup
  <2>1. chains' \subseteq Chain /\ OneLive' /\ SleepIsLive'
    BY <1>1, <1>a, FreshRun DEF OpenSetup, Place
  <2> QED
    BY <1>1, <1>a, <2>1 DEF OpenSetup, KioskInv, KioskScreensTypeOK
<1>2. CASE LeavePage
  <2>1. chains' \subseteq Chain /\ OneLive' /\ SleepIsLive'
    BY <1>2, <1>a, OnlyCancelled DEF LeavePage
  <2> QED
    BY <1>2, <1>a, <2>1 DEF LeavePage, KioskInv, KioskScreensTypeOK
<1>3. ASSUME NEW c \in chains, CodeGiven(c) PROVE KioskInv'
  <2>1. PICK g \in Code :
          /\ pairing' = [pairing EXCEPT ![g] = "pending"]
          /\ chains' = (chains \ {c}) \cup (IF c.live THEN {Run(g, "poll", TRUE)} ELSE {})
    BY <1>3 DEF CodeGiven
  <2>2. \/ chains' = (chains \ {c}) \cup {Run(g, "poll", c.live)}
        \/ chains' = chains \ {c}
    BY <1>b, <2>1
  <2>3. chains' \subseteq Chain /\ OneLive' /\ SleepIsLive'
    BY <2>2, RunMoves DEF Place, AnyCode
  <2> QED
    BY <1>3, <1>a, <2>1, <2>3 DEF CodeGiven, KioskInv, KioskScreensTypeOK
\* What becomes of a run in the other steps that answer or wake it.
<1>4. ASSUME NEW c \in chains, NEW at0 \in Place, at0 = "sleep" => c.live,
             GoTo(c, at0) \/ Drop(c)
      PROVE  chains' \subseteq Chain /\ OneLive' /\ SleepIsLive'
  BY <1>4, <1>b, RunMoves DEF GoTo, Drop
<1>5. ASSUME NEW c \in chains, GivesUp(c)
      PROVE  /\ chains' \subseteq Chain /\ OneLive' /\ SleepIsLive'
             /\ failed' \in BOOLEAN
  <2>1. chains' \subseteq Chain /\ OneLive' /\ SleepIsLive'
    BY <1>4, <1>5 DEF GivesUp, Place
  <2> QED
    BY <1>5, <1>a, <1>b, <2>1 DEF GivesUp, KioskScreensTypeOK
<1>6. ASSUME NEW c \in chains, StartFails(c) PROVE KioskInv'
  <2>1. chains' \subseteq Chain /\ OneLive' /\ SleepIsLive'
    BY <1>4, <1>6 DEF StartFails, Place
  <2> QED
    BY <1>6, <1>a, <1>b, <2>1 DEF StartFails, KioskInv, KioskScreensTypeOK
<1>7. ASSUME NEW c \in chains, PollAnswered(c) PROVE KioskInv'
  <2>1. chains' \subseteq Chain /\ OneLive' /\ SleepIsLive'
    BY <1>4, <1>7 DEF PollAnswered, Place
  <2>2. failed' \in BOOLEAN
    BY <1>7, <1>a, <1>b DEF PollAnswered, KioskScreensTypeOK
  <2> QED
    BY <1>7, <1>a, <2>1, <2>2 DEF PollAnswered, KioskInv, KioskScreensTypeOK
<1>8. ASSUME NEW c \in chains, Wake(c) PROVE KioskInv'
  <2>1. chains' \subseteq Chain /\ OneLive' /\ SleepIsLive'
    BY <1>4, <1>8 DEF Wake, Place
  <2> QED
    BY <1>8, <1>a, <2>1 DEF Wake, KioskInv, KioskScreensTypeOK
<1>9. ASSUME NEW c \in chains, Claimed(c) PROVE KioskInv'
  <2>1. chains' \subseteq Chain /\ OneLive' /\ SleepIsLive'
    BY <1>4, <1>9 DEF Claimed, Place
  <2> QED
    BY <1>9, <1>a, <2>1 DEF Claimed, KioskInv, KioskScreensTypeOK
<1>10. ASSUME NEW c \in chains, ClaimFails(c) PROVE KioskInv'
  <2>1. chains' \subseteq Chain /\ OneLive' /\ SleepIsLive' /\ failed' \in BOOLEAN
    BY <1>5, <1>10 DEF ClaimFails
  <2>2. /\ pairing' \in [AnyCode -> {"none", "pending", "approved", "claimed"}]
        /\ spoiled' \subseteq Code
    BY <1>10, <1>a DEF ClaimFails, KioskScreensTypeOK
  <2> QED
    BY <1>10, <1>a, <2>1, <2>2 DEF ClaimFails, KioskInv, KioskScreensTypeOK
<1>11. ASSUME NEW c \in chains, TabletSignsIn(c) PROVE KioskInv'
  <2>1. chains' = Cancelled(chains \ {c}) /\ chains \ {c} \in SUBSET Chain
    BY <1>11, <1>a DEF TabletSignsIn
  <2>2. chains' \subseteq Chain /\ OneLive' /\ SleepIsLive'
    BY <2>1, OnlyCancelled
  <2> QED
    BY <1>11, <1>a, <1>b, <2>2 DEF TabletSignsIn, KioskInv, KioskScreensTypeOK
<1>12. ASSUME NEW c \in chains, TabletUnknown(c) PROVE KioskInv'
  <2>1. chains' \subseteq Chain /\ OneLive' /\ SleepIsLive' /\ failed' \in BOOLEAN
    BY <1>5, <1>12 DEF TabletUnknown
  <2> QED
    BY <1>12, <1>a, <2>1 DEF TabletUnknown, KioskInv, KioskScreensTypeOK
<1>13. ASSUME NEW g \in LinkCode, OpenLink(g) PROVE KioskInv'
  <2>1. chains' \subseteq Chain /\ OneLive' /\ SleepIsLive'
    <3>1. CASE NeedsConfirm(tabletUser)
      BY <1>13, <1>a, <3>1, OnlyCancelled DEF OpenLink
    <3>2. CASE ~NeedsConfirm(tabletUser)
      BY <1>13, <1>a, <3>2, FreshRun DEF OpenLink, Place, AnyCode
    <3> QED
      BY <3>1, <3>2
  <2> QED
    BY <1>13, <1>a, <2>1 DEF OpenLink, KioskInv, KioskScreensTypeOK, AnyCode
<1>14. CASE Confirm
  <2>1. linkCode \in AnyCode \cup {NoUser}
    BY <1>a DEF KioskScreensTypeOK
  <2>2. chains' \subseteq Chain /\ OneLive' /\ SleepIsLive'
    BY <1>14, <1>a, <2>1, FreshRun DEF Confirm, Place
  <2> QED
    BY <1>14, <1>a, <2>2 DEF Confirm, KioskInv, KioskScreensTypeOK
<1>15. CASE SignedOut
  <2>1. linkCode \in AnyCode \cup {NoUser}
    BY <1>a DEF KioskScreensTypeOK
  <2>2. chains' \subseteq Chain /\ OneLive' /\ SleepIsLive'
    <3>1. CASE tabletPage = "pair" /\ NeedsConfirm(tabletUser)
      <4>1. chains' = Cancelled(chains) \cup {Run(linkCode, "claim", TRUE)}
        BY <1>15, <3>1 DEF SignedOut
      <4> QED
        BY <1>a, <2>1, <4>1, FreshRun DEF Place
    <3>2. CASE ~(tabletPage = "pair" /\ NeedsConfirm(tabletUser))
      BY <1>15, <1>c, <3>2 DEF SignedOut
    <3> QED
      BY <3>1, <3>2
  <2> QED
    BY <1>15, <1>a, <2>2 DEF SignedOut, KioskInv, KioskScreensTypeOK
<1>16. ASSUME NEW g \in Code, OpenApproval(g) \/ Outdate(g) PROVE KioskInv'
  BY <1>16, <1>a, <1>c DEF OpenApproval, Outdate, KioskInv, KioskScreensTypeOK
<1>17. CASE SendApproval \/ ApprovalAnswered \/ CloseApproval
  BY <1>17, <1>a, <1>c DEF SendApproval, ApprovalAnswered, CloseApproval, KioskInv,
                           KioskScreensTypeOK
<1>18. CASE UNCHANGED kioskScreenVars
  BY <1>18, <1>a, <1>c DEF kioskScreenVars, KioskInv, KioskScreensTypeOK
<1> QED
  BY <1>1, <1>2, <1>3, <1>6, <1>7, <1>8, <1>9, <1>10, <1>11, <1>12, <1>13, <1>14, <1>15,
     <1>16, <1>17, <1>18 DEF KioskScreensNext, ChainStep

LEMMA KioskSafe == KioskInv => OnePollLoop
<1> SUFFICES ASSUME KioskInv PROVE OnePollLoop
  OBVIOUS
<1> DEFINE live == {c \in chains : c.live}
<1>1. Cardinality(live) <= 1
  <2>1. CASE live = {}
    BY <2>1, FS_EmptySet
  <2>2. CASE live # {}
    <3>1. PICK c : c \in live
      BY <2>2
    <3>2. live = {c}
      BY <3>1 DEF KioskInv, OneLive
    <3>3. Cardinality(live) = 1
      BY <3>2, FS_Singleton
    <3> QED
      BY <3>3
  <2> QED
    BY <2>1, <2>2
<1> QED
  BY <1>1 DEF KioskInv, SleepIsLive, OnePollLoop

-----------------------------------------------------------------------------
(***************************************************************************)
(* The calendar page.  The calendar an open form names is one of its       *)
(* source, or the calendars of its source are still being read and the     *)
(* form cannot be sent (Owned); the server runs no more synchronisations   *)
(* than were asked for (Counted).                                          *)
(***************************************************************************)
FormOK ==
    form \in [opening : 0 .. MaxEdits, source : Source \cup {NoSource},
              owner : Source \cup {NoSource}, loading : BOOLEAN, saving : BOOLEAN]

DetailOK ==
    detail \in [opening : 0 .. MaxEdits, mode : DetailMode,
                saving : BOOLEAN, deleting : BOOLEAN]

InUse ==
    /\ form.source # NoSource => form.opening \in Opening
    /\ detail.mode # "closed" => detail.opening \in Opening

Counted == syncPosts \in Nat /\ syncJobs \in Nat /\ presses \in Nat
           /\ syncPosts + syncJobs <= presses /\ presses <= MaxPresses

Mail == calMail \in Seq({"plain", "error", "results"})

Owned ==
    \/ form.owner \in {form.source, NoSource} \/ listRaced
    \/ form.source \in CalDAV /\ form.loading

Filed == SavedWhereShown /\ Owned

Rest ==
    /\ tab \in {"button", "sources", "form", "detail"}
    /\ syncing \in BOOLEAN /\ syncStatus \in {"none", "results", "failed"}
    /\ hiders \in Nat /\ lists \subseteq Opening \X CalDAV
    /\ misfiled \in BOOLEAN /\ savesGoing \subseteq Opening /\ detailAsks \subseteq Ask

CalendarInv == FormOK /\ DetailOK /\ InUse /\ Counted /\ Mail /\ Filed /\ Rest

LEMMA CalendarInitInv == CalendarInit => CalendarInv
<1> SUFFICES ASSUME CalendarInit PROVE CalendarInv
  OBVIOUS
<1>1. FormOK /\ DetailOK
  BY CalendarAssumption DEF CalendarInit, FormOK, DetailOK, NoForm, NoDetail, DetailMode
<1>2. Counted /\ Mail
  BY CalendarAssumption DEF CalendarInit, Counted, Mail
<1>3. InUse /\ Filed
  BY DEF CalendarInit, InUse, Filed, SavedWhereShown, Owned, NoForm, NoDetail
<1>4. Rest
  BY DEF CalendarInit, Rest
<1> QED
  BY <1>1, <1>2, <1>3, <1>4 DEF CalendarInv

\* A step of one of the four uses leaves the invariants of the others alone.
LEMMA ButtonStep ==
  ASSUME CalendarInv,
         PressSync \/ SyncAnswered \/ SyncEnds \/ OthersAct \/ CalMailArrives
           \/ CalMailLost \/ HiderFires
  PROVE  CalendarInv'
<1>1. UNCHANGED <<tab, formVars, detailVars>>
  BY DEF PressSync, SyncAnswered, SyncStarts, SyncFails, SyncEnds, OthersAct,
         CalMailArrives, CalMailLost, HiderFires
<1>2. FormOK' /\ DetailOK' /\ InUse' /\ Filed'
  BY <1>1 DEF CalendarInv, FormOK, DetailOK, InUse, Filed, SavedWhereShown, Owned, formVars,
              detailVars
<1>3. Counted'
  BY CalendarAssumption
     DEF CalendarInv, Counted, PressSync, SyncAnswered, SyncStarts, SyncFails, SyncEnds,
         OthersAct, CalMailArrives, CalMailLost, HiderFires
<1>4. Mail'
  BY DEF CalendarInv, Mail, PressSync, SyncAnswered, SyncStarts, SyncFails, SyncEnds,
         OthersAct, CalMailArrives, CalMailLost, HiderFires
<1>5. hiders' \in Nat
  BY DEF CalendarInv, Rest, PressSync, SyncAnswered, SyncStarts, SyncFails, SyncEnds,
         OthersAct, CalMailArrives, CalMailLost, HiderFires, Toast
<1>6. syncing' \in BOOLEAN /\ syncStatus' \in {"none", "results", "failed"}
  BY DEF CalendarInv, Rest, PressSync, SyncAnswered, SyncStarts, SyncFails, SyncEnds,
         OthersAct, CalMailArrives, CalMailLost, HiderFires, Toast
<1>7. Rest'
  BY <1>1, <1>5, <1>6 DEF CalendarInv, Rest, formVars, detailVars
<1> QED
  BY <1>2, <1>3, <1>4, <1>7 DEF CalendarInv

\* What a step of the form has to keep.
LEMMA FormFrame ==
  ASSUME CalendarInv, UNCHANGED <<tab, syncVars, detailVars>>, FormOK', Owned',
         SavedWhereShown', form'.source # NoSource => form'.opening \in Opening,
         lists' \subseteq Opening \X CalDAV, misfiled' \in BOOLEAN, savesGoing' \subseteq Opening
  PROVE  CalendarInv'
<1>1. DetailOK' /\ InUse'
  BY DEF CalendarInv, DetailOK, InUse, detailVars
<1>2. Counted' /\ Mail'
  BY DEF CalendarInv, Counted, Mail, syncVars
<1>3. Rest'
  BY DEF CalendarInv, Rest, syncVars, detailVars
<1> QED
  BY <1>1, <1>2, <1>3 DEF CalendarInv, Filed

\* The effect on a newly chosen source.
LEMMA ChosenOK ==
  ASSUME NEW s \in Source, NEW f, NEW g,
         f \in [opening : 0 .. MaxEdits, source : Source \cup {NoSource},
                owner : Source \cup {NoSource}, loading : BOOLEAN, saving : BOOLEAN],
         g = Chosen(f, s)
  PROVE  /\ g \in [opening : 0 .. MaxEdits, source : Source \cup {NoSource},
                   owner : Source \cup {NoSource}, loading : BOOLEAN, saving : BOOLEAN]
         /\ g.opening = f.opening /\ g.source = s
         /\ s \in CalDAV => g.loading
         /\ s \notin CalDAV => g.owner = NoSource
<1>1. CASE s \in CalDAV
  <2>1. g = [f EXCEPT !.source = s, !.loading = TRUE]
    BY <1>1 DEF Chosen
  <2>2. g = [opening |-> f.opening, source |-> s, owner |-> f.owner, loading |-> TRUE,
             saving |-> f.saving]
    BY <2>1
  <2> QED
    BY <1>1, <2>2
<1>2. CASE s \notin CalDAV
  <2>1. g = [f EXCEPT !.source = s, !.owner = NoSource]
    BY <1>2 DEF Chosen
  <2>2. g = [opening |-> f.opening, source |-> s, owner |-> NoSource, loading |-> f.loading,
             saving |-> f.saving]
    BY <2>1
  <2> QED
    BY <1>2, <2>2
<1> QED
  BY <1>1, <1>2

LEMMA NoFormAt ==
  ASSUME NEW o, NEW f, f = [NoForm EXCEPT !.opening = o]
  PROVE  f = [opening |-> o, source |-> NoSource, owner |-> NoSource, loading |-> FALSE,
              saving |-> FALSE]
  BY DEF NoForm

LEMMA NoDetailAt ==
  ASSUME NEW o, NEW f, f = [NoDetail EXCEPT !.opening = o]
  PROVE  f = [opening |-> o, mode |-> "closed", saving |-> FALSE, deleting |-> FALSE]
  BY DEF NoDetail

LEMMA FormStep ==
  ASSUME CalendarInv,
         \/ OpenForm \/ SubmitEvent \/ CancelForm
         \/ \E s \in Source : ChooseSource(s)
         \/ \E o \in Opening : EventAnswered(o) \/ \E s \in CalDAV : ListArrives(o, s)
  PROVE  CalendarInv'
<1>a. /\ FormOK /\ Owned /\ SavedWhereShown
      /\ form.source # NoSource => form.opening \in Opening
      /\ lists \subseteq Opening \X CalDAV /\ misfiled \in BOOLEAN /\ savesGoing \subseteq Opening
  BY DEF CalendarInv, InUse, Filed, Rest
<1>b. [NoForm EXCEPT !.opening = form.opening] =
        [opening |-> form.opening, source |-> NoSource, owner |-> NoSource,
         loading |-> FALSE, saving |-> FALSE]
  BY NoFormAt
<1>1. CASE OpenForm
  <2>a. PICK s \in Source : \E f :
          /\ f = [NoForm EXCEPT !.opening = form.opening + 1]
          /\ form' = Chosen(f, s) /\ Asked(f, s)
    BY <1>1 DEF OpenForm
  <2>1. PICK f :
          /\ f = [NoForm EXCEPT !.opening = form.opening + 1]
          /\ form' = Chosen(f, s) /\ Asked(f, s)
    BY <2>a
  <2>2. form.opening + 1 \in Opening /\ form.opening + 1 \in 0 .. MaxEdits
    BY <1>1, <1>a, CalendarAssumption DEF OpenForm, FormOK, Opening
  <2>3. f = [opening |-> form.opening + 1, source |-> NoSource, owner |-> NoSource,
             loading |-> FALSE, saving |-> FALSE]
    BY <2>1 DEF NoForm
  <2>4. /\ FormOK' /\ form'.opening = form.opening + 1 /\ form'.source = s
        /\ s \in CalDAV => form'.loading
        /\ s \notin CalDAV => form'.owner = NoSource
    <3>1. f \in [opening : 0 .. MaxEdits, source : Source \cup {NoSource},
                  owner : Source \cup {NoSource}, loading : BOOLEAN, saving : BOOLEAN]
          /\ f.opening = form.opening + 1
      BY <2>2, <2>3
    <3> QED
      BY <2>1, <3>1, ChosenOK DEF FormOK
  <2>5. lists' \subseteq Opening \X CalDAV
    BY <1>a, <2>1, <2>2, <2>3 DEF Asked
  <2>6. UNCHANGED <<tab, syncVars, misfiled, savesGoing, listRaced, detailVars>>
    BY <1>1 DEF OpenForm
  <2>7. Owned' /\ SavedWhereShown'
    BY <1>a, <2>4, <2>6 DEF Owned, SavedWhereShown
  <2> QED
    BY <1>a, <2>2, <2>4, <2>5, <2>6, <2>7, FormFrame
<1>2. ASSUME NEW s \in Source, ChooseSource(s) PROVE CalendarInv'
  <2>1. /\ form' = Chosen(form, s) /\ Asked(form, s) /\ form.opening \in Opening
        /\ UNCHANGED <<tab, syncVars, misfiled, savesGoing, listRaced, detailVars>>
    BY <1>2, <1>a DEF ChooseSource
  <2>2. /\ FormOK' /\ form'.opening = form.opening /\ form'.source = s
        /\ s \in CalDAV => form'.loading
        /\ s \notin CalDAV => form'.owner = NoSource
    BY <1>a, <2>1, ChosenOK DEF FormOK
  <2>3. lists' \subseteq Opening \X CalDAV
    BY <1>a, <2>1 DEF Asked
  <2>4. Owned' /\ SavedWhereShown'
    BY <1>a, <2>1, <2>2 DEF Owned, SavedWhereShown
  <2> QED
    BY <1>a, <2>1, <2>2, <2>3, <2>4, FormFrame
<1>3. ASSUME NEW o \in Opening, NEW s \in CalDAV, ListArrives(o, s) PROVE CalendarInv'
  <2>1. /\ lists' \subseteq lists
        /\ UNCHANGED <<tab, syncVars, misfiled, savesGoing, detailVars>>
    BY <1>3 DEF ListArrives
  <2>2. CASE UNCHANGED <<form, listRaced>>
    BY <1>a, <2>1, <2>2, FormFrame DEF FormOK, Owned, SavedWhereShown
  <2>3. ASSUME NEW owner \in {s, NoSource}, form.source # NoSource,
               form' = [form EXCEPT !.loading = FALSE, !.owner = owner],
               listRaced' = (listRaced \/ s # form.source)
        PROVE  CalendarInv'
    <3>1. form' = [opening |-> form.opening, source |-> form.source, owner |-> owner,
                   loading |-> FALSE, saving |-> form.saving]
      BY <1>a, <2>3 DEF FormOK
    <3>2. FormOK' /\ form'.opening = form.opening /\ form'.source = form.source /\ form'.owner = owner
      BY <1>a, <3>1, CalendarAssumption DEF FormOK
    <3>3. Owned' /\ SavedWhereShown'
      BY <1>a, <2>1, <2>3, <3>2 DEF Owned, SavedWhereShown
    <3> QED
      BY <1>a, <2>1, <2>3, <3>2, <3>3, FormFrame
  <2> QED
    BY <1>3, <2>2, <2>3 DEF ListArrives
<1>4. CASE SubmitEvent
  <2>1. /\ form.source # NoSource /\ form.opening \in Opening
        /\ form.source \in CalDAV => ~form.loading
        /\ form' = [form EXCEPT !.saving = TRUE]
        /\ misfiled' = (misfiled \/ form.owner \notin {form.source, NoSource})
        /\ savesGoing' = savesGoing \cup {form.opening}
        /\ UNCHANGED <<tab, syncVars, lists, listRaced, detailVars>>
    BY <1>4, <1>a DEF SubmitEvent, Sendable
  <2>2. form' = [opening |-> form.opening, source |-> form.source, owner |-> form.owner,
                 loading |-> form.loading, saving |-> TRUE]
    BY <1>a, <2>1 DEF FormOK
  <2>3. FormOK' /\ form'.opening = form.opening /\ form'.source = form.source
        /\ form'.owner = form.owner /\ form'.loading = form.loading
    BY <1>a, <2>2 DEF FormOK
  <2>4. Owned'
    BY <1>a, <2>1, <2>3 DEF Owned
  <2>5. SavedWhereShown'
    BY <1>a, <2>1 DEF Owned, SavedWhereShown
  <2> QED
    BY <1>a, <2>1, <2>3, <2>4, <2>5, FormFrame
<1>5. ASSUME NEW o \in Opening, EventSaved(o) \/ CancelForm PROVE CalendarInv'
  <2>1. /\ form' = [NoForm EXCEPT !.opening = form.opening] /\ savesGoing' \subseteq savesGoing
        /\ UNCHANGED <<tab, syncVars, lists, misfiled, listRaced, detailVars>>
    BY <1>5 DEF EventSaved, CancelForm
  <2>2. FormOK' /\ form'.source = NoSource /\ form'.owner = NoSource
    BY <1>a, <1>b, <2>1 DEF FormOK
  <2>3. Owned' /\ SavedWhereShown'
    BY <1>a, <2>1, <2>2 DEF Owned, SavedWhereShown
  <2> QED
    BY <1>a, <2>1, <2>2, <2>3, FormFrame
<1>6. ASSUME NEW o \in Opening, EventNotSaved(o) PROVE CalendarInv'
  <2>1. /\ savesGoing' \subseteq savesGoing
        /\ UNCHANGED <<tab, syncVars, lists, misfiled, listRaced, detailVars>>
        /\ form' = form \/ form' = [form EXCEPT !.saving = FALSE]
    BY <1>6 DEF EventNotSaved
  <2>2. FormOK' /\ form'.opening = form.opening /\ form'.source = form.source
        /\ form'.owner = form.owner /\ form'.loading = form.loading
    BY <1>a, <2>1 DEF FormOK
  <2>3. Owned' /\ SavedWhereShown'
    BY <1>a, <2>1, <2>2 DEF Owned, SavedWhereShown
  <2> QED
    BY <1>a, <2>1, <2>2, <2>3, FormFrame
<1>7. CASE CancelForm
  <2>1. form.opening \in Opening
    BY <1>7, <1>a DEF CancelForm
  <2> QED
    BY <1>5, <1>7, <2>1
<1> QED
  BY <1>1, <1>2, <1>3, <1>4, <1>5, <1>6, <1>7 DEF EventAnswered

LEMMA DetailStep ==
  ASSUME CalendarInv,
         \/ OpenDetail \/ TurnDetail \/ SaveDetail \/ DeleteEvent \/ CloseDetail
         \/ \E ask \in Ask : DetailAnswered(ask)
  PROVE  CalendarInv'
<1>a. DetailOK /\ (detail.mode # "closed" => detail.opening \in Opening) /\ detailAsks \subseteq Ask
  BY DEF CalendarInv, InUse, Rest
<1>b. [NoDetail EXCEPT !.opening = detail.opening] =
        [opening |-> detail.opening, mode |-> "closed", saving |-> FALSE, deleting |-> FALSE]
  BY NoDetailAt
<1>1. UNCHANGED <<tab, syncVars, formVars>>
  BY DEF OpenDetail, TurnDetail, SaveDetail, DeleteEvent, CloseDetail, DetailAnswered,
         DetailDone, DetailFails
<1>2. ASSUME DetailOK', detail'.mode # "closed" => detail'.opening \in Opening, detailAsks' \subseteq Ask
      PROVE  CalendarInv'
  <2>1. FormOK' /\ InUse' /\ Filed'
    BY <1>1, <1>2 DEF CalendarInv, FormOK, InUse, Filed, SavedWhereShown, Owned, formVars
  <2>2. Counted' /\ Mail'
    BY <1>1 DEF CalendarInv, Counted, Mail, syncVars
  <2>3. Rest'
    BY <1>1, <1>2 DEF CalendarInv, Rest, syncVars, formVars
  <2> QED
    BY <1>2, <2>1, <2>2, <2>3 DEF CalendarInv
<1>3. CASE OpenDetail
  <2>1. detail.opening + 1 \in Opening /\ detail.opening + 1 \in 0 .. MaxEdits
    BY <1>3, <1>a, CalendarAssumption DEF OpenDetail, DetailOK, Opening
  <2>2. detail' = [opening |-> detail.opening + 1, mode |-> "shown", saving |-> FALSE,
                   deleting |-> FALSE]
    BY <1>3 DEF OpenDetail, NoDetail
  <2> QED
    <3>1. DetailOK' /\ detail'.opening \in Opening
      BY <2>1, <2>2 DEF DetailOK, DetailMode
    <3>2. detailAsks' = detailAsks
      BY <1>3 DEF OpenDetail
    <3> QED
      BY <1>2, <1>a, <3>1, <3>2
<1>4. CASE TurnDetail
  <2>1. PICK mode \in DetailMode : /\ {detail.mode, mode} \in Turns
                                   /\ detail' = [detail EXCEPT !.mode = mode]
    BY <1>4 DEF TurnDetail
  <2>0. detail.mode # "closed"
    BY <2>1 DEF Turns
  <2>2. detail' = [opening |-> detail.opening, mode |-> mode, saving |-> detail.saving,
                   deleting |-> detail.deleting]
    BY <1>a, <2>1 DEF DetailOK
  <2> QED
    BY <1>2, <1>4, <1>a, <2>0, <2>2 DEF TurnDetail, DetailOK
<1>5. CASE SaveDetail \/ DeleteEvent
  <2>1. /\ detail.mode # "closed" /\ detail.opening \in Opening
        /\ detailAsks' \subseteq detailAsks \cup {<<detail.opening, "save">>, <<detail.opening, "delete">>}
        /\ detail' = [detail EXCEPT !.saving = TRUE] \/ detail' = [detail EXCEPT !.deleting = TRUE]
    BY <1>5, <1>a DEF SaveDetail, DeleteEvent
  <2>2. DetailOK' /\ detail'.opening = detail.opening
    BY <1>a, <2>1 DEF DetailOK
  <2> QED
    BY <1>2, <1>a, <2>1, <2>2 DEF Ask
<1>6. ASSUME NEW ask \in Ask, DetailDone(ask) \/ CloseDetail PROVE CalendarInv'
  <2>1. /\ detail' = [NoDetail EXCEPT !.opening = detail.opening] /\ detailAsks' \subseteq detailAsks
    BY <1>6 DEF DetailDone, CloseDetail
  <2> QED
    BY <1>2, <1>a, <1>b, <2>1 DEF DetailOK, DetailMode
<1>7. ASSUME NEW ask \in Ask, DetailFails(ask) PROVE CalendarInv'
  <2>1. /\ detailAsks' \subseteq detailAsks
        /\ \/ detail' = detail \/ detail' = [detail EXCEPT !.saving = FALSE]
           \/ detail' = [detail EXCEPT !.deleting = FALSE]
    BY <1>7 DEF DetailFails
  <2>2. DetailOK' /\ detail'.opening = detail.opening /\ detail'.mode = detail.mode
    BY <1>a, <2>1 DEF DetailOK
  <2> QED
    BY <1>2, <1>a, <2>1, <2>2
<1>8. CASE CloseDetail
  <2>1. <<detail.opening, "save">> \in Ask
    BY <1>8, <1>a DEF CloseDetail, Ask
  <2> QED
    BY <1>6, <1>8, <2>1
<1> QED
  BY <1>3, <1>4, <1>5, <1>6, <1>7, <1>8 DEF DetailAnswered

LEMMA CalendarStepInv == CalendarInv /\ [CalendarNext]_calendarVars => CalendarInv'
<1> SUFFICES ASSUME CalendarInv, [CalendarNext]_calendarVars PROVE CalendarInv'
  OBVIOUS
<1>1. CASE UNCHANGED calendarVars
  <2>1. FormOK' /\ DetailOK' /\ InUse' /\ Filed'
    BY <1>1 DEF calendarVars, formVars, detailVars, CalendarInv, FormOK, DetailOK, InUse,
                Filed, SavedWhereShown, Owned
  <2>2. Counted' /\ Mail' /\ Rest'
    BY <1>1 DEF calendarVars, syncVars, formVars, detailVars, CalendarInv, Counted, Mail, Rest
  <2> QED
    BY <2>1, <2>2 DEF CalendarInv
<1> QED
  BY <1>1, ButtonStep, FormStep, DetailStep DEF CalendarNext

LEMMA CalendarSafe == CalendarInv => CalendarTypeOK /\ SavedWhereShown
<1> SUFFICES ASSUME CalendarInv PROVE CalendarTypeOK /\ SavedWhereShown
  OBVIOUS
<1>1. syncPosts \in 0 .. MaxPresses /\ syncJobs \in 0 .. MaxPresses
  BY CalendarAssumption DEF CalendarInv, Counted
<1>2. /\ form.source \in Source \cup {NoSource} /\ form.owner \in Source \cup {NoSource}
      /\ detail.mode \in DetailMode
  BY DEF CalendarInv, FormOK, DetailOK
<1> QED
  BY <1>1, <1>2 DEF CalendarInv, Rest, Filed, CalendarTypeOK

-----------------------------------------------------------------------------
(***************************************************************************)
(* The parts together.                                                     *)
(***************************************************************************)
WebLiveInv ==
    /\ at \in Parts
    /\ LiveInv /\ StaleIsPursued /\ SocketInv /\ SignInInv /\ KioskInv /\ CalendarInv

LEMMA StepOfEach ==
  ASSUME [WebLiveNext]_webVars
  PROVE  /\ [LiveNext]_liveVars /\ [SocketNext]_socketVars /\ [SignInNext]_signInVars
         /\ [KioskScreensNext]_kioskScreenVars /\ [CalendarNext]_calendarVars
         /\ UNCHANGED at
  BY DEF WebLiveNext, webVars

LEMMA WebLiveInitInv == WebLiveInit => WebLiveInv
  BY LiveInitInv, SocketInitInv, SignInInitInv, KioskInitInv, CalendarInitInv
     DEF WebLiveInit, WebLiveInv

LEMMA WebLiveStepInv == WebLiveInv /\ [WebLiveNext]_webVars => WebLiveInv'
  BY StepOfEach, LiveStepInv, StaleStep, SocketStepInv, SignInStepInv, KioskStepInv,
     CalendarStepInv DEF WebLiveInv

LEMMA WebLiveSafe == WebLiveInv => WebLiveTypeOK /\ OneAtATime /\ ScreensAreTrue
<1> SUFFICES ASSUME WebLiveInv PROVE WebLiveTypeOK /\ OneAtATime /\ ScreensAreTrue
  OBVIOUS
<1>1. LiveTypeOK /\ OneFetchPerKey /\ StaleIsPursued
  BY OneFetch DEF WebLiveInv, LiveInv
<1>2. SocketTypeOK /\ OneSocket
  BY SocketSafe DEF WebLiveInv, SocketInv
<1>3. SignInTypeOK /\ ScreenIsSession /\ SetupOrUser
  BY SignInSafe DEF WebLiveInv
<1>4. KioskScreensTypeOK /\ OnePollLoop
  BY KioskSafe DEF WebLiveInv, KioskInv
<1>5. CalendarTypeOK /\ SavedWhereShown
  BY CalendarSafe DEF WebLiveInv
<1> QED
  BY <1>1, <1>2, <1>3, <1>4, <1>5 DEF WebLiveInv, WebLiveTypeOK, OneAtATime, ScreensAreTrue

\* Every variable of the live parts keeps its type.
THEOREM WebLiveTyped == WebLiveSpec => []WebLiveTypeOK
  BY WebLiveInitInv, WebLiveStepInv, WebLiveSafe, PTL DEF WebLiveSpec

\* One request of a key, one socket of a browser and one poll loop of a kiosk
\* (query.ts, WebSocketContext.tsx, SetupKiosk.tsx), however many there are.
THEOREM OneOfEach == WebLiveSpec => []OneAtATime
  BY WebLiveInitInv, WebLiveStepInv, WebLiveSafe, PTL DEF WebLiveSpec

\* What the screens show is so, or is being read again, short of the races the
\* parts name (query.ts, AuthContext.tsx, AddEventForm.tsx).
THEOREM ScreensTrue == WebLiveSpec => []ScreensAreTrue
  BY WebLiveInitInv, WebLiveStepInv, WebLiveSafe, PTL DEF WebLiveSpec
=============================================================================
