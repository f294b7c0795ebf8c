------------------------------ MODULE LiveData ------------------------------
(***************************************************************************)
(* What a signed-in browser shows of the server's data: the query cache    *)
(* (web/src/lib/query.ts), the dashboard answer that fills other entries   *)
(* (web/src/lib/dashboardSeed.ts), the websocket messages that push or     *)
(* invalidate entries (QuerySync in web/src/App.tsx) and the Update button *)
(* (web/src/components/layout/Shell.tsx).                                  *)
(*                                                                         *)
(* A version number stands for the state of a resource.  An entry holds    *)
(* the versions its answer was made of: one for a part, one for every part *)
(* for the dashboard.  Its error is only shown and left out.  Time is not  *)
(* counted: staleTime may or may not have passed when an effect looks at   *)
(* an entry.  An effect runs after the render that scheduled it: `due'     *)
(* holds the keys whose effect has been scheduled and has not run.         *)
(***************************************************************************)
EXTENDS Naturals, Sequences, FiniteSets

CONSTANTS
    Part,        \* resources with an entry of their own
    Dash,        \* the key of the dashboard, which answers for all of them
    Nothing,     \* an entry's data before its first answer
    MaxVersion,  \* bound: writes per resource
    MaxFailures  \* bound: failed or timed-out requests

Key == Part \cup {Dash}

ASSUME LiveAssumption ==
    /\ Dash \notin Part
    /\ Nothing \notin Nat
    /\ MaxVersion \in Nat /\ MaxFailures \in Nat

VARIABLES
    kind,       \* how a resource is kept up to date: its messages carry its value
                \* ("pushed": accounts), they are a notice ("noticed": calendar,
                \* chore templates), or it has a refetchInterval ("polled": activity)
    server,     \* version of each resource at the server
    link,       \* messages on their way over the websocket, or Nothing when down
    store,      \* the cache: key -> [data, dated, busy]
    requests,   \* requests without an answer yet: [key, n, read]
    mounted,    \* keys a mounted component subscribes to
    due,        \* keys whose effect is scheduled
    seeding,    \* QuerySync's effect on a new dashboard is scheduled
    failures

liveVars == <<kind, server, link, store, requests, mounted, due, seeding, failures>>

Content(k) == IF k = Dash THEN Part ELSE {k}
Snapshot(k) == [p \in Content(k) |-> server[p]]

\* Entry: `dated' is updatedAt # 0, `busy' is promise # null.
Empty == [data |-> Nothing, dated |-> FALSE, busy |-> FALSE]

\* notify: every subscriber's tick changes, so its effect will run again.
Notify(ks) == due' = due \cup (ks \cap mounted)

Filled(e, data) == [e EXCEPT !.data = data, !.dated = TRUE]

-----------------------------------------------------------------------------
(***************************************************************************)
(* useQuery.                                                               *)
(***************************************************************************)
Mount(k) ==
    /\ k \notin mounted
    /\ mounted' = mounted \cup {k}
    /\ due' = due \cup {k}
    /\ UNCHANGED <<kind, server, link, store, requests, seeding, failures>>

\* QuerySync, mounted at sign-in, keeps the dashboard's key.
Unmount(k) ==
    /\ k \in mounted \ {Dash}
    /\ mounted' = mounted \ {k}
    /\ due' = due \ {k}
    /\ UNCHANGED <<kind, server, link, store, requests, seeding, failures>>

\* Mutant: a fetch already on its way is not looked at.
MayFetchAgain(k) == TRUE

MayFetch(k) == ~store[k].busy
MayBeFresh(k) == store[k].data # Nothing /\ store[k].dated

RunEffect(k) ==
    /\ k \in due
    /\ due' = due \ {k}
    /\ \/ /\ MayFetch(k)
          /\ store' = [store EXCEPT ![k].busy = TRUE]
          /\ requests' = requests \cup
               {[key |-> k, n |-> Cardinality({r \in requests : r.key = k}),
                 read |-> Nothing]}
       \/ MayBeFresh(k) /\ UNCHANGED <<store, requests>>
       \/ ~MayFetch(k) /\ UNCHANGED <<store, requests>>
    /\ UNCHANGED <<kind, server, link, mounted, seeding, failures>>

\* External: the server reads its data; the answer is then on its way.
ServerReads(r) ==
    /\ r \in requests /\ r.read = Nothing
    /\ requests' = (requests \ {r}) \cup {[r EXCEPT !.read = Snapshot(r.key)]}
    /\ UNCHANGED <<kind, server, link, store, mounted, due, seeding, failures>>

Answered(r) ==
    /\ r \in requests /\ r.read # Nothing
    /\ requests' = requests \ {r}
    /\ store' = [store EXCEPT ![r.key] = [Filled(@, r.read) EXCEPT !.busy = FALSE]]
    /\ seeding' = (seeding \/ r.key = Dash)
    /\ Notify({r.key})
    /\ UNCHANGED <<kind, server, link, mounted, failures>>

\* Mutant: the rejected promise stays in the entry.
FailedQuietly(r) ==
    /\ r \in requests /\ failures < MaxFailures
    /\ failures' = failures + 1
    /\ requests' = requests \ {r}
    /\ UNCHANGED store
    /\ Notify({r.key})
    /\ UNCHANGED <<kind, server, link, mounted, seeding>>

\* An error answer, no network, or the ten seconds of client.ts are over: the
\* subscribers are notified, so that a mounted key is requested again at once.
Failed(r) ==
    /\ r \in requests /\ failures < MaxFailures
    /\ failures' = failures + 1
    /\ requests' = requests \ {r}
    /\ store' = [store EXCEPT ![r.key].busy = FALSE]
    /\ Notify({r.key})
    /\ UNCHANGED <<kind, server, link, mounted, seeding>>

-----------------------------------------------------------------------------
(***************************************************************************)
(* Invalidation.                                                           *)
(***************************************************************************)
Invalidated(ks) == [k \in Key |-> IF k \in ks THEN [store[k] EXCEPT !.dated = FALSE]
                                              ELSE store[k]]

Tick(k) ==
    /\ k \in mounted \cap Part /\ kind[k] = "polled"
    /\ store' = Invalidated({k})
    /\ Notify({k})
    /\ UNCHANGED <<kind, server, link, requests, mounted, seeding, failures>>

\* The Update button of the menu.
Update ==
    /\ store' = Invalidated(Key)
    /\ Notify(Key)
    /\ UNCHANGED <<kind, server, link, requests, mounted, seeding, failures>>

-----------------------------------------------------------------------------
(***************************************************************************)
(* QuerySync: a new dashboard answer fills the entries of its parts, and   *)
(* the server's messages fill or invalidate entries.                       *)
(***************************************************************************)
Seed ==
    /\ seeding
    /\ seeding' = FALSE
    /\ store' = [k \in Key |-> IF k \in Part
                               THEN Filled(store[k], [p \in {k} |-> store[Dash].data[p]])
                               ELSE store[k]]
    /\ Notify(Part)
    /\ UNCHANGED <<kind, server, link, requests, mounted, failures>>

Receive ==
    /\ link # Nothing /\ link # <<>>
    /\ link' = Tail(link)
    /\ LET m == Head(link) IN
       IF kind[m.part] = "pushed"
       THEN /\ store' = [store EXCEPT ![m.part] = Filled(@, [p \in {m.part} |-> m.version])]
            /\ Notify({m.part})
       ELSE /\ store' = Invalidated({m.part, Dash})
            /\ Notify({m.part, Dash})
    /\ UNCHANGED <<kind, server, requests, mounted, seeding, failures>>

\* External: the server changes a resource and broadcasts, to an open socket.
Write(p) ==
    /\ server[p] < MaxVersion
    /\ server' = [server EXCEPT ![p] = @ + 1]
    /\ link' = IF link = Nothing \/ kind[p] = "polled" THEN link
               ELSE Append(link, [part |-> p, version |-> server[p] + 1])
    /\ UNCHANGED <<kind, store, requests, mounted, due, seeding, failures>>

\* The socket closes, with what it still had to deliver; three seconds later
\* connect opens a new one, and nothing is asked for again.
LinkDrops ==
    /\ link # Nothing
    /\ link' = Nothing
    /\ UNCHANGED <<kind, server, store, requests, mounted, due, seeding, failures>>

Connect ==
    /\ link = Nothing
    /\ link' = <<>>
    /\ UNCHANGED <<kind, server, store, requests, mounted, due, seeding, failures>>

-----------------------------------------------------------------------------
LiveInit ==
    /\ kind \in [Part -> {"pushed", "noticed", "polled"}]
    /\ server = [p \in Part |-> 0]
    /\ link = Nothing
    /\ store = [k \in Key |-> Empty]
    /\ requests = {}
    /\ mounted = {} /\ due = {} /\ seeding = FALSE
    /\ failures = 0

LiveNext ==
    \/ \E k \in Key : Mount(k) \/ Unmount(k) \/ RunEffect(k) \/ Tick(k)
    \/ \E r \in requests : ServerReads(r) \/ Answered(r) \/ Failed(r)
    \/ \E p \in Part : Write(p)
    \/ Update \/ Seed \/ Receive \/ LinkDrops \/ Connect

\* React runs the effects it has scheduled; a request is answered or fails; an
\* interval fires as long as its component is mounted.
LiveFairness ==
    /\ \A k \in Part : WF_liveVars(Tick(k))
    /\ \A k \in Key : WF_liveVars(RunEffect(k))
    /\ \A k \in Key : WF_liveVars(\E r \in requests : r.key = k /\ (ServerReads(r) \/ Answered(r)))
    /\ WF_liveVars(Seed)

LiveSpec == LiveInit /\ [][LiveNext]_liveVars /\ LiveFairness
-----------------------------------------------------------------------------
Answer(k) == [Content(k) -> 0 .. MaxVersion]
Entry(k) == [data : Answer(k) \cup {Nothing}, dated : BOOLEAN, busy : BOOLEAN]

LiveTypeOK ==
    /\ kind \in [Part -> {"pushed", "noticed", "polled"}]
    /\ server \in [Part -> 0 .. MaxVersion]
    /\ link = Nothing \/ link \in Seq([part : Part, version : 1 .. MaxVersion])
    /\ DOMAIN store = Key /\ \A k \in Key : store[k] \in Entry(k)
    /\ mounted \subseteq Key /\ due \subseteq mounted
    /\ seeding \in BOOLEAN /\ failures \in 0 .. MaxFailures

\* However many notices, remounts and ticks arrive, a key is never fetched twice
\* at the same time, and an entry counts as busy exactly while its request is out.
OneFetchPerKey ==
    \A k \in Key :
        /\ Cardinality({r \in requests : r.key = k}) <= 1
        /\ store[k].busy <=> \E r \in requests : r.key = k

\* An entry that was invalidated, or never filled, is not forgotten while a
\* component shows it: its effect is scheduled or its fetch is out.
StaleIsPursued ==
    \A k \in mounted :
        ~store[k].dated \/ store[k].data = Nothing =>
            k \in due \/ store[k].busy

Current(k) == store[k].data = Snapshot(k)

\* A mounted component gets something to show.
MountedLoads ==
    \A k \in Key : k \in mounted ~> (k \notin mounted \/ store[k].data # Nothing)

\* A family that keeps pressing Update sees what the server has, whatever
\* messages were lost: no entry stays behind for good.
UpdateCatchesUp ==
    []<><<Update>>_liveVars =>
        \A k \in Key : []<>(k \notin mounted \/ Current(k))

\* So does a component that polls, with nobody pressing anything.
PollCatchesUp ==
    \A k \in Part : []<>(kind[k] # "polled" \/ k \notin mounted \/ Current(k))
=============================================================================
