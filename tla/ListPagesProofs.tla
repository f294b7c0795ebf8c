--------------------------- MODULE ListPagesProofs ---------------------------
(***************************************************************************)
(* Theorems about the pages that show a list or a form and send what was   *)
(* changed: the money pages, the settings form, the lists of the settings  *)
(* and the screens of chores and tasks, for any tables, dialogues, saves   *)
(* and requests.  That such a page shows what the server has once nothing  *)
(* is under way says nothing of the moments when something is; each        *)
(* invariant here says what is then on its way: a page that is behind has  *)
(* a read that will bring what it misses, a message that will ask for one, *)
(* or a loss on record; and a request that was answered is never sent      *)
(* again.                                                                  *)
(***************************************************************************)
EXTENDS MoneyPages, SettingsForm, SettingsLists, ChoreScreens, TLAPS

-----------------------------------------------------------------------------
(***************************************************************************)
(* The pages of the currency.  What is shown and not the ledger's is being *)
(* asked for, on its way, or about to be told; and a dialogue that was     *)
(* paid for has nothing on its way and is never opened again.              *)
(***************************************************************************)
Opening == 1 .. MaxOpened[moneyPage]

AwardsTyped ==
    /\ moneyPage \in MoneyPage
    /\ opened \in 0 .. MaxOpened[moneyPage] /\ dialogue \in 0 .. opened
    /\ uploading \in [Opening -> Nat] /\ posting \in [Opening -> Nat]
    /\ rowsPosted \in [Opening -> Nat] /\ postsUnheard \in [Opening -> Nat]

OneOf(o) == uploading[o] + posting[o] <= 1

PaidOne(o) ==
    /\ rowsPosted[o] <= 1 + postsUnheard[o]
    /\ rowsPosted[o] > postsUnheard[o] =>
          uploading[o] + posting[o] = 0 /\ dialogue # o /\ o <= opened

UnopenedOne(o) == o > opened => uploading[o] + posting[o] = 0 /\ rowsPosted[o] = 0

OnePost == \A o \in Opening : OneOf(o)
PaidIsOver == \A o \in Opening : PaidOne(o)
UnopenedIsIdle == \A o \in Opening : UnopenedOne(o)

AwardInv == AwardsTyped /\ OnePost /\ PaidIsOver /\ UnopenedIsIdle

\* One more of an opening, and no other changed.
LEMMA MoreIs ==
  ASSUME NEW S, NEW f \in [S -> Nat], NEW o \in S
  PROVE  /\ More(f, o) \in [S -> Nat] /\ More(f, o)[o] = f[o] + 1
         /\ \A q \in S \ {o} : More(f, o)[q] = f[q]
  BY DEF More

\* One fewer of an opening that has some, and no other changed.
LEMMA FewerIs ==
  ASSUME NEW S, NEW f \in [S -> Nat], NEW o \in S, f[o] > 0
  PROVE  LET g == [f EXCEPT ![o] = @ - 1]
         IN  /\ g \in [S -> Nat] /\ g[o] = f[o] - 1 /\ \A q \in S \ {o} : g[q] = f[q]
  OBVIOUS

\* The steps of the dialogue, and all the others.
LEMMA AwardStep ==
  ASSUME AwardInv, [MoneyNext]_moneyVars
  PROVE  AwardInv'
<1> USE DEF AwardInv
<1>0. \A p \in MoneyPage : MaxOpened[p] \in Nat
  BY MoneyAssumption
<1>1. CASE OpenDialogue
  BY <1>0, <1>1 DEF OpenDialogue, AwardsTyped, OnePost, PaidIsOver, UnopenedIsIdle, Opening,
                    OneOf, PaidOne, UnopenedOne
<1>2. CASE CloseDialogue
  BY <1>0, <1>2 DEF CloseDialogue, AwardsTyped, OnePost, PaidIsOver, UnopenedIsIdle, Opening,
                    OneOf, PaidOne, UnopenedOne
<1>3. CASE Submit
  <2>1. dialogue \in Opening /\ uploading[dialogue] + posting[dialogue] = 0
    BY <1>0, <1>3 DEF Submit, Submitting, AwardsTyped, Opening
  <2>2. Opening' = Opening /\ UNCHANGED <<moneyPage, dialogue, opened, rowsPosted, postsUnheard>>
    BY <1>3 DEF Submit, Opening
  <2>3. /\ uploading' \in [Opening -> Nat] /\ posting' \in [Opening -> Nat]
        /\ uploading'[dialogue] + posting'[dialogue] = 1
        /\ \A q \in Opening \ {dialogue} : uploading'[q] = uploading[q] /\ posting'[q] = posting[q]
    <3>1. uploading \in [Opening -> Nat] /\ posting \in [Opening -> Nat]
      BY DEF AwardsTyped
    <3>2. \/ uploading' = More(uploading, dialogue) /\ posting' = posting
          \/ posting' = More(posting, dialogue) /\ uploading' = uploading
      BY <1>3 DEF Submit
    <3> QED
      BY <2>1, <3>1, <3>2, MoreIs
  <2>4. AwardsTyped'
    BY <2>2, <2>3 DEF AwardsTyped
  <2>5. OnePost'
    BY <2>1, <2>2, <2>3 DEF OnePost, OneOf
  <2>6. PaidIsOver' /\ UnopenedIsIdle'
    BY <1>0, <2>1, <2>2, <2>3 DEF PaidIsOver, UnopenedIsIdle, AwardsTyped, OneOf, PaidOne,
                                  UnopenedOne
  <2> QED
    BY <2>4, <2>5, <2>6
<1>4. ASSUME NEW o \in Opening, Uploaded(o)
      PROVE  AwardInv'
  <2>1. Opening' = Opening
    BY <1>4 DEF Uploaded, Opening
  <2> QED
    BY <1>0, <1>4, <2>1, MoreIs, FewerIs
    DEF Uploaded, Fewer, AwardsTyped, OnePost, PaidIsOver, UnopenedIsIdle, OneOf, PaidOne,
        UnopenedOne
<1>5. ASSUME NEW o \in Opening, PostAnswered(o)
      PROVE  AwardInv'
  <2>1. Opening' = Opening /\ UNCHANGED <<moneyPage, opened, uploading, postsUnheard>> /\ dialogue' = 0
    BY <1>5 DEF PostAnswered, Opening
  <2>2. /\ posting' \in [Opening -> Nat] /\ posting'[o] = posting[o] - 1 /\ posting[o] > 0
        /\ \A q \in Opening \ {o} : posting'[q] = posting[q]
    BY <1>5, FewerIs DEF PostAnswered, Fewer, AwardsTyped
  <2>3. /\ rowsPosted' \in [Opening -> Nat] /\ rowsPosted'[o] = rowsPosted[o] + 1
        /\ \A q \in Opening \ {o} : rowsPosted'[q] = rowsPosted[q]
    BY <1>5, MoreIs DEF PostAnswered, AwardsTyped
  <2>4. /\ uploading[o] = 0 /\ posting[o] = 1 /\ rowsPosted[o] <= postsUnheard[o] /\ o <= opened
        /\ opened \in Nat /\ o \in Nat
    BY <1>0, <2>2 DEF OnePost, PaidIsOver, UnopenedIsIdle, OneOf, PaidOne, UnopenedOne,
                      AwardsTyped, Opening
  <2>5. AwardsTyped'
    BY <1>0, <2>1, <2>2, <2>3 DEF AwardsTyped
  <2>. /\ \A q \in Opening : /\ uploading[q] \in Nat /\ posting[q] \in Nat
                             /\ rowsPosted[q] \in Nat /\ postsUnheard[q] \in Nat
       /\ 0 \notin Opening
    BY DEF AwardsTyped, Opening
  <2>6. \A q \in Opening : OneOf(q)' /\ PaidOne(q)' /\ UnopenedOne(q)'
    <3> SUFFICES ASSUME NEW q \in Opening PROVE OneOf(q)' /\ PaidOne(q)' /\ UnopenedOne(q)'
      OBVIOUS
    <3>1. OneOf(q) /\ PaidOne(q) /\ UnopenedOne(q)
      BY DEF OnePost, PaidIsOver, UnopenedIsIdle
    <3>2. CASE q = o
      BY <2>1, <2>2, <2>3, <2>4, <3>1, <3>2 DEF OneOf, PaidOne, UnopenedOne
    <3>3. CASE q # o
      BY <2>1, <2>2, <2>3, <3>1, <3>3 DEF OneOf, PaidOne, UnopenedOne
    <3> QED
      BY <3>2, <3>3
  <2>7. OnePost' /\ PaidIsOver' /\ UnopenedIsIdle'
    BY <2>1, <2>6 DEF OnePost, PaidIsOver, UnopenedIsIdle
  <2> QED
    BY <2>5, <2>7
<1>6. ASSUME NEW o \in Opening, PostFails(o)
      PROVE  AwardInv'
  <2>1. Opening' = Opening
    BY <1>6 DEF PostFails, Opening
  <2> QED
    BY <1>0, <1>6, <2>1, MoreIs, FewerIs
    DEF PostFails, Fewer, AwardsTyped, OnePost, PaidIsOver, UnopenedIsIdle, OneOf, PaidOne,
        UnopenedOne
<1>7. CASE UNCHANGED <<moneyPage, awardVars>>
  BY <1>7 DEF awardVars, AwardsTyped, OnePost, PaidIsOver, UnopenedIsIdle, Opening, OneOf,
              PaidOne, UnopenedOne
<1> QED
  BY <1>1, <1>2, <1>3, <1>4, <1>5, <1>6, <1>7
  DEF MoneyNext, moneyVars, Serve, LoadFails, PartAnswered, Noted, NoteLost,
      ChangedElsewhere, PaidSilently, SendEdit, EditAnswered, EditFails, Opening

\* The dialogues start with nothing sent.
LEMMA AwardInit == MoneyInit => AwardInv
  BY MoneyAssumption DEF MoneyInit, Nought, AwardInv, AwardsTyped, OnePost, PaidIsOver,
                         UnopenedIsIdle, OneOf, PaidOne, UnopenedOne, Opening

\* A dialogue pays at most once, closed or not, unless the answer to a post that
\* went through was lost (AwardModal.tsx), for any number of dialogues.
THEOREM AwardsOnce == MoneySpec => []AwardOnce
<1>1. AwardInv => AwardOnce
  BY MoneyAssumption DEF AwardInv, AwardsTyped, PaidIsOver, PaidOne, AwardOnce, Opening
<1> QED
  BY <1>1, AwardInit, AwardStep, PTL DEF MoneySpec

PartsOf(g) == CASE g = "list" -> {"account"}
                [] g = "kid" -> {"account", "history"}
                [] g = "store" -> {"account", "pending"}

LoadsTyped ==
    /\ moneyPage \in MoneyPage /\ ledger \in Version
    /\ partsShown \in [Part -> Version \cup {NotYet}]
    /\ asked \in [Part -> 0 .. MaxAsked] /\ answers \in [Part -> SUBSET Version]
    /\ notes \in Seq(Version) /\ editGoing \in BOOLEAN /\ blind \in BOOLEAN

\* Nothing is on its way that the server has not had.
NothingNewer ==
    /\ \A p \in Part : \A v \in answers[p] : v <= ledger
    /\ \A i \in 1 .. Len(notes) : notes[i] <= ledger

\* A page has its own parts only, and a kid's page its account first.
Untold(p) == partsShown[p] = NotYet /\ asked[p] = 0 /\ answers[p] = {}

OwnParts ==
    /\ \A p \in Part \ PartsOf(moneyPage) : Untold(p)
    /\ moneyPage = "kid" /\ partsShown["account"] = NotYet => Untold("history")
    /\ moneyPage = "list" => ~editGoing

\* The last message tells of the ledger as it is.
LastNote == notes # <<>> /\ notes[Len(notes)] = ledger

Coming(p) ==
    \/ partsShown[p] = ledger
    \/ partsShown[p] = NotYet /\ answers[p] \subseteq {ledger}
    \/ asked[p] > 0 \/ ledger \in answers[p]
    \/ moneyPage = "kid" /\ notes # <<>>
    \/ moneyPage = "list" /\ LastNote

CurrentOrComing ==
    ~blind => /\ \A p \in Part : Coming(p)
              /\ moneyPage = "list" /\ notes # <<>> => LastNote

LoadsInv == LoadsTyped /\ NothingNewer /\ OwnParts /\ CurrentOrComing

\* The parts a page loads are asked for when it opens.
LEMMA LoadsInit == MoneyInit => LoadsInv
<1> SUFFICES ASSUME MoneyInit PROVE LoadsInv
  OBVIOUS
<1>1. LoadsTyped
  <2>1. asked \in [Part -> 0 .. MaxAsked] /\ ledger \in Version
    BY MoneyAssumption DEF MoneyInit, Version
  <2>2. notes \in Seq(Version)
    BY DEF MoneyInit
  <2> QED
    BY <2>1, <2>2 DEF MoneyInit, LoadsTyped
<1>2. NothingNewer /\ CurrentOrComing
  BY DEF MoneyInit, NothingNewer, CurrentOrComing, Coming
<1>3. OwnParts
  BY DEF MoneyInit, OwnParts, Untold, PartsOf, Loaded, Part, MoneyPage
<1> QED
  BY <1>1, <1>2, <1>3 DEF LoadsInv

\* What Ask, a part of every reload, does.
LEMMA AskIs ==
  ASSUME LoadsTyped, NEW parts \in SUBSET Part, Ask(parts)
  PROVE  /\ asked' \in [Part -> 0 .. MaxAsked]
         /\ \A p \in parts : asked'[p] > 0
         /\ \A p \in Part \ parts : asked'[p] = asked[p]
  BY MoneyAssumption DEF LoadsTyped, Ask

\* A reload asks for the parts the page shows, or they are still untold.
LEMMA ReloadAsks ==
  ASSUME LoadsTyped, OwnParts, ReloadParts
  PROVE  /\ asked' \in [Part -> 0 .. MaxAsked]
         /\ \A p \in PartsOf(moneyPage) : asked'[p] > 0 \/ (Untold(p) /\ asked'[p] = asked[p])
         /\ \A p \in Part \ PartsOf(moneyPage) : asked'[p] = asked[p]
         /\ moneyPage = "kid" /\ partsShown["account"] = NotYet => asked'["history"] = asked["history"]
<1>1. CASE moneyPage = "kid" /\ partsShown["account"] # NotYet
  <2>1. Ask({"account", "history"}) /\ {"account", "history"} \subseteq Part
    BY <1>1 DEF ReloadParts, Part
  <2> QED
    BY <1>1, <2>1, AskIs DEF PartsOf, Part
<1>2. CASE moneyPage = "kid" /\ partsShown["account"] = NotYet
  <2>1. Ask({"account"}) /\ {"account"} \subseteq Part
    BY <1>2 DEF ReloadParts, Part, Loaded
  <2> QED
    BY <1>2, <2>1, AskIs DEF PartsOf, Part, OwnParts
<1>3. CASE moneyPage # "kid"
  <2>1. Ask(PartsOf(moneyPage)) /\ PartsOf(moneyPage) \subseteq Part
    BY <1>3 DEF ReloadParts, Part, Loaded, PartsOf, LoadsTyped, MoneyPage
  <2> QED
    BY <1>3, <2>1, AskIs
<1> QED
  BY <1>1, <1>2, <1>3

\* The ledger changes.  On the list and on a kid's page a message says so; the
\* store, which does not listen, reads again, or the change escapes it.
LEMMA RaiseKeeps ==
  ASSUME LoadsInv, Raise, UNCHANGED <<moneyPage, partsShown, answers>>,
         editGoing' \in BOOLEAN, moneyPage = "list" => ~editGoing',
         blind' \in BOOLEAN, blind => blind',
         UNCHANGED notes \/ Told, UNCHANGED asked \/ ReloadParts,
         ~blind' => IF moneyPage = "store" THEN ReloadParts ELSE Told
  PROVE  LoadsInv'
<1> USE DEF LoadsInv
<1>1. /\ ledger \in Nat /\ ledger' = ledger + 1 /\ ledger' \in Version
      /\ notes \in Seq(Version) /\ moneyPage \in MoneyPage
  BY MoneyAssumption DEF LoadsTyped, Raise, Version
<1>2. /\ notes' \in Seq(Version)
      /\ Told => Len(notes') = Len(notes) + 1 /\ notes'[Len(notes')] = ledger'
                 /\ \A i \in 1 .. Len(notes) : notes'[i] = notes[i]
  BY <1>1 DEF Told
<1>3. /\ asked' \in [Part -> 0 .. MaxAsked]
      /\ \A p \in Part \ PartsOf(moneyPage) : asked'[p] = asked[p]
      /\ moneyPage = "kid" /\ partsShown["account"] = NotYet => asked'["history"] = asked["history"]
  BY ReloadAsks DEF LoadsTyped
<1>4. LoadsTyped'
  BY <1>1, <1>2, <1>3 DEF LoadsTyped
<1>5. NothingNewer'
  <2>1. \A p \in Part : \A v \in answers'[p] : v <= ledger'
    BY <1>1 DEF NothingNewer, LoadsTyped, Version
  <2>2. \A i \in 1 .. Len(notes') : notes'[i] <= ledger'
    <3> SUFFICES ASSUME NEW i \in 1 .. Len(notes') PROVE notes'[i] <= ledger'
      OBVIOUS
    <3>1. \A j \in 1 .. Len(notes) : notes[j] <= ledger /\ notes[j] \in Nat
      <4>1. \A j \in 1 .. Len(notes) : notes[j] \in Version
        BY <1>1
      <4> QED
        BY <4>1 DEF NothingNewer, Version
    <3>2. CASE Told
      <4>1. Len(notes) \in Nat /\ (i \in 1 .. Len(notes) \/ i = Len(notes'))
        BY <1>1, <1>2, <3>2
      <4> QED
        BY <1>1, <1>2, <3>1, <3>2, <4>1
    <3>3. CASE UNCHANGED notes
      BY <1>1, <3>1, <3>3
    <3> QED
      BY <3>2, <3>3
  <2> QED
    BY <2>1, <2>2 DEF NothingNewer
<1>6. OwnParts'
  BY <1>3 DEF OwnParts, Untold, Part
<1>7. CurrentOrComing'
  <2> SUFFICES ASSUME ~blind' PROVE /\ \A p \in Part : Coming(p)'
                                    /\ moneyPage = "list" /\ notes' # <<>> => LastNote'
    BY DEF CurrentOrComing
  <2>1. CASE moneyPage # "store"
    <3>1. notes' # <<>> /\ LastNote'
      BY <1>1, <1>2, <2>1 DEF LastNote
    <3> QED
      BY <1>1, <2>1, <3>1 DEF Coming, MoneyPage
  <2>2. CASE moneyPage = "store"
    <3>1. \A p \in Part : asked'[p] > 0 \/ Untold(p)
      BY <2>2, ReloadAsks DEF OwnParts
    <3> QED
      BY <2>2, <3>1 DEF Coming, Untold
  <2> QED
    BY <2>1, <2>2
<1> QED
  BY <1>4, <1>5, <1>6, <1>7

\* A read that is served brings the version of the ledger as it is now.
LEMMA ServeKeeps ==
  ASSUME LoadsInv, NEW p \in Part, Serve(p)
  PROVE  LoadsInv'
<1> USE DEF LoadsInv
<1>1. /\ UNCHANGED <<editGoing, moneyPage, ledger, partsShown, notes, blind>>
      /\ asked' \in [Part -> 0 .. MaxAsked] /\ answers' \in [Part -> SUBSET Version]
      /\ asked[p] > 0 /\ answers'[p] = answers[p] \cup {ledger}
      /\ \A q \in Part \ {p} : asked'[q] = asked[q] /\ answers'[q] = answers[q]
  BY MoneyAssumption DEF Serve, LoadsTyped
<1>2. LoadsTyped' /\ NothingNewer'
  BY <1>1 DEF LoadsTyped, NothingNewer, Version
<1>3. OwnParts'
  <2>1. ~Untold(p)
    BY <1>1 DEF Untold
  <2> QED
    BY <1>1, <2>1 DEF OwnParts, Untold, Part
<1>4. CurrentOrComing'
  BY <1>1 DEF CurrentOrComing, Coming, LastNote
<1> QED
  BY <1>2, <1>3, <1>4

\* A read that fails leaves the page blind.
LEMMA LoadFailsKeeps ==
  ASSUME LoadsInv, NEW p \in Part, LoadFails(p)
  PROVE  LoadsInv'
<1> USE DEF LoadsInv
<1>1. /\ UNCHANGED <<editGoing, moneyPage, ledger, partsShown, notes, answers>> /\ blind' = TRUE
      /\ asked' \in [Part -> 0 .. MaxAsked] /\ asked[p] > 0
      /\ \A q \in Part \ {p} : asked'[q] = asked[q]
  BY MoneyAssumption DEF LoadFails, LoadsTyped
<1>2. LoadsTyped' /\ NothingNewer' /\ CurrentOrComing'
  BY <1>1 DEF LoadsTyped, NothingNewer, CurrentOrComing
<1>3. OwnParts'
  <2>1. ~Untold(p)
    BY <1>1 DEF Untold
  <2> QED
    BY <1>1, <2>1 DEF OwnParts, Untold, Part
<1> QED
  BY <1>2, <1>3

\* An answer that is applied; an older one may overtake a newer one.
LEMMA AnsweredKeeps ==
  ASSUME LoadsInv, NEW p \in Part, NEW v \in answers[p], PartAnswered(p, v)
  PROVE  LoadsInv'
<1> USE DEF LoadsInv
<1>1. /\ UNCHANGED <<editGoing, moneyPage, ledger, notes>> /\ v \in Version
      /\ answers' \in [Part -> SUBSET Version] /\ answers'[p] = answers[p] \ {v}
      /\ \A q \in Part \ {p} : answers'[q] = answers[q]
      /\ partsShown' \in [Part -> Version \cup {NotYet}] /\ partsShown'[p] = v
      /\ \A q \in Part \ {p} : partsShown'[q] = partsShown[q]
  BY DEF PartAnswered, LoadsTyped
<1>2. /\ asked' \in [Part -> 0 .. MaxAsked]
      /\ \A q \in Part : asked[q] > 0 => asked'[q] > 0
      /\ \A q \in Part : q # "history" => asked'[q] = asked[q]
      /\ moneyPage # "kid" \/ p # "account" => asked'["history"] = asked["history"]
  <2>1. CASE moneyPage = "kid" /\ p = "account"
    <3>1. Ask({"history"}) /\ {"history"} \subseteq Part
      BY <2>1 DEF PartAnswered, Part
    <3> QED
      BY <2>1, <3>1, AskIs
  <2>2. CASE ~(moneyPage = "kid" /\ p = "account")
    BY <2>2 DEF PartAnswered, LoadsTyped
  <2> QED
    BY <2>1, <2>2
<1>3. (blind' <=> blind \/ Older(p, v)) /\ blind' \in BOOLEAN
  BY DEF PartAnswered, LoadsTyped, Older
<1>4. LoadsTyped'
  BY <1>1, <1>2, <1>3 DEF LoadsTyped
<1>5. NothingNewer'
  BY <1>1 DEF NothingNewer
<1>6. OwnParts'
  <2>1. ~Untold(p) /\ v # NotYet
    BY <1>1, MoneyAssumption DEF Untold, Version
  <2>2. \A q \in Part : Untold(q) /\ asked'[q] = asked[q] => Untold(q)'
    BY <1>1, <2>1 DEF Untold
  <2> QED
    BY <1>1, <1>2, <2>1, <2>2 DEF OwnParts, PartsOf, Part
<1>7. CurrentOrComing'
  <2> SUFFICES ASSUME ~blind', NEW q \in Part PROVE Coming(q)'
    BY <1>1, <1>3 DEF CurrentOrComing, LastNote
  <2>1. Coming(q) /\ ~Older(p, v)
    BY <1>3 DEF CurrentOrComing
  <2>2. CASE q # p
    BY <1>1, <1>2, <2>1, <2>2 DEF Coming, LastNote
  <2>3. CASE q = p /\ v = ledger
    BY <1>1, <2>3 DEF Coming
  <2>4. CASE q = p /\ v # ledger
    <3>1. v < ledger /\ ledger \in Nat
      BY <1>1, <2>4 DEF NothingNewer, Version, LoadsTyped
    <3>2. partsShown[p] # ledger
      BY <2>1, <3>1, MoneyAssumption DEF Older
    <3> QED
      BY <1>1, <1>2, <2>1, <2>4, <3>2 DEF Coming, LastNote
  <2> QED
    BY <2>2, <2>3, <2>4
<1> QED
  BY <1>4, <1>5, <1>6, <1>7

\* A message: the list takes what it carries, a kid's page reads again.
LEMMA NotedKeeps ==
  ASSUME LoadsInv, Noted
  PROVE  LoadsInv'
<1> USE DEF LoadsInv
<1>1. /\ UNCHANGED <<editGoing, moneyPage, ledger, answers>> /\ moneyPage \in MoneyPage
      /\ notes \in Seq(Version) /\ notes # <<>> /\ notes' = Tail(notes)
      /\ ledger \in Nat
  BY DEF Noted, LoadsTyped, Version
<1>2. /\ notes' \in Seq(Version) /\ Len(notes) \in Nat \ {0} /\ Len(notes') = Len(notes) - 1
      /\ \A i \in 1 .. Len(notes') : notes'[i] = notes[i + 1]
      /\ Head(notes) = notes[1] /\ notes[1] \in Version /\ notes[1] <= ledger
  BY <1>1 DEF NothingNewer
<1>3. \A i \in 1 .. Len(notes') : notes'[i] <= ledger
  <2> SUFFICES ASSUME NEW i \in 1 .. Len(notes') PROVE notes'[i] <= ledger
    OBVIOUS
  <2>1. i + 1 \in 1 .. Len(notes)
    BY <1>2
  <2> QED
    BY <1>2, <2>1 DEF NothingNewer
<1>4. CASE moneyPage = "list"
  <2>1. /\ asked' = asked /\ partsShown' \in [Part -> Version \cup {NotYet}]
        /\ partsShown'["account"] = notes[1]
        /\ \A q \in Part : q # "account" => partsShown'[q] = partsShown[q]
    BY <1>1, <1>2, <1>4 DEF Noted, LoadsTyped, Part
  <2>2. (blind' <=> blind \/ Older("account", notes[1])) /\ blind' \in BOOLEAN
    BY <1>2, <1>4 DEF Noted, LoadsTyped, Older
  <2>3. LoadsTyped' /\ NothingNewer'
    BY <1>1, <1>2, <1>3, <2>1, <2>2 DEF LoadsTyped, NothingNewer
  <2>4. OwnParts'
    BY <1>1, <1>4, <2>1 DEF OwnParts, Untold, PartsOf, Part
  <2>5. CurrentOrComing'
    <3> SUFFICES ASSUME ~blind' PROVE /\ \A q \in Part : Coming(q)'
                                      /\ notes' # <<>> => LastNote'
      BY <1>1 DEF CurrentOrComing
    <3>1. LastNote /\ \A q \in Part : Coming(q)
      BY <1>1, <1>4, <2>2 DEF CurrentOrComing
    <3>2. notes' # <<>> => LastNote'
      BY <1>1, <1>2, <3>1 DEF LastNote
    <3>3. notes' = <<>> => notes[1] = ledger
      <4>1. notes' = <<>> => Len(notes) = 1
        BY <1>2
      <4> QED
        BY <4>1, <3>1 DEF LastNote
    <3>4. \A q \in Part : q # "account" => Coming(q)'
      BY <1>1, <1>4, <2>1, <3>1, <3>2, <3>3 DEF OwnParts, PartsOf, Untold, Coming
    <3>5. Coming("account")'
      BY <1>1, <1>4, <2>1, <3>2, <3>3 DEF Coming
    <3> QED
      BY <3>2, <3>4, <3>5
  <2> QED
    BY <2>3, <2>4, <2>5
<1>5. CASE moneyPage = "kid"
  <2>1. ReloadParts /\ UNCHANGED <<partsShown, blind>>
    BY <1>5 DEF Noted, LoadsTyped
  <2>2. LoadsTyped' /\ NothingNewer'
    BY <1>1, <1>2, <1>3, <2>1, ReloadAsks DEF LoadsTyped, NothingNewer
  <2>3. OwnParts'
    BY <1>1, <2>1, ReloadAsks DEF OwnParts, Untold
  <2>4. \A q \in Part : asked'[q] > 0 \/ Untold(q)
    BY <2>1, ReloadAsks DEF OwnParts
  <2>5. CurrentOrComing'
    BY <1>1, <1>5, <2>1, <2>4 DEF CurrentOrComing, Coming, Untold
  <2> QED
    BY <2>2, <2>3, <2>5
<1>6. CASE moneyPage = "store"
  <2>1. UNCHANGED <<partsShown, asked, blind>>
    BY <1>6 DEF Noted, LoadsTyped
  <2>2. LoadsTyped' /\ NothingNewer' /\ OwnParts'
    BY <1>1, <1>2, <1>3, <2>1 DEF LoadsTyped, NothingNewer, OwnParts, Untold
  <2>3. CurrentOrComing'
    BY <1>1, <1>6, <2>1 DEF CurrentOrComing, Coming
  <2> QED
    BY <2>2, <2>3
<1> QED
  BY <1>1, <1>4, <1>5, <1>6 DEF MoneyPage

\* A message that is lost leaves the page blind.
LEMMA NoteLostKeeps ==
  ASSUME LoadsInv, NoteLost
  PROVE  LoadsInv'
<1> USE DEF LoadsInv
<1>1. /\ UNCHANGED <<editGoing, moneyPage, ledger, partsShown, asked, answers>> /\ blind' = TRUE
      /\ notes \in Seq(Version) /\ notes # <<>> /\ notes' = Tail(notes)
  BY DEF NoteLost, LoadsTyped
<1>2. /\ notes' \in Seq(Version) /\ Len(notes) \in Nat \ {0} /\ Len(notes') = Len(notes) - 1
      /\ \A i \in 1 .. Len(notes') : notes'[i] = notes[i + 1]
  BY <1>1
<1>3. \A i \in 1 .. Len(notes') : notes'[i] <= ledger
  <2> SUFFICES ASSUME NEW i \in 1 .. Len(notes') PROVE notes'[i] <= ledger
    OBVIOUS
  <2>1. i + 1 \in 1 .. Len(notes)
    BY <1>2
  <2> QED
    BY <1>2, <2>1 DEF NothingNewer
<1> QED
  BY <1>1, <1>2, <1>3 DEF LoadsTyped, NothingNewer, OwnParts, Untold, CurrentOrComing

\* Every step of a money page keeps its reads in order.
LEMMA LoadsStep ==
  ASSUME LoadsInv, [MoneyNext]_moneyVars
  PROVE  LoadsInv'
<1> USE DEF LoadsInv
<1>1. CASE ChangedElsewhere \/ PaidSilently \/ EditAnswered \/ \E o \in Opening : PostAnswered(o)
  <2>1. moneyPage = "list" => ~EditAnswered
    BY DEF OwnParts, EditAnswered
  <2>2. /\ Raise /\ UNCHANGED <<moneyPage, partsShown, answers>>
        /\ editGoing' \in BOOLEAN /\ (moneyPage = "list" => ~editGoing')
        /\ blind' \in BOOLEAN /\ (blind => blind')
        /\ (UNCHANGED notes \/ Told) /\ (UNCHANGED asked \/ ReloadParts)
        /\ (~blind' => IF moneyPage = "store" THEN ReloadParts ELSE Told)
    <3>1. moneyPage \in MoneyPage /\ editGoing \in BOOLEAN /\ blind \in BOOLEAN
          /\ (moneyPage = "list" => ~editGoing)
      BY DEF OwnParts, LoadsTyped
    <3>2. CASE ChangedElsewhere
      BY <3>1, <3>2 DEF ChangedElsewhere
    <3>3. CASE PaidSilently
      BY <3>1, <3>3 DEF PaidSilently
    <3>4. CASE EditAnswered
      BY <2>1, <3>1, <3>4 DEF EditAnswered, EditTold, MoneyPage
    <3>5. CASE \E o \in Opening : PostAnswered(o)
      BY <3>1, <3>5 DEF PostAnswered
    <3> QED
      BY <1>1, <3>2, <3>3, <3>4, <3>5
  <2> QED
    BY <2>2, RaiseKeeps
<1>2. CASE UNCHANGED <<moneyPage, ledger, partsShown, asked, answers, notes, blind>>
           /\ editGoing' \in BOOLEAN /\ (moneyPage = "list" => ~editGoing')
  BY <1>2 DEF LoadsTyped, NothingNewer, OwnParts, Untold, CurrentOrComing, Coming, LastNote
<1>3. CASE EditFails
  <2>1. moneyPage # "list" /\ editGoing' = FALSE
        /\ UNCHANGED <<moneyPage, partsShown, asked, answers>>
    BY <1>3 DEF EditFails, OwnParts
  <2>2. CASE UNCHANGED <<ledger, notes, blind>>
    BY <1>2, <2>1, <2>2
  <2>3. CASE Raise /\ EditTold /\ blind' = (blind \/ moneyPage = "store")
    BY <2>1, <2>3, RaiseKeeps DEF EditTold, LoadsTyped, MoneyPage
  <2> QED
    BY <1>3, <2>2, <2>3 DEF EditFails
<1>4. ASSUME NEW o \in Opening, PostFails(o)
      PROVE  LoadsInv'
  <2>1. UNCHANGED <<editGoing, moneyPage, partsShown, asked, answers>>
    BY <1>4 DEF PostFails
  <2>2. CASE UNCHANGED <<ledger, notes, blind>>
    BY <1>2, <2>1, <2>2 DEF LoadsTyped, OwnParts
  <2>3. CASE Raise /\ Told /\ blind' = (blind \/ moneyPage = "store")
    BY <2>1, <2>3, RaiseKeeps DEF LoadsTyped, MoneyPage, OwnParts
  <2> QED
    BY <1>4, <2>2, <2>3 DEF PostFails
<1>5. CASE SendEdit \/ OpenDialogue \/ CloseDialogue \/ Submit \/ (\E o \in Opening : Uploaded(o))
           \/ UNCHANGED moneyVars
  <2>1. editGoing \in BOOLEAN /\ (moneyPage = "list" => ~editGoing)
    BY DEF LoadsTyped, OwnParts
  <2>2. CASE SendEdit
    BY <1>2, <2>2 DEF SendEdit
  <2>3. CASE OpenDialogue \/ CloseDialogue \/ Submit
    BY <1>2, <2>1, <2>3 DEF OpenDialogue, CloseDialogue, Submit
  <2>4. CASE (\E o \in Opening : Uploaded(o)) \/ UNCHANGED moneyVars
    BY <1>2, <2>1, <2>4 DEF Uploaded, moneyVars
  <2> QED
    BY <1>5, <2>2, <2>3, <2>4
<1> QED
  BY <1>1, <1>3, <1>4, <1>5, ServeKeeps, LoadFailsKeeps, AnsweredKeeps, NotedKeeps, NoteLostKeeps
  DEF MoneyNext, Opening

\* The invariant of the money pages.
LEMMA MoneyInvariant == MoneySpec => [](AwardInv /\ LoadsInv)
  BY AwardInit, AwardStep, LoadsInit, LoadsStep, PTL DEF MoneySpec

\* The types of the pages of the currency.
THEOREM MoneyTypeCorrect == MoneySpec => []MoneyTypeOK
<1>1. AwardInv /\ LoadsInv => MoneyTypeOK
  <2> SUFFICES ASSUME AwardInv, LoadsInv PROVE MoneyTypeOK
    OBVIOUS
  <2>1. {uploading, posting} \subseteq [1 .. MaxOpened[moneyPage] -> 0 .. 1]
    BY DEF AwardInv, AwardsTyped, OnePost, OneOf, Opening
  <2> QED
    BY <2>1 DEF AwardInv, AwardsTyped, LoadsInv, LoadsTyped, MoneyTypeOK
<1> QED
  BY <1>1, MoneyInvariant, PTL

\* A page of the currency on which nothing is under way shows the ledger as it is,
\* whatever was changed, told, asked and answered, unless it went blind to a change.
THEOREM MoneyIsCurrent == MoneySpec => []QuietPageIsCurrent
<1>1. LoadsInv => QuietPageIsCurrent
  BY DEF LoadsInv, QuietPageIsCurrent, Quiet, CurrentOrComing, Coming, LastNote, LoadsTyped
<1> QED
  BY <1>1, MoneyInvariant, PTL

-----------------------------------------------------------------------------
(***************************************************************************)
(* The form of the settings.  A save that is on its way writes what the    *)
(* server has, but for what was typed before it was pressed (SaveIsKind);  *)
(* a later save has everything in it that an earlier one was typed         *)
(* (LaterOwnsMore), so that in their order they do no harm to each other.  *)
(***************************************************************************)
SaveRequest == [no : 1 .. pressed, button : Button, values : [Setting -> Value],
                own : SUBSET Setting, test : BOOLEAN]

FormTyped ==
    /\ settings \in [Setting -> Value] /\ fields \in [Setting -> Value]
    /\ settingsRead \in {"asked", "read", "failed"} /\ testing \in {"no", "save", "status"}
    /\ verdict \in {"none", "connected", "failed"} /\ busy \subseteq Button
    /\ saves \subseteq SaveRequest /\ pressed \in 0 .. MaxSaves /\ newest \in 0 .. pressed
    /\ lastTyped \in 1 .. MaxTyped + 1 /\ testedFor \in Value
    /\ mine \subseteq Setting /\ theirs \subseteq Setting
    /\ blank \in BOOLEAN /\ late \in BOOLEAN /\ disturbed \in BOOLEAN

\* No two saves have the same number, and the newest one written has gone.
SavesDiffer ==
    /\ \A v, w \in saves : v.no = w.no => v = w
    /\ \A w \in saves : w.no # newest

\* Before the settings were read nothing was sent, or the form is blank.
ReadFirst == settingsRead # "read" /\ ~blank => saves = {} /\ wiped = {}

LaterOwnsMore ==
    ~blank => \A v, w \in saves : /\ v.own \subseteq mine
                                  /\ v.no < w.no => v.own \subseteq w.own

FormIsKind ==
    ~blank /\ ~late /\ settingsRead = "read" =>
        \A s \in Setting \ (mine \cup theirs) : fields[s] = settings[s]

SaveIsKind ==
    ~blank /\ ~late => \A w \in saves : w.no > newest =>
        \A s \in Setting \ (w.own \cup theirs) : w.values[s] = settings[s]

SavesInv == FormTyped /\ SavesDiffer /\ ReadFirst /\ LaterOwnsMore /\ FormIsKind /\ SaveIsKind
            /\ UntouchedIsKept

\* The save of a test is the only one of its kind, and its test goes on.
TestKnown ==
    /\ \A w \in saves : w.test => /\ testing = "save" /\ w.button = "all"
                                  /\ w.values["frigate"] = testedFor
    /\ \A v, w \in saves : v.test /\ w.test => v = w
    /\ testing = "status" => settings["frigate"] = testedFor \/ disturbed
    /\ TestIsOfTheForm

\* The form opens with the settings asked for and nothing sent.
LEMMA FormInit == SettingsInit => SavesInv /\ TestKnown
<1> SUFFICES ASSUME SettingsInit PROVE SavesInv /\ TestKnown
  OBVIOUS
<1>1. FormTyped
  <2>1. /\ pressed \in 0 .. MaxSaves /\ newest \in 0 .. pressed
        /\ lastTyped \in 1 .. MaxTyped + 1 /\ testedFor \in Value /\ 0 \in Value /\ 1 \in Value
    BY SettingsFormAssumption DEF SettingsInit, Value
  <2>2. settings \in [Setting -> Value] /\ fields \in [Setting -> Value]
    BY <2>1 DEF SettingsInit
  <2> QED
    BY <2>1, <2>2 DEF SettingsInit, FormTyped
<1>2. SavesDiffer /\ ReadFirst /\ LaterOwnsMore /\ FormIsKind /\ SaveIsKind /\ UntouchedIsKept
  BY DEF SettingsInit, SavesDiffer, ReadFirst, LaterOwnsMore, FormIsKind, SaveIsKind,
         UntouchedIsKept
<1>3. TestKnown
  BY DEF SettingsInit, TestKnown, TestIsOfTheForm
<1> QED
  BY <1>1, <1>2, <1>3 DEF SavesInv

\* A button is pressed.
LEMMA SendKeeps ==
  ASSUME SavesInv, NEW b \in Button, Send(b), testing' \in {"no", "save", "status"},
         verdict' \in {"none", "connected", "failed"}, testedFor' \in Value, disturbed' \in BOOLEAN,
         UNCHANGED <<settings, fields, settingsRead, lastTyped, mine, theirs, newest, late, wiped>>
  PROVE  SavesInv'
<1> USE DEF SavesInv
<1> DEFINE w == [no |-> pressed', button |-> b, values |-> fields, own |-> mine,
                 test |-> testing' = "save" /\ testing = "no"]
<1>1. /\ pressed \in Nat /\ pressed' = pressed + 1 /\ pressed' \in 0 .. MaxSaves
      /\ newest \in 0 .. pressed /\ saves \subseteq SaveRequest
  BY SettingsFormAssumption DEF Send, FormTyped
<1>2. /\ w.no = pressed + 1 /\ w.values = fields /\ w.own = mine
      /\ saves' = saves \cup {w} /\ w \in SaveRequest'
  <2>1. w \in SaveRequest'
    BY <1>1 DEF SaveRequest, FormTyped, Send
  <2> QED
    BY <1>1, <2>1 DEF Send
<1>3. \A v \in saves : v \in SaveRequest' /\ v.no < w.no
  BY <1>1, <1>2 DEF SaveRequest
<1>4. FormTyped'
  <2>1. saves' \subseteq SaveRequest'
    BY <1>2, <1>3
  <2> QED
    BY <1>1, <2>1 DEF FormTyped, Send
<1>5. SavesDiffer'
  BY <1>1, <1>2, <1>3 DEF SavesDiffer
<1>6. ~blank' => ~blank /\ settingsRead = "read"
  BY DEF Send, FormTyped
<1>7. ReadFirst' /\ FormIsKind' /\ UntouchedIsKept'
  BY <1>6 DEF ReadFirst, FormIsKind, UntouchedIsKept
<1>8. LaterOwnsMore'
  BY <1>2, <1>3, <1>6, <1>1 DEF LaterOwnsMore, SaveRequest
<1>9. SaveIsKind'
  BY <1>2, <1>6 DEF SaveIsKind, FormIsKind
<1> QED
  BY <1>4, <1>5, <1>7, <1>8, <1>9

\* The server writes a save.
LEMMA WrittenKeeps ==
  ASSUME SavesInv, NEW w \in saves, saves' = saves \ {w}, Written(w),
         testing' \in {"no", "save", "status"}, verdict' \in {"none", "connected", "failed"},
         busy' = busy \ {w.button},
         UNCHANGED <<fields, settingsRead, pressed, lastTyped, testedFor, mine, theirs, blank>>
  PROVE  SavesInv'
<1> USE DEF SavesInv
<1>1. /\ w.no \in 1 .. pressed /\ pressed \in Nat /\ newest \in Nat /\ w.no # newest
      /\ w.own \subseteq Setting /\ w.values \in [Setting -> Value]
      /\ saves \subseteq SaveRequest /\ \A v \in saves : v.no \in Nat
  BY DEF FormTyped, SaveRequest, SavesDiffer
<1>2. /\ settings' \in [Setting -> Value]
      /\ \A s \in Setting : settings'[s] = IF s \in Writes(w.button) THEN w.values[s] ELSE settings[s]
      /\ newest' = (IF w.no > newest THEN w.no ELSE newest)
      /\ late' = (late \/ w.no < newest)
      /\ disturbed' \in BOOLEAN
      /\ wiped' = wiped \cup {s \in Writes(w.button) \ w.own : w.values[s] # settings[s]}
  BY <1>1 DEF Written, FormTyped
<1>3. Writes(w.button) \subseteq Setting
  BY DEF Writes, FormTyped, SaveRequest, Button, Setting
<1>4. FormTyped'
  BY <1>1, <1>2 DEF FormTyped, SaveRequest
<1>5. SavesDiffer'
  BY <1>1, <1>2 DEF SavesDiffer
<1>6. LaterOwnsMore'
  BY DEF LaterOwnsMore
<1>7. ASSUME ~blank', ~late'
      PROVE  /\ ~blank /\ ~late /\ w.no > newest /\ newest' = w.no
             /\ \A s \in Setting \ (w.own \cup theirs) : settings'[s] = settings[s]
                                                         /\ w.values[s] = settings[s]
  <2>1. ~late /\ ~(w.no < newest)
    BY <1>2, <1>7
  <2>2. w.no > newest
    BY <1>1, <2>1
  <2>3. newest' = w.no
    BY <1>2, <2>2
  <2>4. \A s \in Setting \ (w.own \cup theirs) : w.values[s] = settings[s]
    BY <1>7, <2>1, <2>2 DEF SaveIsKind
  <2> QED
    BY <1>2, <1>7, <2>1, <2>2, <2>3, <2>4
<1>8. ReadFirst'
  BY DEF ReadFirst
<1>9. FormIsKind'
  <2>1. ~blank => w.own \subseteq mine
    BY DEF LaterOwnsMore
  <2> QED
    BY <1>7, <2>1 DEF FormIsKind
<1>10. SaveIsKind'
  <2> SUFFICES ASSUME ~blank', ~late', NEW v \in saves', v.no > newest',
                      NEW s \in Setting \ (v.own \cup theirs)
               PROVE  v.values[s] = settings'[s]
    BY DEF SaveIsKind
  <2>1. w.no < v.no /\ v \in saves
    BY <1>1, <1>7
  <2>2. s \notin w.own
    BY <1>7, <2>1 DEF LaterOwnsMore
  <2>3. v.no > newest
    BY <1>1, <1>7, <2>1
  <2> QED
    BY <1>7, <2>1, <2>2, <2>3 DEF SaveIsKind
<1>11. UntouchedIsKept'
  BY <1>2, <1>3, <1>7 DEF UntouchedIsKept
<1> QED
  BY <1>4, <1>5, <1>6, <1>8, <1>9, <1>10, <1>11

\* What is typed here becomes the form's own, what another adult types is theirs.
LEMMA TypingKeeps ==
  ASSUME SavesInv, NEW s \in Setting, Type(s) \/ AnotherAdult(s)
  PROVE  SavesInv'
<1> USE DEF SavesInv
<1>1. /\ UNCHANGED <<settingsRead, saves, busy, pressed, testing, testedFor, verdict, blank,
                     newest, late, wiped>>
      /\ lastTyped' \in 1 .. MaxTyped + 1 /\ lastTyped' \in Value /\ disturbed' \in BOOLEAN
  <2>1. /\ UNCHANGED <<settingsRead, saves, busy, pressed, testing, testedFor, verdict, blank,
                       newest, late, wiped>>
        /\ lastTyped <= MaxTyped /\ lastTyped' = lastTyped + 1
    BY DEF Type, AnotherAdult
  <2>2. lastTyped' \in 1 .. MaxTyped + 1 /\ lastTyped' \in Value
    BY SettingsFormAssumption, <2>1 DEF FormTyped, Value
  <2>3. Type(s) => disturbed' = disturbed
    BY DEF Type, testHistory
  <2>4. AnotherAdult(s) => disturbed' \in BOOLEAN
    BY DEF AnotherAdult
  <2> QED
    BY <2>1, <2>2, <2>3, <2>4 DEF FormTyped
<1>2. CASE Type(s)
  <2>1. /\ UNCHANGED <<settings, theirs>> /\ mine' = mine \cup {s}
        /\ fields' \in [Setting -> Value] /\ \A t \in Setting \ {s} : fields'[t] = fields[t]
    BY <1>1, <1>2 DEF Type, FormTyped
  <2> QED
    BY <1>1, <2>1 DEF FormTyped, SaveRequest, SavesDiffer, ReadFirst, LaterOwnsMore, FormIsKind,
                      SaveIsKind, UntouchedIsKept
<1>3. CASE AnotherAdult(s)
  <2>1. /\ UNCHANGED <<fields, mine>> /\ theirs' = theirs \cup {s}
        /\ settings' \in [Setting -> Value] /\ \A t \in Setting \ {s} : settings'[t] = settings[t]
    BY <1>1, <1>3 DEF AnotherAdult, FormTyped
  <2> QED
    BY <1>1, <2>1 DEF FormTyped, SaveRequest, SavesDiffer, ReadFirst, LaterOwnsMore, FormIsKind,
                      SaveIsKind, UntouchedIsKept
<1> QED
  BY <1>2, <1>3

\* The settings arrive, or do not.
LEMMA ArriveKeeps ==
  ASSUME SavesInv, SettingsArrive \/ SettingsLost
  PROVE  SavesInv'
  BY DEF SavesInv, SettingsArrive, SettingsLost, testHistory, FormTyped, SaveRequest, SavesDiffer,
         ReadFirst, LaterOwnsMore, FormIsKind, SaveIsKind, UntouchedIsKept

\* A save that fails before the server has written it, or the end of a test.
LEMMA LostSaveKeeps ==
  ASSUME SavesInv, saves' \subseteq saves, busy' \subseteq busy,
         testing' \in {"no", "save", "status"}, verdict' \in {"none", "connected", "failed"},
         UNCHANGED <<settings, fields, settingsRead, pressed, lastTyped, testedFor, mine, theirs,
                     blank, newest, late, disturbed, wiped>>
  PROVE  SavesInv'
  BY DEF SavesInv, FormTyped, SaveRequest, SavesDiffer, ReadFirst, LaterOwnsMore, FormIsKind,
         SaveIsKind,
         UntouchedIsKept

\* Every step of the form keeps its saves in order.
LEMMA SavesStep ==
  ASSUME SavesInv, [SettingsNext]_formStateVars
  PROVE  SavesInv'
<1>1. /\ testing \in {"no", "save", "status"} /\ verdict \in {"none", "connected", "failed"}
      /\ testedFor \in Value /\ disturbed \in BOOLEAN /\ fields["frigate"] \in Value
      /\ \A w \in saves : w.button \in Button /\ w.test \in BOOLEAN
  BY DEF SavesInv, FormTyped, SaveRequest, Setting
<1>2. ASSUME NEW b \in Button, PressSave(b)
      PROVE  SavesInv'
  BY <1>1, <1>2, SendKeeps DEF PressSave, testHistory
<1>3. CASE PressTest
  <2>1. "all" \in Button
    BY DEF Button
  <2> QED
    BY <1>1, <1>3, <2>1, SendKeeps DEF PressTest
<1>4. ASSUME NEW w \in saves, SaveAnswered(w)
      PROVE  SavesInv'
  BY <1>1, <1>4, WrittenKeeps DEF SaveAnswered
<1>5. ASSUME NEW w \in saves, SaveFails(w)
      PROVE  SavesInv'
  <2>1. /\ testing' \in {"no", "save", "status"} /\ verdict' \in {"none", "connected", "failed"}
        /\ saves' = saves \ {w} /\ busy' = busy \ {w.button}
        /\ UNCHANGED <<fields, settingsRead, pressed, lastTyped, testedFor, mine, theirs, blank>>
    BY <1>1, <1>5 DEF SaveFails
  <2>2. CASE Written(w)
    BY <2>1, <2>2, WrittenKeeps
  <2>3. CASE UNCHANGED <<settings, wiped, newest, late, disturbed>>
    BY <2>1, <2>3, LostSaveKeeps
  <2> QED
    BY <1>5, <2>2, <2>3 DEF SaveFails
<1>6. CASE StatusAnswered \/ UNCHANGED formStateVars
  <2>1. /\ UNCHANGED <<settings, fields, settingsRead, saves, busy, pressed, lastTyped, testedFor,
                       mine, theirs, blank, newest, late, disturbed, wiped>>
        /\ testing' \in {"no", "save", "status"} /\ verdict' \in {"none", "connected", "failed"}
    BY <1>1, <1>6 DEF StatusAnswered, formStateVars, testHistory
  <2> QED
    BY <2>1, LostSaveKeeps
<1> QED
  BY <1>2, <1>3, <1>4, <1>5, <1>6, TypingKeeps, ArriveKeeps DEF SettingsNext

\* Every step keeps what a test says true to the settings it was made of.
LEMMA TestStep ==
  ASSUME SavesInv, TestKnown, [SettingsNext]_formStateVars
  PROVE  TestKnown'
<1>1. /\ testing \in {"no", "save", "status"} /\ disturbed \in BOOLEAN
      /\ settings \in [Setting -> Value]
      /\ "frigate" \in Setting /\ saves \subseteq SaveRequest
      /\ \A w \in saves : /\ w.button \in Button /\ w.test \in BOOLEAN
                          /\ w.values \in [Setting -> Value]
  BY DEF SavesInv, FormTyped, SaveRequest, Setting
<1>2. CASE SettingsArrive \/ SettingsLost \/ UNCHANGED formStateVars
  BY <1>2 DEF SettingsArrive, SettingsLost, formStateVars, testHistory, TestKnown, TestIsOfTheForm
<1>3. ASSUME NEW s \in Setting, Type(s)
      PROVE  TestKnown'
  BY <1>3 DEF Type, testHistory, TestKnown, TestIsOfTheForm
<1>4. ASSUME NEW s \in Setting, AnotherAdult(s)
      PROVE  TestKnown'
  BY <1>1, <1>4 DEF AnotherAdult, TestKnown, TestIsOfTheForm
<1>5. ASSUME NEW b \in Button, PressSave(b)
      PROVE  TestKnown'
  <2> DEFINE w == [no |-> pressed', button |-> b, values |-> fields, own |-> mine,
                   test |-> testing' = "save" /\ testing = "no"]
  <2>1. saves' = saves \cup {w} /\ ~w.test
    BY <1>5 DEF PressSave, Send
  <2> QED
    BY <1>5, <2>1 DEF PressSave, testHistory, TestKnown, TestIsOfTheForm
<1>6. CASE PressTest
  <2> DEFINE w == [no |-> pressed', button |-> "all", values |-> fields, own |-> mine,
                   test |-> testing' = "save" /\ testing = "no"]
  <2>1. saves' = saves \cup {w} /\ w.button = "all" /\ w.values = fields
    BY <1>6 DEF PressTest, Send
  <2>2. \A v \in saves : ~v.test
    BY <1>6 DEF PressTest, TestKnown
  <2> QED
    BY <1>6, <2>1, <2>2 DEF PressTest, TestKnown, TestIsOfTheForm
<1>7. CASE StatusAnswered
  BY <1>1, <1>7 DEF StatusAnswered, TestKnown, TestIsOfTheForm
<1>8. ASSUME NEW w \in saves, Written(w)
      PROVE  /\ disturbed' \in BOOLEAN /\ (disturbed => disturbed')
             /\ testing = "status" => settings'["frigate"] = testedFor \/ disturbed'
             /\ w.test => settings'["frigate"] = testedFor
  <2>1. settings'["frigate"] = IF "frigate" \in Writes(w.button) THEN w.values["frigate"]
                                                                 ELSE settings["frigate"]
    BY <1>1, <1>8 DEF Written
  <2>2. w.test => w.button = "all" /\ w.values["frigate"] = testedFor /\ testing = "save"
    BY DEF TestKnown
  <2>3. "frigate" \in Writes("all")
    BY DEF Writes
  <2> QED
    BY <1>1, <1>8, <2>1, <2>2, <2>3 DEF Written, TestKnown
<1>9. ASSUME NEW w \in saves, SaveAnswered(w)
      PROVE  TestKnown'
  <2>1. /\ saves' = saves \ {w} /\ UNCHANGED <<testedFor, verdict, connectedTo>>
        /\ testing' = IF w.test THEN "status" ELSE testing
    BY <1>9 DEF SaveAnswered
  <2> QED
    BY <1>1, <1>8, <1>9, <2>1 DEF SaveAnswered, TestKnown, TestIsOfTheForm
<1>10. ASSUME NEW w \in saves, SaveFails(w)
       PROVE  TestKnown'
  <2>1. /\ saves' = saves \ {w} /\ UNCHANGED <<testedFor, connectedTo>>
        /\ IF w.test THEN testing' = "no" /\ verdict' = "failed" ELSE UNCHANGED <<testing, verdict>>
    BY <1>10 DEF SaveFails
  <2>2. CASE Written(w)
    BY <1>1, <1>8, <2>1, <2>2 DEF TestKnown, TestIsOfTheForm
  <2>3. CASE UNCHANGED <<settings, disturbed>>
    BY <1>1, <2>1, <2>3 DEF TestKnown, TestIsOfTheForm
  <2> QED
    BY <1>10, <2>2, <2>3 DEF SaveFails
<1> QED
  BY <1>2, <1>3, <1>4, <1>5, <1>6, <1>7, <1>9, <1>10 DEF SettingsNext

\* The invariant of the settings form.
LEMMA FormInvariant == SettingsSpec => [](SavesInv /\ TestKnown)
  BY FormInit, SavesStep, TestStep, PTL DEF SettingsSpec

\* The types of the form.
THEOREM FormTypeCorrect == SettingsSpec => []SettingsTypeOK
<1>1. SavesInv => SettingsTypeOK
  BY SettingsFormAssumption DEF SavesInv, FormTyped, SaveRequest, SettingsTypeOK
<1> QED
  BY <1>1, FormInvariant, PTL

\* What nobody typed on the form is not changed by its saves, short of a blank
\* form, saves that overtake one another, and what another adult changes.
THEOREM UntouchedKept == SettingsSpec => []UntouchedIsKept
  BY FormInvariant, PTL DEF SavesInv

\* "Connected to Frigate" is said of the settings the form held when the test was
\* started, unless something else wrote them meanwhile.
THEOREM TestOfTheForm == SettingsSpec => []TestIsOfTheForm
  BY FormInvariant, PTL DEF TestKnown

-----------------------------------------------------------------------------
(***************************************************************************)
(* The lists of the settings.                                              *)
(***************************************************************************)
Do == {"add", "wire", "edit", "change", "qr", "logout", "remove"}
ListRequest == [no : 1 .. sent, do : Do, kiosk : Kiosk \cup {NoKiosk}, form : 0 .. openings,
                sawQr : BOOLEAN, done : BOOLEAN]
Adds(r) == r.do \in {"add", "wire"}

ListsTyped ==
    /\ list \in Tab /\ sent \in Nat /\ openings \in 0 .. MaxForms /\ form \in 0 .. openings
    /\ adding \in BOOLEAN /\ answerLost \in BOOLEAN /\ made \in [1 .. MaxForms -> Nat]
    /\ requests \subseteq ListRequest

RequestsKnown ==
    \A r \in requests :
        /\ Adds(r) => r.form # 0
        /\ r.do = "wire" => list = "ai"
        /\ r.do \in {"qr", "logout", "remove"} => r.kiosk \in Kiosk
        /\ r.kiosk \in Kiosk => list = "kiosks"

RequestsInv == ListsTyped /\ RequestsKnown

\* No request is under way when a list is opened.
LEMMA RequestsInit == ListsInit => RequestsInv
<1> SUFFICES ASSUME ListsInit PROVE RequestsInv
  OBVIOUS
<1>1. sent \in Nat /\ openings \in 0 .. MaxForms /\ form \in 0 .. openings
  BY SettingsListsAssumption DEF ListsInit
<1> QED
  BY <1>1 DEF ListsInit, RequestsInv, ListsTyped, RequestsKnown

\* A press sends a request.
LEMMA RequestKeeps ==
  ASSUME RequestsInv, NEW do \in Do, NEW k \in Kiosk \cup {NoKiosk}, Request(do, k),
         UNCHANGED <<list, form, openings, made, answerLost>>, adding' \in BOOLEAN,
         do \in {"add", "wire"} => form # 0, do # "wire",
         do \in {"qr", "logout", "remove"} => k \in Kiosk, k \in Kiosk => list = "kiosks"
  PROVE  RequestsInv'
<1> USE DEF RequestsInv
<1> DEFINE r == [no |-> sent', do |-> do, kiosk |-> k, form |-> form, sawQr |-> qr # NoKiosk,
                 done |-> FALSE]
<1>1. sent \in Nat /\ sent' = sent + 1 /\ requests' = requests \cup {r}
  BY DEF Request, ListsTyped
<1>2. r \in ListRequest'
  BY <1>1 DEF ListRequest, ListsTyped
<1>3. requests \subseteq ListRequest'
  BY <1>1 DEF ListRequest, ListsTyped
<1>4. ListsTyped'
  <2> HIDE DEF r
  <2>1. sent' \in Nat /\ requests' \subseteq ListRequest'
    BY <1>1, <1>2, <1>3
  <2> QED
    BY <2>1 DEF ListsTyped
<1>5. RequestsKnown'
  BY <1>1 DEF RequestsKnown, Adds
<1> QED
  BY <1>4, <1>5

\* A request goes, or nothing was asked.
LEMMA RequestGone ==
  ASSUME RequestsInv, requests' \subseteq requests, sent' \in Nat, sent <= sent',
         UNCHANGED <<list, made>>, answerLost' \in BOOLEAN, adding' \in BOOLEAN,
         openings' \in openings .. MaxForms, form' \in 0 .. openings'
  PROVE  RequestsInv'
<1>1. requests' \subseteq ListRequest'
  BY DEF RequestsInv, ListsTyped, ListRequest
<1> QED
  BY <1>1 DEF RequestsInv, ListsTyped, RequestsKnown, Adds

\* A request has gone a step further.
LEMMA RequestMoves ==
  ASSUME RequestsInv, NEW r \in requests, NEW s, s \in ListRequest,
         requests' = (requests \ {r}) \cup {s},
         s.form = r.form, s.kiosk = r.kiosk, s.do = r.do \/ (Adds(r) /\ s.do = "wire" /\ list = "ai"),
         UNCHANGED <<list, sent, form, openings, adding, answerLost>>,
         made' \in [1 .. MaxForms -> Nat]
  PROVE  RequestsInv'
<1>1. requests' \subseteq ListRequest'
  BY DEF RequestsInv, ListsTyped, ListRequest
<1> QED
  BY <1>1 DEF RequestsInv, ListsTyped, RequestsKnown, Adds

\* Every step keeps the requests of a list typed and apart.
LEMMA RequestsStep ==
  ASSUME RequestsInv, [ListsNext]_listVars
  PROVE  RequestsInv'
<1>1. /\ list \in Tab /\ sent \in Nat /\ openings \in 0 .. MaxForms /\ form \in 0 .. openings
      /\ adding \in BOOLEAN /\ answerLost \in BOOLEAN /\ made \in [1 .. MaxForms -> Nat]
      /\ requests \subseteq ListRequest /\ MaxForms \in Nat /\ NoKiosk \notin Kiosk
      /\ \A r \in requests : r.done \in BOOLEAN
  BY SettingsListsAssumption DEF RequestsInv, ListsTyped, ListRequest
<1>2. ASSUME UNCHANGED <<list, requests, formVars, madeVars>>, sent' = sent \/ sent' = sent + 1
      PROVE  RequestsInv'
  BY <1>1, <1>2, RequestGone DEF formVars, madeVars
<1>3. CASE (\E l \in reads : Read(l) \/ ReadFails(l)) \/ OthersChange \/ OpenPopup \/ ShutPopup
           \/ TypeDraft \/ TryDraft \/ Tried \/ CloseQr
           \/ OpenSource \/ ShutSource \/ TypeSource \/ SourceSynced \/ UNCHANGED listVars
  BY <1>2, <1>3 DEF Read, ReadFails, OthersChange, OpenPopup, ShutPopup, TypeDraft, TryDraft,
                    Tried,
     CloseQr, OpenSource, ShutSource, TypeSource, SourceSynced, listVars
<1>4. CASE OpenForm \/ ShutForm
  <2>1. /\ UNCHANGED <<list, requests, made, answerLost, sent>> /\ adding' \in BOOLEAN
        /\ openings' \in openings .. MaxForms /\ form' \in 0 .. openings'
    <3>1. CASE OpenForm
      <4>1. openings + 1 \in openings .. MaxForms /\ openings + 1 \in 0 .. openings + 1
        BY <1>1, <3>1 DEF OpenForm
      <4> QED
        BY <1>1, <3>1, <4>1 DEF OpenForm, madeVars
    <3>2. CASE ShutForm
      BY <1>1, <3>2 DEF ShutForm, madeVars
    <3> QED
      BY <1>4, <3>1, <3>2
  <2> QED
    BY <1>1, <2>1, RequestGone
<1>5. CASE AddMember \/ CreateInvite \/ SaveSso \/ SaveAlbum \/ SaveProvider \/ AddSource
  <2>1. /\ Request("add", NoKiosk) /\ form # 0 /\ adding' \in BOOLEAN
        /\ UNCHANGED <<list, form, openings, made, answerLost>>
    BY <1>1, <1>5 DEF AddMember, CreateInvite, SaveSso, SaveAlbum, SaveProvider, AddSource,
       formVars, madeVars
  <2> QED
    BY <1>1, <2>1, RequestKeeps DEF Do
<1>6. CASE SavePopup \/ ChangeRow \/ SaveSource \/ RemoveSource
  <2>1. /\ Request("edit", NoKiosk) \/ Request("change", NoKiosk)
        /\ UNCHANGED <<list, form, openings, adding, made, answerLost>>
    BY <1>6 DEF SavePopup, ChangeRow, SaveSource, RemoveSource, formVars, madeVars
  <2> QED
    BY <1>1, <2>1, RequestKeeps DEF Do
<1>7. ASSUME NEW k \in Kiosk, CreateKiosk(k) \/ \E do \in {"qr", "logout", "remove"} : PressKiosk(k, do)
      PROVE  RequestsInv'
  <2>1. CASE CreateKiosk(k)
    <3>1. /\ Request("add", k) /\ form # 0 /\ adding' \in BOOLEAN /\ list = "kiosks"
          /\ UNCHANGED <<list, form, openings, made, answerLost>>
      BY <2>1 DEF CreateKiosk, madeVars
    <3> QED
      BY <1>1, <3>1, RequestKeeps DEF Do
  <2>2. ASSUME NEW do \in {"qr", "logout", "remove"}, PressKiosk(k, do)
        PROVE  RequestsInv'
    <3>1. /\ Request(do, k) /\ list = "kiosks"
          /\ UNCHANGED <<list, form, openings, adding, made, answerLost>>
      BY <2>2 DEF PressKiosk, formVars, madeVars
    <3>2. do \in Do /\ do \notin {"add", "wire"}
      BY DEF Do
    <3> QED
      BY <1>1, <3>1, <3>2, RequestKeeps
  <2> QED
    BY <1>7, <2>1, <2>2
<1>8. ASSUME NEW r \in requests,
             RequestFails(r) \/ PopupSaved(r) \/ RowChanged(r) \/ RowAdded(r) \/ SourceSaved(r)
             \/ SourceRemoved(r) \/ KioskCreated(r) \/ QrShown(r) \/ KioskChanged(r)
      PROVE  RequestsInv'
  <2>1. /\ requests' \subseteq requests /\ UNCHANGED <<list, sent, openings, made>>
        /\ answerLost' \in BOOLEAN /\ adding' \in BOOLEAN /\ form' \in {0, form}
    BY <1>1, <1>8 DEF RequestFails, PopupSaved, RowChanged, RowAdded, SourceSaved, SourceRemoved,
       KioskCreated, QrShown, KioskChanged, Answered, formVars, madeVars
  <2> QED
    BY <1>1, <2>1, RequestGone
<1>9. ASSUME NEW r \in requests, Commit(r)
      PROVE  RequestsInv'
  <2> DEFINE s == [r EXCEPT !.done = TRUE]
  <2>1. r \in ListRequest
    BY <1>1
  <2>2. s \in ListRequest /\ s.form = r.form /\ s.kiosk = r.kiosk /\ s.do = r.do
    BY <2>1 DEF ListRequest
  <2>3. made' \in [1 .. MaxForms -> Nat]
    <3>1. r.form \in 0 .. MaxForms
      BY <1>1, <2>1 DEF ListRequest
    <3>2. [made EXCEPT ![r.form] = @ + 1] \in [1 .. MaxForms -> Nat]
      <4>1. \A o \in 1 .. MaxForms : made[o] + 1 \in Nat
        BY <1>1
      <4> QED
        BY <1>1, <4>1
    <3> QED
      BY <1>1, <1>9, <3>2 DEF Commit
  <2> QED
    BY <1>9, <2>2, <2>3, RequestMoves DEF Commit, formVars
<1>10. ASSUME NEW r \in requests, ProviderMade(r)
       PROVE  RequestsInv'
  <2> DEFINE s == [r EXCEPT !.do = "wire", !.done = FALSE]
  <2>1. r \in ListRequest
    BY <1>1
  <2>2. s \in ListRequest /\ s.form = r.form /\ s.kiosk = r.kiosk /\ s.do = "wire"
    BY <2>1 DEF ListRequest, Do
  <2> QED
    BY <1>1, <1>10, <2>2, RequestMoves DEF ProviderMade, formVars, madeVars, Adds
<1> QED
  BY <1>3, <1>4, <1>5, <1>6, <1>7, <1>8, <1>9, <1>10 DEF ListsNext

-----------------------------------------------------------------------------
\* A list that is behind is read again: the answer to a change will ask for it, or
\* a read that has left will tell of everything.
Owes(r) == (r.done /\ r.do # "qr") \/ r.do = "wire"

ReadsTyped ==
    /\ atServer \in Nat /\ listed \in 0 .. atServer /\ unheard \in BOOLEAN
    /\ \A l \in reads : l.from \in 0 .. atServer

ListIsComing ==
    \/ listed = atServer \/ unheard
    \/ \E r \in requests : Owes(r)
    \/ \E l \in reads : l.from = atServer

ReadsInv == ReadsTyped /\ ListIsComing

\* The first read of a list is under way when it is opened.
LEMMA ReadsInit == ListsInit => ReadsInv
<1>1. ListsInit => ReadsTyped
  <2> DEFINE l == [no |-> 0, from |-> 0]
  <2>1. ListsInit => reads = {l} /\ l.from = 0
    BY DEF ListsInit
  <2> HIDE DEF l
  <2>2. ListsInit => atServer \in Nat /\ listed \in 0 .. atServer /\ 0 \in 0 .. atServer
    BY DEF ListsInit
  <2>3. ListsInit => unheard \in BOOLEAN
    BY DEF ListsInit
  <2> QED
    BY <2>1, <2>2, <2>3 DEF ReadsTyped
<1>2. ListsInit => ListIsComing
  BY DEF ListsInit, ListIsComing
<1> QED
  BY <1>1, <1>2 DEF ReadsInv

\* Every step keeps a list behind the server on its way to it.
LEMMA ReadsStep ==
  ASSUME RequestsInv, ReadsInv, [ListsNext]_listVars
  PROVE  ReadsInv'
<1> USE DEF ReadsInv
<1>1. /\ atServer \in Nat /\ listed \in 0 .. atServer /\ unheard \in BOOLEAN
      /\ \A r \in requests : r.done \in BOOLEAN
  BY DEF ReadsTyped, RequestsInv, ListsTyped, ListRequest
<1>2. ASSUME UNCHANGED readVars, \A r \in requests : Owes(r) => r \in requests'
      PROVE  ReadsInv'
  BY <1>2 DEF readVars, ReadsTyped, ListIsComing
<1>3. CASE OpenForm \/ ShutForm \/ OpenPopup \/ ShutPopup
           \/ TypeDraft \/ TryDraft \/ Tried \/ CloseQr
           \/ OpenSource \/ ShutSource \/ TypeSource \/ UNCHANGED listVars
  BY <1>2, <1>3 DEF OpenForm, ShutForm, OpenPopup, ShutPopup, TypeDraft, TryDraft, Tried,
     CloseQr, OpenSource, ShutSource, TypeSource, listVars
<1>4. CASE AddMember \/ CreateInvite \/ SaveSso \/ SaveAlbum \/ SaveProvider \/ AddSource
           \/ SavePopup \/ ChangeRow \/ SaveSource \/ RemoveSource
  <2>1. requests \subseteq requests' /\ UNCHANGED readVars
    BY <1>4 DEF AddMember, CreateInvite, SaveSso, SaveAlbum, SaveProvider, AddSource, SavePopup,
       ChangeRow, SaveSource, RemoveSource, Request
  <2> QED
    BY <1>2, <2>1
<1>5. ASSUME NEW k \in Kiosk, CreateKiosk(k) \/ \E do \in {"qr", "logout", "remove"} : PressKiosk(k, do)
      PROVE  ReadsInv'
  <2>1. requests \subseteq requests' /\ UNCHANGED readVars
    BY <1>5 DEF CreateKiosk, PressKiosk, Request
  <2> QED
    BY <1>2, <2>1
<1>6. CASE OthersChange \/ SourceSynced
  <2>1. CASE OthersChange
    BY <1>1, <2>1 DEF OthersChange, ReadsTyped, ListIsComing
  <2>2. CASE SourceSynced
    <3> DEFINE l == [no |-> sent', from |-> atServer']
    <3>1. reads' = reads \cup {l} /\ l.from = atServer' /\ atServer' = atServer + 1
          /\ UNCHANGED <<listed, unheard>>
      BY <2>2 DEF SourceSynced
    <3> HIDE DEF l
    <3> QED
      BY <1>1, <3>1 DEF ReadsTyped, ListIsComing
  <2> QED
    BY <1>6, <2>1, <2>2
<1>7. ASSUME NEW l \in reads, Read(l) \/ ReadFails(l)
      PROVE  ReadsInv'
  <2>1. CASE Read(l)
    <3>1. PICK v \in l.from .. atServer :
             listed' = v /\ unheard' = (v < atServer /\ (unheard \/ l.no < readUpTo \/ v < listed))
      BY <2>1 DEF Read
    <3>2. reads' = reads \ {l} /\ UNCHANGED <<atServer, requests>>
      BY <2>1 DEF Read
    <3>3. v \in 0 .. atServer
      BY <1>1, <3>1 DEF ReadsTyped
    <3>4. ReadsTyped'
      BY <1>1, <3>1, <3>2, <3>3 DEF ReadsTyped
    <3>5. CASE v = atServer
      BY <3>1, <3>2, <3>4, <3>5 DEF ListIsComing
    <3>6. CASE v < atServer /\ (unheard \/ v < listed)
      BY <3>1, <3>2, <3>4, <3>6 DEF ListIsComing
    <3>7. CASE v < atServer /\ ~unheard /\ ~(v < listed)
      <4>1. listed # atServer /\ l.from # atServer
        BY <1>1, <3>1, <3>3, <3>7 DEF ReadsTyped
      <4>2. (\E r \in requests : Owes(r)) \/ \E m \in reads : m.from = atServer
        BY <3>7, <4>1 DEF ListIsComing
      <4>3. (\E r \in requests' : Owes(r)) \/ \E m \in reads' : m.from = atServer'
        BY <3>2, <4>1, <4>2
      <4> QED
        BY <3>4, <4>3 DEF ListIsComing, Owes
    <3> QED
      BY <1>1, <3>3, <3>5, <3>6, <3>7
  <2>2. CASE ReadFails(l)
    BY <1>1, <2>2 DEF ReadFails, ReadsTyped, ListIsComing
  <2> QED
    BY <1>7, <2>1, <2>2
<1>8. ASSUME NEW r \in requests, QrShown(r)
      PROVE  ReadsInv'
  BY <1>2, <1>8 DEF QrShown, Answered, Owes
<1>9. ASSUME NEW r \in requests,
             PopupSaved(r) \/ RowChanged(r) \/ RowAdded(r) \/ SourceSaved(r)
             \/ SourceRemoved(r) \/ KioskCreated(r) \/ KioskChanged(r)
      PROVE  ReadsInv'
  <2> DEFINE l == [no |-> r.no, from |-> atServer]
  <2>1. reads' = reads \cup {l} /\ l.from = atServer /\ UNCHANGED <<atServer, listed, unheard>>
    BY <1>9 DEF PopupSaved, RowChanged, RowAdded, SourceSaved, SourceRemoved, KioskCreated,
       KioskChanged, Reload
  <2> HIDE DEF l
  <2> QED
    BY <1>1, <2>1 DEF ReadsTyped, ListIsComing
<1>10. ASSUME NEW r \in requests, RequestFails(r)
       PROVE  ReadsInv'
  <2>1. /\ UNCHANGED <<atServer, listed, reads>> /\ requests' = requests \ {r}
        /\ unheard' = (unheard \/ r.done \/ r.do = "wire")
    BY <1>10 DEF RequestFails
  <2>2. CASE Owes(r)
    BY <1>1, <2>1, <2>2 DEF Owes, ReadsTyped, ListIsComing
  <2>3. CASE ~Owes(r) /\ unheard' = unheard
    BY <1>1, <2>1, <2>3 DEF ReadsTyped, ListIsComing
  <2>4. CASE unheard'
    BY <1>1, <2>1, <2>4 DEF ReadsTyped, ListIsComing
  <2> QED
    BY <1>1, <2>1, <2>2, <2>3, <2>4
<1>11. ASSUME NEW r \in requests, Commit(r)
       PROVE  ReadsInv'
  <2> DEFINE s == [r EXCEPT !.done = TRUE]
  <2>1. r \in ListRequest /\ ~r.done
    BY <1>11 DEF RequestsInv, ListsTyped, Commit
  <2>2. s.done /\ s.do = r.do
    BY <2>1 DEF ListRequest
  <2>3. /\ requests' = (requests \ {r}) \cup {s} /\ UNCHANGED <<listed, reads, unheard>>
        /\ atServer' = IF r.do = "qr" THEN atServer ELSE atServer + 1
    BY <1>11 DEF Commit
  <2> HIDE DEF s
  <2>4. CASE r.do = "qr"
    BY <1>1, <2>1, <2>2, <2>3, <2>4 DEF ReadsTyped, ListIsComing, Owes
  <2>5. CASE r.do # "qr"
    <3>1. Owes(s) /\ s \in requests'
      BY <2>2, <2>3, <2>5 DEF Owes
    <3> QED
      BY <1>1, <2>3, <2>5, <3>1 DEF ReadsTyped, ListIsComing, Owes
  <2> QED
    BY <2>4, <2>5
<1>12. ASSUME NEW r \in requests, ProviderMade(r)
       PROVE  ReadsInv'
  <2> DEFINE s == [r EXCEPT !.do = "wire", !.done = FALSE]
  <2>1. s.do = "wire"
    BY DEF RequestsInv, ListsTyped, ListRequest
  <2>2. UNCHANGED readVars /\ s \in requests'
    BY <1>12 DEF ProviderMade
  <2> HIDE DEF s
  <2> QED
    BY <1>1, <2>1, <2>2 DEF readVars, ReadsTyped, ListIsComing, Owes
<1> QED
  BY <1>3, <1>4, <1>5, <1>6, <1>7, <1>8, <1>9, <1>10, <1>11, <1>12 DEF ListsNext

-----------------------------------------------------------------------------
(***************************************************************************)
(* A form has one press under way, and no row yet while that is not        *)
(* answered.                                                               *)
(***************************************************************************)
OneForm == list \notin {"family", "sources"}
OfThisForm(r) == list = "sso" => r.form = form

OnePress ==
    OneForm =>
        /\ \A r, s \in requests : Adds(r) /\ Adds(s) /\ (list = "sso" => r.form = s.form) => r = s
        /\ \A r \in requests : Adds(r) /\ OfThisForm(r) => adding

NoRowYet ==
    OneForm /\ ~answerLost =>
        /\ \A r \in requests : r.do = "add" /\ ~r.done => made[r.form] = 0
        /\ form # 0 /\ (\A r \in requests : Adds(r) => r.form # form) => made[form] = 0
        /\ \A o \in 1 .. MaxForms : made[o] <= 1 /\ (o > openings => made[o] = 0)

AddInv == OnePress /\ NoRowYet

\* No form has added anything yet.
LEMMA AddInit == ListsInit => AddInv
  BY SettingsListsAssumption DEF ListsInit, AddInv, OnePress, NoRowYet

\* Nothing the forms for new rows know of changes.
LEMMA AddsAlone ==
  ASSUME RequestsInv, AddInv, UNCHANGED <<list, form, openings, adding, made>>,
         answerLost => answerLost',
         \A r \in requests : Adds(r) => r \in requests',
         \A r \in requests' : Adds(r) => r \in requests
  PROVE  AddInv'
  BY DEF RequestsInv, ListsTyped, AddInv, OnePress, NoRowYet, OneForm, OfThisForm, Adds

\* The form is pressed.
LEMMA PressKeeps ==
  ASSUME RequestsInv, AddInv, NEW k, Request("add", k), form # 0, ~adding, adding' = TRUE,
         UNCHANGED <<list, form, openings, made, answerLost>>
  PROVE  AddInv'
<1> DEFINE w == [no |-> sent', do |-> "add", kiosk |-> k, form |-> form, sawQr |-> qr # NoKiosk,
                 done |-> FALSE]
<1>1. /\ w.do = "add" /\ w.form = form /\ ~w.done /\ Adds(w)
      /\ requests' = requests \cup {w}
  BY DEF Request, Adds
<1> HIDE DEF w
<1>2. OneForm => \A r \in requests : Adds(r) => list = "sso" /\ r.form # form
  BY DEF AddInv, OnePress, OfThisForm
<1>3. OnePress'
  BY <1>1, <1>2 DEF AddInv, OnePress, OneForm, OfThisForm, Adds
<1>4. NoRowYet'
  BY <1>1, <1>2 DEF AddInv, NoRowYet, OneForm, Adds
<1> QED
  BY <1>3, <1>4 DEF AddInv

\* A press is answered, and shuts the form.
LEMMA RowAddedKeeps ==
  ASSUME RequestsInv, AddInv, NEW r \in requests, Adds(r), requests' = requests \ {r},
         form' = 0, adding' = FALSE, UNCHANGED <<list, openings, made, answerLost>>
  PROVE  AddInv'
<1>1. \A s \in requests : Adds(s) => s.form # 0
  BY DEF RequestsInv, RequestsKnown
<1>2. OnePress'
  BY <1>1 DEF AddInv, OnePress, OneForm, OfThisForm, Adds
<1>3. NoRowYet'
  BY DEF AddInv, NoRowYet, OneForm, Adds
<1> QED
  BY <1>2, <1>3 DEF AddInv

\* Every step keeps a form to one addition.
LEMMA AddStep ==
  ASSUME RequestsInv, AddInv, [ListsNext]_listVars
  PROVE  AddInv'
<1>1. /\ form \in 0 .. openings /\ openings \in 0 .. MaxForms /\ made \in [1 .. MaxForms -> Nat]
      /\ MaxForms \in Nat /\ adding \in BOOLEAN /\ answerLost \in BOOLEAN
      /\ requests \subseteq ListRequest
      /\ \A r \in requests : Adds(r) => r.form \in 1 .. openings
      /\ \A r \in requests : r.done \in BOOLEAN
  BY SettingsListsAssumption DEF RequestsInv, ListsTyped, RequestsKnown, ListRequest
<1>2. CASE (\E l \in reads : Read(l) \/ ReadFails(l)) \/ OthersChange \/ OpenPopup \/ ShutPopup
           \/ TypeDraft \/ TryDraft \/ Tried \/ CloseQr
           \/ OpenSource \/ ShutSource \/ TypeSource \/ SourceSynced \/ UNCHANGED listVars
  <2>1. UNCHANGED <<list, form, openings, adding, made, answerLost, requests>>
    BY <1>2 DEF Read, ReadFails, OthersChange, OpenPopup, ShutPopup, TypeDraft, TryDraft, Tried,
       CloseQr, OpenSource, ShutSource, TypeSource, SourceSynced, listVars, formVars, madeVars
  <2> QED
    BY <2>1, AddsAlone
<1>3. CASE SavePopup \/ ChangeRow \/ SaveSource \/ RemoveSource
           \/ \E k \in Kiosk : \E do \in {"qr", "logout", "remove"} : PressKiosk(k, do)
  <2>1. PICK do \in Do, k \in Kiosk \cup {NoKiosk} : Request(do, k) /\ do \notin {"add", "wire"}
    BY <1>3 DEF SavePopup, ChangeRow, SaveSource, RemoveSource, PressKiosk, Do
  <2>2. UNCHANGED <<list, form, openings, adding, made, answerLost>>
    BY <1>3 DEF SavePopup, ChangeRow, SaveSource, RemoveSource, PressKiosk, formVars, madeVars
  <2>3. \A r \in requests' : Adds(r) => r \in requests
    BY <2>1 DEF Request, Adds
  <2> QED
    BY <2>1, <2>2, <2>3, AddsAlone DEF Request
<1>4. ASSUME NEW r \in requests,
             PopupSaved(r) \/ RowChanged(r) \/ SourceSaved(r) \/ SourceRemoved(r)
             \/ QrShown(r) \/ KioskChanged(r)
      PROVE  AddInv'
  <2>1. /\ requests' = requests \ {r} /\ ~Adds(r)
        /\ UNCHANGED <<list, form, openings, adding, made, answerLost>>
    BY <1>4 DEF PopupSaved, RowChanged, SourceSaved, SourceRemoved, QrShown, KioskChanged,
       Answered, Adds, formVars, madeVars
  <2> QED
    BY <2>1, AddsAlone
<1>5. CASE AddMember \/ AddSource
  BY <1>5 DEF AddMember, AddSource, AddInv, OnePress, NoRowYet, OneForm
<1>6. CASE CreateInvite \/ SaveSso \/ SaveAlbum \/ SaveProvider \/ \E k \in Kiosk : CreateKiosk(k)
  <2>1. /\ \E k : Request("add", k)
        /\ form # 0 /\ ~adding /\ adding' = TRUE /\ UNCHANGED <<list, form, openings, made, answerLost>>
    BY <1>6 DEF CreateInvite, SaveSso, SaveAlbum, SaveProvider, CreateKiosk, madeVars
  <2> QED
    BY <2>1, PressKeeps
<1>7. CASE OpenForm
  <2>1. /\ form = 0 /\ openings' = openings + 1 /\ form' = openings + 1
        /\ adding' = (adding /\ list # "sso") /\ UNCHANGED <<list, requests, made, answerLost>>
        /\ openings + 1 \in 1 .. MaxForms
    BY <1>1, <1>7 DEF OpenForm, madeVars
  <2>2. \A r \in requests : Adds(r) => r.form # form'
    BY <1>1, <2>1
  <2>3. OnePress'
    BY <2>1, <2>2 DEF AddInv, OnePress, OneForm, OfThisForm
  <2>4. NoRowYet'
    BY <1>1, <2>1 DEF AddInv, NoRowYet, OneForm
  <2> QED
    BY <2>3, <2>4 DEF AddInv
<1>8. CASE ShutForm
  <2>1. form' = 0 /\ UNCHANGED <<list, openings, adding, requests, made, answerLost>>
    BY <1>8 DEF ShutForm, madeVars
  <2> QED
    BY <1>1, <2>1 DEF AddInv, OnePress, NoRowYet, OneForm, OfThisForm
<1>9. ASSUME NEW r \in requests, RowAdded(r) \/ KioskCreated(r)
      PROVE  AddInv'
  <2>1. /\ Adds(r) /\ requests' = requests \ {r} /\ form' = 0 /\ adding' = FALSE
        /\ UNCHANGED <<list, openings, made, answerLost>>
    BY <1>9 DEF RowAdded, KioskCreated, Answered, Adds, madeVars
  <2> QED
    BY <2>1, RowAddedKeeps
<1>10. ASSUME NEW r \in requests, RequestFails(r)
       PROVE  AddInv'
  <2>1. /\ requests' = requests \ {r} /\ UNCHANGED <<list, form, openings, made>>
        /\ answerLost' = (answerLost \/ r.done \/ r.do = "wire")
        /\ adding' = IF Adds(r) /\ OfThisForm(r) THEN FALSE ELSE adding
    BY <1>10 DEF RequestFails, Adds, OfThisForm
  <2>2. OnePress'
    BY <2>1 DEF AddInv, OnePress, OneForm, OfThisForm, Adds
  <2>3. ASSUME OneForm, ~answerLost', form # 0, \A s \in requests' : Adds(s) => s.form # form
        PROVE  made[form] = 0
    <3>1. ~answerLost /\ ~r.done /\ r.do # "wire"
      BY <2>1, <2>3
    <3>2. CASE \A s \in requests : Adds(s) => s.form # form
      BY <2>3, <3>1, <3>2 DEF AddInv, NoRowYet
    <3>3. CASE Adds(r) /\ r.form = form
      BY <2>3, <3>1, <3>3 DEF AddInv, NoRowYet, Adds
    <3> QED
      BY <2>1, <2>3, <3>2, <3>3
  <2>4. NoRowYet'
    BY <2>1, <2>3 DEF AddInv, NoRowYet, OneForm, Adds
  <2> QED
    BY <2>2, <2>4 DEF AddInv
<1>11. ASSUME NEW r \in requests, Commit(r)
       PROVE  AddInv'
  <2> DEFINE s == [r EXCEPT !.done = TRUE]
  <2>1. r \in ListRequest /\ ~r.done
    BY <1>1, <1>11 DEF Commit
  <2>2. s.done /\ s.do = r.do /\ s.form = r.form
    BY <2>1 DEF ListRequest
  <2>3. /\ requests' = (requests \ {r}) \cup {s}
        /\ UNCHANGED <<list, form, openings, adding, answerLost>>
        /\ made' = IF r.do = "add" THEN [made EXCEPT ![r.form] = @ + 1] ELSE made
    BY <1>11 DEF Commit, formVars
  <2> HIDE DEF s
  <2>4. OnePress'
    BY <2>2, <2>3 DEF AddInv, OnePress, OneForm, OfThisForm, Adds
  <2>5. CASE r.do # "add"
    <3>1. NoRowYet'
      BY <2>2, <2>3, <2>5 DEF AddInv, NoRowYet, OneForm, Adds
    <3> QED
      BY <2>4, <3>1 DEF AddInv
  <2>6. CASE r.do = "add"
    <3>1. /\ r.form \in 1 .. openings /\ r.form \in 1 .. MaxForms
          /\ \A o \in 1 .. MaxForms : made'[o] = IF o = r.form THEN made[o] + 1 ELSE made[o]
      BY <1>1, <2>3, <2>6 DEF Adds
    <3>2. ASSUME OneForm, ~answerLost
          PROVE  /\ \A q \in requests' : q.do = "add" /\ ~q.done => made'[q.form] = 0
                 /\ form # 0 /\ (\A q \in requests' : Adds(q) => q.form # form) => made'[form] = 0
                 /\ \A o \in 1 .. MaxForms : made'[o] <= 1 /\ (o > openings => made'[o] = 0)
      <4>1. made[r.form] = 0 /\ \A o \in 1 .. MaxForms : made[o] <= 1 /\ (o > openings => made[o] = 0)
        BY <2>1, <2>6, <3>2 DEF AddInv, NoRowYet
      <4>2. \A o \in 1 .. MaxForms : made'[o] <= 1 /\ (o > openings => made'[o] = 0)
        BY <1>1, <3>1, <4>1
      <4>3. ASSUME NEW q \in requests', q.do = "add", ~q.done
            PROVE  made'[q.form] = 0
        <5>1. q \in requests /\ q # r /\ Adds(q) /\ Adds(r)
          BY <2>2, <2>3, <2>6, <4>3 DEF Adds
        <5>2. q.form # r.form
          BY <3>2, <5>1 DEF AddInv, OnePress
        <5> QED
          BY <1>1, <3>1, <3>2, <4>3, <5>1, <5>2 DEF AddInv, NoRowYet
      <4>4. ASSUME form # 0, \A q \in requests' : Adds(q) => q.form # form
            PROVE  made'[form] = 0
        <5>1. r.form # form /\ \A q \in requests : Adds(q) => q.form # form
          BY <2>2, <2>3, <2>6, <4>4 DEF Adds
        <5> QED
          BY <1>1, <3>1, <3>2, <4>4, <5>1 DEF AddInv, NoRowYet
      <4> QED
        BY <4>2, <4>3, <4>4
    <3>3. NoRowYet'
      BY <2>3, <3>2 DEF NoRowYet, OneForm, Adds
    <3> QED
      BY <2>4, <3>3 DEF AddInv
  <2> QED
    BY <2>5, <2>6
<1>12. ASSUME NEW r \in requests, ProviderMade(r)
       PROVE  AddInv'
  <2> DEFINE s == [r EXCEPT !.do = "wire", !.done = FALSE]
  <2>1. s.do = "wire" /\ s.form = r.form
    BY <1>1 DEF ListRequest
  <2>2. /\ requests' = (requests \ {r}) \cup {s} /\ r.do = "add"
        /\ UNCHANGED <<list, form, openings, adding, made, answerLost>>
    BY <1>12 DEF ProviderMade, formVars, madeVars
  <2> HIDE DEF s
  <2>3. OnePress'
    BY <2>1, <2>2 DEF AddInv, OnePress, OneForm, OfThisForm, Adds
  <2>4. NoRowYet'
    BY <2>1, <2>2 DEF AddInv, NoRowYet, OneForm, Adds
  <2> QED
    BY <2>3, <2>4 DEF AddInv
<1> QED
  BY <1>2, <1>3, <1>4, <1>5, <1>6, <1>7, <1>8, <1>9, <1>10, <1>11, <1>12 DEF ListsNext

-----------------------------------------------------------------------------
(***************************************************************************)
(* The QR code.  Two requests about one kiosk that do not cross leave the  *)
(* code on the screen live, or are about to replace it or take it away.    *)
(***************************************************************************)
KiosksTyped ==
    /\ kiosks \in [Kiosk -> {"none", "there", "gone"}] /\ token \in [Kiosk -> Nat]
    /\ qr \in Kiosk \cup {NoKiosk} /\ qrToken \in Nat /\ crossed \in BOOLEAN

Live(k) == kiosks[k] = "there" /\ token[k] = qrToken

Replaces(r) == r.done /\ (r.do = "qr" \/ (r.do = "remove" /\ r.sawQr))

OneAbout ==
    \A r, s \in requests : r.kiosk \in Kiosk /\ r.kiosk = s.kiosk => r = s

AboutKiosk(r) ==
    /\ r.done /\ r.do \in {"add", "qr"} => kiosks[r.kiosk] = "there" /\ token[r.kiosk] = r.no
    /\ ~r.done /\ r.do = "add" => kiosks[r.kiosk] = "none"
    /\ r.do = "remove" /\ qr = r.kiosk => r.sawQr

CodeIsLive ==
    qr \in Kiosk => /\ kiosks[qr] # "none"
                    /\ Live(qr) \/ \E r \in requests : r.kiosk = qr /\ Replaces(r)

QrInv ==
    /\ KiosksTyped
    /\ ~crossed /\ ~answerLost =>
          OneAbout /\ CodeIsLive /\ \A r \in requests : r.kiosk \in Kiosk => AboutKiosk(r)

\* No code is on the screen yet.
LEMMA QrInit == ListsInit => QrInv
<1> SUFFICES ASSUME ListsInit PROVE QrInv
  OBVIOUS
<1>1. qr = NoKiosk /\ qr \notin Kiosk /\ requests = {}
  BY SettingsListsAssumption DEF ListsInit
<1>2. kiosks \in [Kiosk -> {"none", "there", "gone"}] /\ token \in [Kiosk -> Nat]
  BY DEF ListsInit
<1>3. qrToken \in Nat /\ crossed \in BOOLEAN
  BY DEF ListsInit
<1> QED
  BY <1>1, <1>2, <1>3 DEF QrInv, KiosksTyped, OneAbout, CodeIsLive

\* No request is sent, moved or answered that is about a kiosk.
LEMMA QrAlone ==
  ASSUME RequestsInv, QrInv, UNCHANGED <<kioskVars, qrVars>>, answerLost => answerLost',
         \A r \in requests' : r.kiosk \in Kiosk => r \in requests,
         \A r \in requests : r.kiosk \in Kiosk /\ ~answerLost' => r \in requests'
  PROVE  QrInv'
  BY DEF RequestsInv, ListsTyped, QrInv, KiosksTyped, OneAbout, CodeIsLive, AboutKiosk, Live,
         Replaces, kioskVars, qrVars

\* Every step keeps the code on the screen the one that can be claimed.
LEMMA QrStep ==
  ASSUME RequestsInv, QrInv, [ListsNext]_listVars
  PROVE  QrInv'
<1>1. /\ KiosksTyped /\ requests \subseteq ListRequest /\ NoKiosk \notin Kiosk
      /\ answerLost \in BOOLEAN /\ sent \in Nat
      /\ \A r \in requests : /\ r.no \in Nat /\ r.done \in BOOLEAN
                             /\ r.kiosk \in Kiosk => list = "kiosks"
                             /\ r.kiosk \in Kiosk \cup {NoKiosk}
  BY SettingsListsAssumption DEF QrInv, RequestsInv, ListsTyped, RequestsKnown, ListRequest
<1>2. CASE (\E l \in reads : Read(l) \/ ReadFails(l)) \/ OthersChange \/ OpenPopup \/ ShutPopup
           \/ TypeDraft \/ TryDraft \/ Tried \/ OpenForm \/ ShutForm
           \/ OpenSource \/ ShutSource \/ TypeSource \/ SourceSynced \/ UNCHANGED listVars
  <2>1. UNCHANGED <<kioskVars, qrVars, answerLost, requests>>
    BY <1>2 DEF Read, ReadFails, OthersChange, OpenPopup, ShutPopup, TypeDraft, TryDraft, Tried,
       OpenForm, ShutForm, OpenSource, ShutSource, TypeSource, SourceSynced, listVars, madeVars
  <2> QED
    BY <2>1, QrAlone
<1>3. CASE AddMember \/ CreateInvite \/ SaveSso \/ SaveAlbum \/ SaveProvider \/ AddSource
           \/ SavePopup \/ ChangeRow \/ SaveSource \/ RemoveSource
  <2>1. /\ \E do \in Do : Request(do, NoKiosk)
        /\ UNCHANGED <<kioskVars, qrVars, answerLost>>
    BY <1>3 DEF AddMember, CreateInvite, SaveSso, SaveAlbum, SaveProvider, AddSource, SavePopup,
       ChangeRow, SaveSource, RemoveSource, madeVars, Do
  <2>2. requests \subseteq requests' /\ \A r \in requests' : r \in requests \/ r.kiosk = NoKiosk
    BY <2>1 DEF Request
  <2> QED
    BY <1>1, <2>1, <2>2, QrAlone
<1>4. ASSUME NEW r \in requests,
             PopupSaved(r) \/ RowChanged(r) \/ SourceSaved(r) \/ SourceRemoved(r) \/ RowAdded(r)
      PROVE  QrInv'
  <2>1. requests' = requests \ {r} /\ UNCHANGED <<kioskVars, qrVars, answerLost>>
    BY <1>4 DEF PopupSaved, RowChanged, SourceSaved, SourceRemoved, RowAdded, Answered, madeVars
  <2>2. CASE r.kiosk \notin Kiosk
    BY <2>1, <2>2, QrAlone
  <2>3. CASE r.kiosk \in Kiosk
    <3>1. list = "kiosks" /\ r.do \notin {"qr", "remove"}
      BY <1>1, <1>4, <2>3 DEF PopupSaved, RowChanged, SourceSaved, SourceRemoved, RowAdded
    <3>2. ~Replaces(r)
      BY <3>1 DEF Replaces
    <3> QED
      BY <2>1, <3>2 DEF QrInv, KiosksTyped, OneAbout, CodeIsLive, AboutKiosk, Live, Replaces,
                        kioskVars, qrVars
  <2> QED
    BY <2>2, <2>3
<1>5. ASSUME NEW r \in requests, RequestFails(r)
      PROVE  QrInv'
  <2>1. /\ requests' = requests \ {r} /\ UNCHANGED <<kioskVars, qrVars>>
        /\ answerLost' = (answerLost \/ r.done \/ r.do = "wire")
    BY <1>5 DEF RequestFails
  <2>2. Replaces(r) => answerLost'
    BY <2>1 DEF Replaces
  <2> QED
    BY <2>1, <2>2 DEF QrInv, KiosksTyped, OneAbout, CodeIsLive, AboutKiosk, Live, Replaces,
                      kioskVars, qrVars
<1>6. CASE CloseQr
  BY <1>1, <1>6 DEF CloseQr, madeVars, QrInv, KiosksTyped, OneAbout, CodeIsLive, AboutKiosk,
     kioskVars
<1>7. ASSUME NEW r \in requests, ProviderMade(r)
      PROVE  QrInv'
  <2> DEFINE s == [r EXCEPT !.do = "wire", !.done = FALSE]
  <2>1. s.kiosk = r.kiosk
    BY <1>1 DEF ListRequest
  <2>2. /\ requests' = (requests \ {r}) \cup {s} /\ list = "ai"
        /\ UNCHANGED <<kioskVars, qrVars, answerLost>>
    BY <1>7 DEF ProviderMade, madeVars
  <2> HIDE DEF s
  <2>3. r.kiosk \notin Kiosk
    BY <1>1, <2>2
  <2> QED
    BY <2>1, <2>2, <2>3, QrAlone
<1>8. ASSUME NEW k \in Kiosk, NEW do \in Do, Request(do, k), do \in {"add", "qr", "logout", "remove"},
             crossed' \in BOOLEAN, crossed => crossed', UNCHANGED <<kioskVars, qr, qrToken, answerLost>>,
             ~crossed' => \A r \in requests : r.kiosk # k,
             do = "add" <=> kiosks[k] = "none"
      PROVE  QrInv'
  <2>1. PICK w : /\ w.kiosk = k /\ w.do = do /\ ~w.done /\ (qr # NoKiosk => w.sawQr)
                 /\ requests' = requests \cup {w}
    <3> DEFINE w == [no |-> sent', do |-> do, kiosk |-> k, form |-> form, sawQr |-> qr # NoKiosk,
                     done |-> FALSE]
    <3>1. /\ w.kiosk = k /\ w.do = do /\ ~w.done /\ (qr # NoKiosk => w.sawQr)
          /\ requests' = requests \cup {w}
      BY <1>8 DEF Request
    <3> QED
      BY <3>1
  <2>2. KiosksTyped' /\ (~crossed' => ~crossed)
    BY <1>1, <1>8 DEF KiosksTyped, kioskVars
  <2>3. ASSUME ~crossed', ~answerLost'
        PROVE  OneAbout' /\ CodeIsLive' /\ \A r \in requests' : r.kiosk \in Kiosk => AboutKiosk(r)'
    <3>1. OneAbout /\ CodeIsLive /\ \A r \in requests : r.kiosk \in Kiosk => AboutKiosk(r)
      BY <1>8, <2>2, <2>3 DEF QrInv
    <3>2. OneAbout'
      BY <1>8, <2>1, <2>3, <3>1 DEF OneAbout
    <3>3. CodeIsLive'
      BY <1>8, <2>1, <3>1 DEF CodeIsLive, Live, Replaces, kioskVars
    <3>4. AboutKiosk(w)'
      <4>1. ~w.done /\ w.kiosk = k /\ w.do = do /\ kiosks' = kiosks /\ qr' = qr
        BY <1>8, <2>1 DEF kioskVars
      <4>2. qr = k => w.sawQr
        BY <1>1, <2>1
      <4> QED
        BY <1>8, <4>1, <4>2 DEF AboutKiosk
    <3>5. \A r \in requests : r.kiosk \in Kiosk => AboutKiosk(r)'
      BY <1>8, <3>1 DEF AboutKiosk, kioskVars
    <3> QED
      BY <2>1, <3>2, <3>3, <3>4, <3>5 DEF AboutKiosk
  <2> QED
    BY <2>2, <2>3 DEF QrInv
<1>9. ASSUME NEW k \in Kiosk, CreateKiosk(k) \/ \E do \in {"qr", "logout", "remove"} : PressKiosk(k, do)
      PROVE  QrInv'
  <2>1. CASE CreateKiosk(k)
    <3>1. "add" \in Do
      BY DEF Do
    <3>2. UNCHANGED <<kioskVars, qr, qrToken, crossed, answerLost>>
      BY <2>1 DEF CreateKiosk, madeVars, qrVars
    <3>3. Request("add", k) /\ kiosks[k] = "none" /\ \A r \in requests : r.kiosk # k
      BY <2>1 DEF CreateKiosk
    <3>4. crossed' \in BOOLEAN /\ (crossed => crossed')
      BY <1>1, <3>2 DEF KiosksTyped
    <3> QED
      BY <1>8, <3>1, <3>2, <3>3, <3>4
  <2>2. ASSUME NEW do \in {"qr", "logout", "remove"}, PressKiosk(k, do)
        PROVE  QrInv'
    <3>1. do \in Do /\ do # "add"
      BY DEF Do
    <3>2. crossed' = (crossed \/ \E r \in requests : r.kiosk = k)
      BY <2>2 DEF PressKiosk, Crossing
    <3> QED
      BY <1>1, <1>8, <2>2, <3>1, <3>2 DEF PressKiosk, madeVars, KiosksTyped
  <2> QED
    BY <1>9, <2>1, <2>2
<1>10. ASSUME NEW r \in requests, KioskCreated(r) \/ QrShown(r)
       PROVE  QrInv'
  <2>1. /\ requests' = requests \ {r} /\ r.done /\ r.do \in {"add", "qr"}
        /\ qr' = r.kiosk /\ qrToken' = r.no
        /\ UNCHANGED <<kiosks, token, crossed, answerLost>>
    BY <1>10 DEF KioskCreated, QrShown, Answered, kioskVars, madeVars
  <2>2. KiosksTyped'
    BY <1>1, <2>1 DEF KiosksTyped
  <2>3. ASSUME ~crossed, ~answerLost
        PROVE  OneAbout' /\ CodeIsLive' /\ \A s \in requests' : s.kiosk \in Kiosk => AboutKiosk(s)'
    <3>1. OneAbout /\ \A s \in requests : s.kiosk \in Kiosk => AboutKiosk(s)
      BY <2>3 DEF QrInv
    <3>2. \A s \in requests' : s.kiosk # r.kiosk \/ s.kiosk \notin Kiosk
      BY <2>1, <3>1 DEF OneAbout
    <3>3. CodeIsLive'
      BY <2>1, <3>1 DEF CodeIsLive, Live, AboutKiosk
    <3> QED
      BY <2>1, <3>1, <3>2, <3>3 DEF OneAbout, AboutKiosk
  <2> QED
    BY <2>1, <2>2, <2>3 DEF QrInv
<1>11. ASSUME NEW r \in requests, KioskChanged(r)
       PROVE  QrInv'
  <2>1. /\ requests' = requests \ {r} /\ r.do \in {"logout", "remove"}
        /\ IF r.do = "remove" /\ r.sawQr THEN qr' = NoKiosk ELSE qr' = qr
        /\ UNCHANGED <<kiosks, token, qrToken, crossed, answerLost>>
    BY <1>11 DEF KioskChanged, Answered, kioskVars, madeVars
  <2>2. CASE qr' = NoKiosk
    BY <1>1, <2>1, <2>2 DEF QrInv, KiosksTyped, OneAbout, CodeIsLive, AboutKiosk
  <2>3. CASE ~Replaces(r) /\ qr' = qr
    BY <2>1, <2>3 DEF QrInv, KiosksTyped, OneAbout, CodeIsLive, AboutKiosk, Live, Replaces
  <2> QED
    BY <2>1, <2>2, <2>3 DEF Replaces
<1>12. ASSUME NEW r \in requests, Commit(r)
       PROVE  QrInv'
  <2> DEFINE s == [r EXCEPT !.done = TRUE]
  <2>1. r \in ListRequest /\ ~r.done /\ (r.kiosk # NoKiosk /\ r.do # "add" => kiosks[r.kiosk] = "there")
    BY <1>1, <1>12 DEF Commit
  <2>2. s.done /\ s.do = r.do /\ s.kiosk = r.kiosk /\ s.no = r.no /\ s.sawQr = r.sawQr
    BY <2>1 DEF ListRequest
  <2>3. /\ requests' = (requests \ {r}) \cup {s} /\ UNCHANGED <<qr, qrToken, crossed, answerLost>>
        /\ token' = IF list = "kiosks" /\ r.do \in {"add", "qr"}
                    THEN [token EXCEPT ![r.kiosk] = r.no] ELSE token
        /\ kiosks' = IF list # "kiosks" THEN kiosks
                     ELSE IF r.do = "add" THEN [kiosks EXCEPT ![r.kiosk] = "there"]
                     ELSE IF r.do = "remove" THEN [kiosks EXCEPT ![r.kiosk] = "gone"]
                     ELSE kiosks
    BY <1>12 DEF Commit, qrVars
  <2> HIDE DEF s
  <2>4. KiosksTyped'
    BY <1>1, <2>3 DEF KiosksTyped
  <2>5. CASE r.kiosk \notin Kiosk
    <3>1. UNCHANGED <<kiosks, token>>
      BY <1>1, <2>3, <2>5 DEF KiosksTyped
    <3> QED
      BY <2>2, <2>3, <2>5, <3>1, QrAlone DEF kioskVars, qrVars
  <2>6. CASE r.kiosk \in Kiosk
    <3>1. /\ \A k \in Kiosk \ {r.kiosk} : kiosks'[k] = kiosks[k] /\ token'[k] = token[k]
          /\ r.do = "add" => kiosks'[r.kiosk] = "there" /\ token'[r.kiosk] = r.no
          /\ r.do = "qr" => kiosks'[r.kiosk] = "there" /\ token'[r.kiosk] = r.no
          /\ r.do = "remove" => kiosks'[r.kiosk] = "gone"
          /\ r.do \notin {"add", "qr", "remove"} => UNCHANGED <<kiosks, token>>
      BY <1>1, <2>1, <2>3, <2>6 DEF KiosksTyped
    <3>2. ASSUME ~crossed, ~answerLost
          PROVE  OneAbout' /\ CodeIsLive' /\ \A q \in requests' : q.kiosk \in Kiosk => AboutKiosk(q)'
      <4>1. /\ OneAbout /\ CodeIsLive /\ \A q \in requests : q.kiosk \in Kiosk => AboutKiosk(q)
            /\ AboutKiosk(r)
        BY <2>6, <3>2 DEF QrInv
      <4>2. OneAbout'
        BY <2>2, <2>3, <4>1 DEF OneAbout
      <4>3. \A q \in requests' : q # s /\ q.kiosk \in Kiosk => q \in requests /\ q.kiosk # r.kiosk
        BY <2>3, <2>6, <4>1 DEF OneAbout
      <4>4. AboutKiosk(s)'
        BY <2>2, <2>3, <3>1, <4>1 DEF AboutKiosk
      <4>5. \A q \in requests' : q.kiosk \in Kiosk => AboutKiosk(q)'
        BY <2>3, <3>1, <4>1, <4>3, <4>4 DEF AboutKiosk
      <4>6. CodeIsLive'
        <5>1. CASE qr \notin Kiosk
          BY <2>3, <5>1 DEF CodeIsLive
        <5>2. CASE qr \in Kiosk /\ qr # r.kiosk
          <6>1. kiosks'[qr] = kiosks[qr] /\ token'[qr] = token[qr]
            BY <3>1, <5>2
          <6>2. \A q \in requests : q.kiosk = qr => q \in requests'
            BY <2>3, <5>2
          <6> QED
            BY <2>3, <4>1, <5>2, <6>1, <6>2 DEF CodeIsLive, Live, Replaces
        <5>3. CASE qr = r.kiosk
          <6>1. r.do # "add" /\ kiosks[qr] = "there"
            BY <1>1, <2>1, <2>6, <4>1, <5>3 DEF AboutKiosk, CodeIsLive
          <6>2. CASE r.do \in {"qr", "remove"}
            <7>1. Replaces(s) /\ s.kiosk = qr /\ s \in requests'
              BY <2>2, <2>3, <4>1, <5>3, <6>2 DEF Replaces, AboutKiosk
            <7> QED
              BY <2>3, <2>6, <3>1, <5>3, <6>2, <7>1 DEF CodeIsLive, Replaces
          <6>3. CASE r.do \notin {"add", "qr", "remove"}
            BY <2>3, <3>1, <4>1, <6>3 DEF CodeIsLive, Live, Replaces
          <6> QED
            BY <6>1, <6>2, <6>3
        <5> QED
          BY <5>1, <5>2, <5>3
      <4> QED
        BY <4>2, <4>5, <4>6
    <3> QED
      BY <2>3, <2>4, <3>2 DEF QrInv
  <2> QED
    BY <2>5, <2>6
<1> QED
  BY <1>2, <1>3, <1>4, <1>5, <1>6, <1>7, <1>9, <1>10, <1>11, <1>12 DEF ListsNext

-----------------------------------------------------------------------------
(***************************************************************************)
(* What is saved of the form of a provider, an album or a source.          *)
(***************************************************************************)
DraftInv ==
    /\ draft \in Nat /\ trying \in Nat /\ passed \in Nat /\ savedDraft \in Nat /\ retyped \in BOOLEAN
    /\ leftOver \in BOOLEAN
    /\ list = "ai" =>
          /\ ~retyped => trying \in {0, draft} \/ draft = 0
          /\ passed # 0 => passed \in accepted /\ (draft \in {0, passed} \/ retyped)
    /\ list = "sources" => (draft = RowDraft => popup # 0 \/ leftOver)
    /\ SavedWasTested /\ AddedIsTyped

PopupsInv == popups \in Nat /\ popup \in 0 .. popups /\ popupBusy \in BOOLEAN

\* Nothing was typed, tested or saved yet.
LEMMA DraftInit == ListsInit => DraftInv
<1> SUFFICES ASSUME ListsInit PROVE DraftInv
  OBVIOUS
<1>1. RowDraft # 0 /\ 0 \in Nat
  BY SettingsListsAssumption DEF RowDraft
<1>2. draft = 0 /\ trying = 0 /\ passed = 0 /\ savedDraft = 0
  BY DEF ListsInit
<1>3. retyped = FALSE /\ leftOver = FALSE
  BY DEF ListsInit
<1> QED
  BY <1>1, <1>2, <1>3 DEF DraftInv, SavedWasTested, AddedIsTyped

\* Every step keeps what was accepted and saved to what was tested and typed.
LEMMA DraftStep ==
  ASSUME DraftInv, RequestsInv, PopupsInv, [ListsNext]_listVars
  PROVE  DraftInv'
<1>1. /\ RowDraft \in Nat \ {0} /\ MaxDrafts \in Nat /\ MaxDrafts < RowDraft
      /\ openings \in Nat
  BY SettingsListsAssumption DEF RowDraft, RequestsInv, ListsTyped
<1> USE DEF DraftInv, SavedWasTested, AddedIsTyped, popupVars, draftVars, readVars
<1>2. ASSUME UNCHANGED <<list, draftVars, popup, leftOver>>
      PROVE  DraftInv'
  BY <1>2 DEF RowDraft
<1>3. CASE (\E l \in reads : Read(l) \/ ReadFails(l)) \/ OthersChange \/ OpenForm
           \/ ChangeRow \/ AddMember \/ CreateInvite \/ SaveSso \/ SaveAlbum \/ CloseQr
           \/ SavePopup \/ SaveSource \/ RemoveSource \/ SourceSynced \/ UNCHANGED listVars
  BY <1>2, <1>3 DEF Read, ReadFails, OthersChange, OpenForm, ChangeRow, AddMember, CreateInvite,
     SaveSso, SaveAlbum, CloseQr, SavePopup, SaveSource, RemoveSource, SourceSynced, listVars
<1>4. ASSUME NEW k \in Kiosk, CreateKiosk(k) \/ \E do \in {"qr", "logout", "remove"} : PressKiosk(k, do)
      PROVE  DraftInv'
  BY <1>2, <1>4 DEF CreateKiosk, PressKiosk
<1>5. ASSUME NEW r \in requests,
             Commit(r) \/ RequestFails(r) \/ RowChanged(r) \/ ProviderMade(r)
             \/ KioskCreated(r) \/ QrShown(r) \/ KioskChanged(r)
      PROVE  DraftInv'
  BY <1>2, <1>5 DEF Commit, RequestFails, RowChanged, ProviderMade, KioskCreated, QrShown,
     KioskChanged
<1>6. ASSUME OpenPopup \/ ShutPopup \/ \E r \in requests : PopupSaved(r)
      PROVE  DraftInv'
  <2>1. UNCHANGED <<list, draftVars, leftOver>> /\ list # "sources"
    BY <1>6 DEF OpenPopup, ShutPopup, PopupSaved
  <2> QED
    BY <2>1
<1>7. CASE ShutForm \/ ShutSource \/ \E r \in requests : RowAdded(r) \/ SourceSaved(r)
  <2>1. /\ draft' = 0 /\ passed' \in {0, passed} /\ UNCHANGED <<list, trying, retyped, accepted, savedDraft>>
        /\ leftOver' = leftOver
    BY <1>7 DEF ShutForm, ShutSource, RowAdded, SourceSaved
  <2> QED
    BY <1>1, <2>1 DEF RowDraft
<1>8. CASE TypeDraft \/ TypeSource
  <2>1. draft' = draft + 1 /\ draft < MaxDrafts /\ UNCHANGED <<list, trying, accepted, savedDraft, leftOver, popup>>
    BY <1>8 DEF TypeDraft, TypeSource
  <2>2. draft' \in Nat /\ draft' # RowDraft
    BY <1>1, <2>1
  <2>3. CASE TypeDraft
    BY <2>1, <2>2, <2>3 DEF TypeDraft, RowDraft
  <2>4. CASE TypeSource
    BY <2>1, <2>2, <2>4 DEF TypeSource, RowDraft
  <2> QED
    BY <1>8, <2>3, <2>4
<1>9. CASE TryDraft
  BY <1>9 DEF TryDraft, RowDraft
<1>10. CASE Tried
  BY <1>10 DEF Tried, RowDraft
<1>11. CASE SaveProvider
  BY <1>11 DEF SaveProvider
<1>12. CASE OpenSource
  <2>1. popup' # 0
    BY <1>12 DEF OpenSource, PopupsInv
  <2> QED
    BY <1>1, <1>12, <2>1 DEF OpenSource
<1>13. CASE AddSource
  BY <1>13 DEF AddSource, RowDraft
<1>14. ASSUME NEW r \in requests, SourceRemoved(r)
       PROVE  DraftInv'
  BY <1>14 DEF SourceRemoved
<1> QED
  BY <1>3, <1>4, <1>5, <1>6, <1>7, <1>8, <1>9, <1>10, <1>11, <1>12, <1>13, <1>14 DEF ListsNext

-----------------------------------------------------------------------------

\* Every step keeps the popups counted.
LEMMA PopupsStep ==
  ASSUME PopupsInv, [ListsNext]_listVars
  PROVE  PopupsInv'
<1> USE DEF PopupsInv, popupVars
<1>1. CASE (\E l \in reads : Read(l) \/ ReadFails(l)) \/ OthersChange \/ OpenForm
           \/ ShutForm \/ ChangeRow \/ AddMember \/ CreateInvite \/ SaveSso \/ SaveAlbum \/ CloseQr
           \/ SaveProvider \/ TypeDraft \/ TryDraft \/ Tried \/ TypeSource \/ AddSource
           \/ SaveSource \/ RemoveSource \/ SourceSynced \/ UNCHANGED listVars
  BY <1>1 DEF Read, ReadFails, OthersChange, OpenForm, ShutForm, ChangeRow, AddMember,
              CreateInvite,
     SaveSso, SaveAlbum, CloseQr, SaveProvider, TypeDraft, TryDraft, Tried, TypeSource, AddSource,
     SaveSource, RemoveSource, SourceSynced, listVars
<1>2. ASSUME NEW r \in requests,
             Commit(r) \/ RequestFails(r) \/ RowChanged(r) \/ ProviderMade(r) \/ PopupSaved(r)
             \/ KioskCreated(r) \/ QrShown(r) \/ KioskChanged(r) \/ RowAdded(r) \/ SourceSaved(r)
             \/ SourceRemoved(r)
      PROVE  PopupsInv'
  <2>1. UNCHANGED popups /\ popup' \in {0, popup}
    BY <1>2 DEF Commit, RequestFails, RowChanged, ProviderMade, PopupSaved, KioskCreated, QrShown,
       KioskChanged, RowAdded, SourceSaved, SourceRemoved
  <2>2. popupBusy' \in {FALSE, popupBusy}
    BY <1>2 DEF Commit, RequestFails, RowChanged, ProviderMade, PopupSaved, KioskCreated, QrShown,
       KioskChanged, RowAdded, SourceSaved, SourceRemoved
  <2>3. popup' \in 0 .. popups' /\ popups' \in Nat
    BY <2>1
  <2> QED
    BY <2>2, <2>3
<1>3. ASSUME NEW k \in Kiosk, CreateKiosk(k) \/ \E do \in {"qr", "logout", "remove"} : PressKiosk(k, do)
      PROVE  PopupsInv'
  BY <1>3 DEF CreateKiosk, PressKiosk
<1>4. CASE OpenPopup \/ OpenSource
  <2>1. popups' = popups + 1 /\ popup' = popups'
    BY <1>4 DEF OpenPopup, OpenSource
  <2>2. popups' \in Nat /\ popup' \in 0 .. popups'
    BY <2>1
  <2>3. popupBusy' \in {FALSE, popupBusy}
    BY <1>4 DEF OpenPopup, OpenSource
  <2> QED
    BY <2>2, <2>3
<1>5. CASE ShutPopup \/ ShutSource \/ SavePopup
  <2>1. UNCHANGED popups /\ popup' \in {0, popup}
    BY <1>5 DEF ShutPopup, ShutSource, SavePopup
  <2>2. popupBusy' \in BOOLEAN
    BY <1>5 DEF ShutPopup, ShutSource, SavePopup
  <2>3. popup' \in 0 .. popups' /\ popups' \in Nat
    BY <2>1
  <2> QED
    BY <2>2, <2>3
<1> QED
  BY <1>1, <1>2, <1>3, <1>4, <1>5 DEF ListsNext

-----------------------------------------------------------------------------
ListsInv == RequestsInv /\ ReadsInv /\ AddInv /\ QrInv /\ DraftInv /\ PopupsInv

\* The invariant of the lists of the settings.
LEMMA ListsInvariant == ListsSpec => []ListsInv
<1>1. ListsInit => ListsInv
  <2>1. ListsInit => PopupsInv
    <3>1. ListsInit => popups \in Nat /\ popup \in 0 .. popups
      BY DEF ListsInit
    <3>2. ListsInit => popupBusy \in BOOLEAN
      BY DEF ListsInit
    <3> QED
      BY <3>1, <3>2 DEF PopupsInv
  <2> QED
    BY <2>1, RequestsInit, ReadsInit, AddInit, QrInit, DraftInit DEF ListsInv
<1>2. ListsInv /\ [ListsNext]_listVars => ListsInv'
  BY RequestsStep, ReadsStep, AddStep, QrStep, DraftStep, PopupsStep DEF ListsInv
<1> QED
  BY <1>1, <1>2, PTL DEF ListsSpec

\* The types of the lists of the settings.
THEOREM ListsTypeCorrect == ListsSpec => []ListsTypeOK
<1>1. ListsInv => ListsTypeOK
  BY DEF ListsInv, RequestsInv, ListsTyped, ReadsInv, ReadsTyped, PopupsInv, QrInv, KiosksTyped,
         ListsTypeOK
<1> QED
  BY <1>1, ListsInvariant, PTL

\* A tab of the settings with nothing under way shows every change, short of the
\* reads and answers that were lost or overtaken, and of the changes of others.
THEOREM ListsAreCurrent == ListsSpec => []QuietListIsCurrent
<1>1. ListsInv => QuietListIsCurrent
  BY DEF ListsInv, ReadsInv, ListIsComing, QuietListIsCurrent
<1> QED
  BY <1>1, ListsInvariant, PTL

\* An opening of the form adds one row at most, on the tabs whose button waits for
\* the press before, unless the answer of the press was lost.
THEOREM AddedOnce == ListsSpec => []AddOnce
<1>1. ListsInv => AddOnce
  BY DEF ListsInv, RequestsInv, ListsTyped, AddInv, NoRowYet, OneForm, AddOnce
<1> QED
  BY <1>1, ListsInvariant, PTL

\* The QR code on the screen is one a kiosk can still be paired with, once nothing
\* is under way, unless two requests about the kiosk crossed or an answer was lost.
THEOREM QrStaysLive == ListsSpec => []QrIsLive
<1>1. ListsInv => QrIsLive
  BY DEF ListsInv, QrInv, KiosksTyped, CodeIsLive, Live, QrIsLive
<1> QED
  BY <1>1, ListsInvariant, PTL

\* Only an address that passed its test is saved for an AI provider, and only what was
\* typed for it for a source, but for the exemptions the two properties name.
THEOREM DraftsAsTyped == ListsSpec => [](SavedWasTested /\ AddedIsTyped)
<1>1. ListsInv => SavedWasTested /\ AddedIsTyped
  BY DEF ListsInv, DraftInv
<1> QED
  BY <1>1, ListsInvariant, PTL

-----------------------------------------------------------------------------
(***************************************************************************)
(* The screens of chores, tasks and batch runs.                            *)
(***************************************************************************)
ItemState == {"none", "open", "done"}
ChoreDo == {"complete", "uncomplete", "create", "update", "delete", "trigger"}
ChorePost == [no : 1 .. posted, do : ChoreDo, item : Item \cup {NoItem},
              at : {"sent", "was open", "was done", "made"},
              meant : Item \cup {NoItem}, body : Item \cup {NoItem}]

ChoresTyped ==
    /\ screen \in {"chores", "widget", "tasks", "batch"} /\ items \in [Item -> ItemState]
    /\ posts \subseteq ChorePost /\ posted \in Nat
    /\ counted \in [Item -> Nat] /\ finished \in [Item -> Nat]
    /\ editedChore \in Item \cup {NoItem} /\ wanted \in Item \cup {NoItem}
    /\ filledFor \in Item \cup {NoItem}
    /\ formOpen \in BOOLEAN /\ formBusy \in BOOLEAN /\ hopped \in BOOLEAN

PostsKnown ==
    \A p \in posts : /\ p.at \in {"was open", "was done"} => p.do = "complete"
                     /\ p.do = "complete" => screen # "batch" /\ p.item \in Item
                     /\ p.do = "trigger" => screen = "batch"

\* Requests about one item that did not cross are one after the other.
OneAboutItem ==
    /\ \A p, q \in posts : p.item = q.item /\ p.item \in Item \ doubled => p = q
    /\ \A p \in posts : p.at = "was open" /\ p.item \notin doubled => items[p.item] = "open"

\* The form writes the chore it was opened for and filled in with.
EditFits ==
    ~hopped => /\ editedChore # NoItem => wanted = editedChore /\ filledFor = editedChore
               /\ \A p \in posts : p.do = "update" => p.meant = p.item /\ p.body = p.item

\* A form that cannot be sent waits for an answer.
FormWaits ==
    formBusy /\ formOpen /\ screen # "tasks" =>
        \E p \in posts : p.do \in {"create", "update", "trigger"}

PostsInv == ChoresTyped /\ PostsKnown /\ OneAboutItem /\ CountedOnce /\ EditFits /\ EditIsItsOwn
            /\ FormWaits

\* Nothing was sent from a screen that opens.
LEMMA PostsInit == ChoreScreensInit => PostsInv
<1> SUFFICES ASSUME ChoreScreensInit PROVE PostsInv
  OBVIOUS
<1>1. /\ items \in [Item -> ItemState] /\ counted \in [Item -> Nat] /\ finished \in [Item -> Nat]
      /\ \A i \in Item : counted[i] = 0 /\ finished[i] = 0
  BY DEF ChoreScreensInit, ItemState
<1>2. posts = {} /\ posted \in Nat /\ editedChore = NoItem /\ wanted = NoItem /\ filledFor = NoItem
      /\ rewritten = {}
  BY DEF ChoreScreensInit
<1>3. formOpen = FALSE /\ formBusy = FALSE /\ hopped = FALSE
  BY DEF ChoreScreensInit
<1>4. screen \in {"chores", "widget", "tasks", "batch"}
  BY DEF ChoreScreensInit
<1>5. ChoresTyped
  BY <1>1, <1>2, <1>3, <1>4 DEF ChoresTyped
<1>6. CountedOnce
  BY <1>1 DEF CountedOnce
<1>7. PostsKnown /\ OneAboutItem /\ EditFits /\ EditIsItsOwn /\ FormWaits
  BY <1>2, <1>3 DEF PostsKnown, OneAboutItem, EditFits, EditIsItsOwn, FormWaits
<1> QED
  BY <1>5, <1>6, <1>7 DEF PostsInv

\* A request is sent.
LEMMA PostKeeps ==
  ASSUME PostsInv, NEW do \in ChoreDo, NEW i \in Item \cup {NoItem}, Post(do, i),
         UNCHANGED <<screen, items, counted, finished, formOpen, editedChore, filledFor, wanted,
                     rewritten, hopped>>,
         formBusy' \in BOOLEAN, formBusy' = formBusy \/ do \in {"create", "update", "trigger"},
         do = "complete" => screen # "batch" /\ i \in Item, do = "trigger" => screen = "batch",
         do = "update" => i = editedChore /\ i # NoItem
  PROVE  PostsInv'
<1> USE DEF PostsInv
<1>1. PICK w : /\ w \in ChorePost' /\ w.do = do /\ w.item = i /\ w.at = "sent" /\ w.meant = wanted
               /\ w.body = filledFor /\ posts' = posts \cup {w}
  <2> DEFINE w == [no |-> posted', do |-> do, item |-> i, at |-> "sent", meant |-> wanted,
                   body |-> filledFor]
  <2>1. posted' \in 1 .. posted' /\ wanted \in Item \cup {NoItem} /\ filledFor \in Item \cup {NoItem}
    BY DEF Post, ChoresTyped
  <2>2. w \in ChorePost'
    BY <2>1 DEF ChorePost
  <2> QED
    BY <2>2 DEF Post
<1>2. posted \in Nat /\ posted' = posted + 1 /\ posts \subseteq ChorePost'
  <2>1. posted \in Nat /\ posted' = posted + 1 /\ posts \subseteq ChorePost
    BY DEF Post, ChoresTyped
  <2>2. 1 .. posted \subseteq 1 .. posted'
    BY <2>1
  <2> QED
    BY <2>1, <2>2 DEF ChorePost
<1>3. ChoresTyped'
  BY <1>1, <1>2 DEF ChoresTyped
<1>4. PostsKnown'
  BY <1>1 DEF PostsKnown
<1>5. doubled \subseteq doubled' /\ ((\E p \in posts : p.item = i) => i \in doubled')
  BY DEF Post
<1>6. OneAboutItem' /\ CountedOnce'
  <2>1. \A p, q \in posts' : p.item = q.item /\ p.item \in Item \ doubled' => p = q
    BY <1>1, <1>5 DEF OneAboutItem
  <2>2. \A p \in posts' : p.at = "was open" /\ p.item \notin doubled' => items'[p.item] = "open"
    BY <1>1, <1>5 DEF OneAboutItem
  <2>3. CountedOnce'
    BY <1>5 DEF CountedOnce
  <2> QED
    BY <2>1, <2>2, <2>3 DEF OneAboutItem
<1>7. EditFits' /\ EditIsItsOwn'
  BY <1>1 DEF EditFits, EditIsItsOwn
<1>8. FormWaits'
  BY <1>1 DEF FormWaits
<1> QED
  BY <1>3, <1>4, <1>6, <1>7, <1>8

\* A request is answered, or fails.
LEMMA PostGoneKeeps ==
  ASSUME PostsInv, NEW p \in posts, posts' = posts \ {p},
         UNCHANGED <<screen, items, counted, finished, posted, doubled, filledFor, wanted,
                     rewritten, hopped>>,
         formBusy' \in BOOLEAN, formOpen' \in BOOLEAN, editedChore' \in {editedChore, NoItem},
         formBusy' => formBusy, formOpen' => formOpen,
         formBusy' /\ formOpen' /\ p.do \in {"create", "update", "trigger"} =>
             screen = "tasks" \/ \E q \in posts \ {p} : q.do \in {"create", "update"}
  PROVE  PostsInv'
<1> USE DEF PostsInv
<1>1. ChoresTyped' /\ PostsKnown'
  BY DEF ChoresTyped, PostsKnown, ChorePost
<1>2. OneAboutItem' /\ CountedOnce' /\ EditFits' /\ EditIsItsOwn'
  BY DEF OneAboutItem, CountedOnce, EditFits, EditIsItsOwn
<1>3. FormWaits'
  BY DEF FormWaits
<1> QED
  BY <1>1, <1>2, <1>3

\* Nothing the requests know of changes but the form, which is shut, or opens idle.
LEMMA PostsAlone ==
  ASSUME PostsInv,
         UNCHANGED <<screen, items, counted, finished, posts, posted, doubled, rewritten>>,
         formBusy' \in BOOLEAN, formOpen' \in BOOLEAN, hopped' \in BOOLEAN, hopped => hopped',
         editedChore' \in Item \cup {NoItem}, wanted' \in Item \cup {NoItem},
         filledFor' \in Item \cup {NoItem},
         ~hopped' /\ editedChore' # NoItem => wanted' = editedChore' /\ filledFor' = editedChore',
         formBusy' /\ formOpen' => screen = "tasks" \/ (formBusy /\ formOpen)
  PROVE  PostsInv'
<1> USE DEF PostsInv
<1>1. ChoresTyped' /\ PostsKnown'
  BY DEF ChoresTyped, PostsKnown, ChorePost
<1>2. OneAboutItem' /\ CountedOnce' /\ EditFits' /\ EditIsItsOwn' /\ FormWaits'
  BY DEF OneAboutItem, CountedOnce, EditFits, EditIsItsOwn, FormWaits
<1> QED
  BY <1>1, <1>2

\* The server has come further with a request.
LEMMA PostMoves ==
  ASSUME PostsInv, NEW p \in posts, NEW a \in {"was open", "was done", "made"},
         posts' = (posts \ {p}) \cup {[p EXCEPT !.at = a]},
         a \in {"was open", "was done"} => p.do = "complete",
         a = "was open" => items'[p.item] = "open",
         UNCHANGED <<screen, posted, doubled, formOpen, formBusy, editedChore, filledFor,
                     wanted, hopped>>,
         ~hopped => rewritten' = rewritten,
         items' \in [Item -> ItemState],
         screen = "batch" \/ \A i \in Item : i # p.item /\ items[i] = "open" => items'[i] = "open",
         counted' \in [Item -> Nat], finished' \in [Item -> Nat], CountedOnce'
  PROVE  PostsInv'
<1> USE DEF PostsInv
<1> DEFINE s == [p EXCEPT !.at = a]
<1>1. p \in ChorePost
  BY DEF ChoresTyped
<1>2. /\ s \in ChorePost /\ s.at = a /\ s.do = p.do /\ s.item = p.item /\ s.meant = p.meant
      /\ s.body = p.body
  BY <1>1 DEF ChorePost
<1>3. posts' = (posts \ {p}) \cup {s}
  OBVIOUS
<1> HIDE DEF s
<1>4. ChoresTyped'
  BY <1>2, <1>3 DEF ChoresTyped, ChorePost
<1>5. PostsKnown'
  BY <1>2, <1>3 DEF PostsKnown
<1>6. OneAboutItem'
  <2>1. ASSUME NEW q \in posts', NEW r \in posts', q.item = r.item, q.item \in Item \ doubled'
        PROVE  q = r
    <3>1. (q = s \/ q \in posts \ {p}) /\ (r = s \/ r \in posts \ {p})
      BY <1>3
    <3>2. \A t \in posts \ {p} : ~(t.item = p.item /\ t.item \in Item \ doubled)
      BY DEF OneAboutItem
    <3> QED
      BY <1>2, <2>1, <3>1, <3>2 DEF OneAboutItem
  <2>2. ASSUME NEW q \in posts', q.at = "was open", q.item \notin doubled'
        PROVE  items'[q.item] = "open"
    <3>1. CASE q = s
      BY <1>2, <2>2, <3>1
    <3>2. CASE q # s
      <4>1. q \in posts /\ q # p /\ items[q.item] = "open" /\ q.item \in Item /\ screen # "batch"
        BY <1>3, <2>2, <3>2 DEF OneAboutItem, PostsKnown
      <4>2. q.item # p.item
        BY <2>2, <4>1 DEF OneAboutItem
      <4> QED
        BY <4>1, <4>2
    <3> QED
      BY <3>1, <3>2
  <2> QED
    BY <2>1, <2>2 DEF OneAboutItem
<1>7. EditFits' /\ EditIsItsOwn'
  BY <1>2, <1>3 DEF EditFits, EditIsItsOwn, ChoresTyped
<1>8. FormWaits'
  BY <1>2, <1>3 DEF FormWaits
<1> QED
  BY <1>4, <1>5, <1>6, <1>7, <1>8

\* Every step keeps what a screen sends counted once and its own.
LEMMA PostsStep ==
  ASSUME PostsInv, [ChoreScreensNext]_choreScreenVars
  PROVE  PostsInv'
<1>1. /\ screen \in {"chores", "widget", "tasks", "batch"} /\ items \in [Item -> ItemState]
      /\ posts \subseteq ChorePost /\ posted \in Nat
      /\ counted \in [Item -> Nat] /\ finished \in [Item -> Nat]
      /\ editedChore \in Item \cup {NoItem} /\ wanted \in Item \cup {NoItem}
      /\ filledFor \in Item \cup {NoItem}
      /\ formOpen \in BOOLEAN /\ formBusy \in BOOLEAN /\ hopped \in BOOLEAN
      /\ NoItem \notin Item
  BY ChoreScreensAssumption DEF PostsInv, ChoresTyped
<1>2. ~hopped /\ editedChore # NoItem => wanted = editedChore /\ filledFor = editedChore
  BY DEF PostsInv, EditFits
<1>3. ASSUME UNCHANGED <<screen, serverBits, posts, posted, doubled, formBits>>
      PROVE  PostsInv'
  BY <1>1, <1>2, <1>3, PostsAlone DEF serverBits, formBits
<1>4. CASE (\E g \in glances : ListRead(g) \/ ListShown(g) \/ ListFails(g))
           \/ (\E who \in Grownup : Pick(who)) \/ AlarmRings \/ RunHeard \/ UNCHANGED choreScreenVars
  BY <1>3, <1>4 DEF ListRead, ListShown, ListFails, Pick, AlarmRings, RunHeard, choreScreenVars
<1>5. ASSUME NEW i \in Item, TickItem(i) \/ DeleteChore(i)
      PROVE  PostsInv'
  <2>1. /\ UNCHANGED <<screen, items, counted, finished, formOpen, formBusy, editedChore, filledFor,
                       wanted, rewritten, hopped>>
        /\ screen # "batch"
        /\ \E do \in {"complete", "uncomplete", "delete"} : Post(do, i)
    BY <1>5 DEF TickItem, DeleteChore, serverBits, formBits
  <2>2. PICK do \in {"complete", "uncomplete", "delete"} : Post(do, i)
    BY <2>1
  <2>3. do \in ChoreDo /\ do # "update" /\ do # "trigger"
    BY DEF ChoreDo
  <2> QED
    BY <1>1, <2>1, <2>2, <2>3, PostKeeps
<1>6. CASE SubmitChore \/ SubmitTask \/ TriggerBriefing
  <2>1. /\ UNCHANGED <<screen, items, counted, finished, formOpen, editedChore, filledFor,
                       wanted, rewritten, hopped>>
        /\ formBusy' \in BOOLEAN
    BY <1>6 DEF SubmitChore, SubmitTask, TriggerBriefing, serverBits
  <2>2. \/ Post("update", editedChore) /\ editedChore # NoItem
        \/ Post("create", NoItem)
        \/ Post("trigger", NoItem) /\ screen = "batch"
    BY <1>6 DEF SubmitChore, SubmitTask, TriggerBriefing
  <2> QED
    BY <1>1, <2>1, <2>2, PostKeeps DEF ChoreDo
<1>7. ASSUME NEW p \in posts,
             Answer(p) \/ ChoreSaved(p) \/ TaskSaved(p) \/ BriefingStarted(p)
      PROVE  PostsInv'
  <2>1. /\ posts' = posts \ {p}
        /\ UNCHANGED <<screen, items, counted, finished, posted, doubled, filledFor, wanted,
                       rewritten, hopped>>
        /\ editedChore' \in {editedChore, NoItem}
    BY <1>7 DEF Answer, ChoreSaved, TaskSaved, BriefingStarted, serverBits, formBits
  <2>2. /\ formBusy' \in BOOLEAN /\ formOpen' \in BOOLEAN
        /\ (formBusy' => formBusy) /\ (formOpen' => formOpen)
        /\ p.do \in {"create", "update", "trigger"} => ~(formBusy' /\ formOpen')
    <3>1. CASE Answer(p)
      BY <1>1, <3>1 DEF Answer, formBits
    <3>2. CASE ChoreSaved(p)
      BY <1>1, <3>2 DEF ChoreSaved
    <3>3. CASE TaskSaved(p)
      BY <1>1, <3>3 DEF TaskSaved
    <3>4. CASE BriefingStarted(p)
      BY <1>1, <3>4 DEF BriefingStarted
    <3> QED
      BY <1>7, <3>1, <3>2, <3>3, <3>4
  <2> QED
    BY <2>1, <2>2, PostGoneKeeps
<1>8. ASSUME NEW p \in posts, ChorePostFails(p)
      PROVE  PostsInv'
  <2>1. /\ posts' = posts \ {p}
        /\ UNCHANGED <<screen, items, counted, finished, posted, doubled, filledFor, wanted,
                       rewritten, hopped, editedChore, formOpen>>
        /\ formBusy' = (formBusy /\ \/ p.do \notin {"create", "update", "trigger"}
                                    \/ \E q \in posts : q.no > p.no /\ q.do \in {"create", "update"})
    BY <1>8 DEF ChorePostFails, serverBits
  <2>2. \A q \in posts : q.no > p.no => q # p
    <3>1. p \in ChorePost /\ 1 .. posted \subseteq Nat
      BY <1>1
    <3>2. p.no \in Nat
      BY <3>1 DEF ChorePost
    <3> QED
      BY <3>2
  <2>3. formBusy' \in BOOLEAN /\ (formBusy' => formBusy)
    BY <1>1, <2>1
  <2>4. formBusy' /\ p.do \in {"create", "update", "trigger"} =>
            \E q \in posts \ {p} : q.do \in {"create", "update"}
    BY <2>1, <2>2
  <2> QED
    BY <1>1, <2>1, <2>3, <2>4, PostGoneKeeps
<1>9. ASSUME NEW p \in posts, CheckDone(p)
      PROVE  PostsInv'
  <2>1. PICK a \in {"was open", "was done"} :
           /\ posts' = (posts \ {p}) \cup {[p EXCEPT !.at = a]}
           /\ a = (IF items[p.item] = "done" THEN "was done" ELSE "was open")
    BY <1>9 DEF CheckDone
  <2>2. /\ p.do = "complete" /\ items[p.item] # "none" /\ p.item \in Item
        /\ UNCHANGED <<screen, items, counted, finished, posted, doubled, formOpen, formBusy,
                       editedChore, filledFor, wanted, hopped, rewritten>>
    BY <1>9 DEF CheckDone, serverBits, formBits, PostsInv, PostsKnown
  <2>3. a = "was open" => items[p.item] = "open"
    BY <1>1, <2>1, <2>2 DEF ItemState
  <2>4. CountedOnce'
    BY <2>2 DEF PostsInv, CountedOnce
  <2> QED
    BY <1>1, <2>1, <2>2, <2>3, <2>4, PostMoves
<1>10. ASSUME NEW p \in posts, CompleteAndCount(p)
       PROVE  PostsInv'
  <2>1. /\ p.at \in {"was open", "was done"} /\ items[p.item] # "none"
        /\ posts' = (posts \ {p}) \cup {[p EXCEPT !.at = "made"]}
        /\ items' = [items EXCEPT ![p.item] = "done"]
        /\ finished' = IF items[p.item] = "open" THEN [finished EXCEPT ![p.item] = @ + 1]
                                                 ELSE finished
        /\ \/ counted' = IF p.at = "was open" THEN [counted EXCEPT ![p.item] = @ + 1] ELSE counted
           \/ UNCHANGED counted
        /\ UNCHANGED <<screen, posted, doubled, formOpen, formBusy, editedChore, filledFor, wanted,
                       hopped, rewritten>>
    BY <1>10 DEF CompleteAndCount, formBits
  <2>2. p.item \in Item
    BY <2>1 DEF PostsInv, PostsKnown
  <2>3. items' \in [Item -> ItemState] /\ \A i \in Item \ {p.item} : items'[i] = items[i]
    BY <1>1, <2>1, <2>2 DEF ItemState
  <2>4. /\ \A i \in Item : counted[i] + 1 \in Nat /\ finished[i] + 1 \in Nat
        /\ counted' \in [Item -> Nat] /\ finished' \in [Item -> Nat]
        /\ \A i \in Item \ {p.item} : counted'[i] = counted[i] /\ finished'[i] = finished[i]
    <3>1. \A i \in Item : counted[i] + 1 \in Nat /\ finished[i] + 1 \in Nat
      BY <1>1
    <3> QED
      BY <1>1, <2>1, <2>2, <3>1
  <2>5. CountedOnce'
    <3> SUFFICES ASSUME NEW i \in Item \ doubled PROVE counted'[i] <= finished'[i]
      BY <2>1 DEF CountedOnce
    <3>1. counted[i] <= finished[i]
      BY DEF PostsInv, CountedOnce
    <3>2. CASE i # p.item
      BY <2>4, <3>1, <3>2
    <3>3. CASE i = p.item
      <4>1. p.at = "was open" => items[i] = "open"
        BY <3>3 DEF PostsInv, OneAboutItem
      <4>2. finished'[i] = IF items[i] = "open" THEN finished[i] + 1 ELSE finished[i]
        BY <1>1, <2>1, <3>3
      <4>3. counted'[i] = counted[i] \/ (p.at = "was open" /\ counted'[i] = counted[i] + 1)
        BY <1>1, <2>1, <3>3
      <4>4. counted[i] \in Nat /\ finished[i] \in Nat
        BY <1>1
      <4>5. CASE counted'[i] = counted[i]
        BY <3>1, <4>2, <4>4, <4>5
      <4>6. CASE p.at = "was open" /\ counted'[i] = counted[i] + 1
        <5>1. finished'[i] = finished[i] + 1
          BY <4>1, <4>2, <4>6
        <5>2. counted[i] + 1 <= finished[i] + 1
          BY <3>1, <4>4
        <5> QED
          BY <4>6, <5>1, <5>2
      <4> QED
        BY <4>3, <4>5, <4>6
    <3> QED
      BY <3>2, <3>3
  <2> QED
    BY <2>1, <2>3, <2>4, <2>5, PostMoves
<1>11. ASSUME NEW p \in posts, Made(p)
       PROVE  PostsInv'
  <2>1. PICK i \in Item :
           /\ CASE p.do = "create" -> items[i] = "none"
                [] p.do = "trigger" -> i = (CHOOSE j \in Item : items[j] = "none")
                [] OTHER -> i = p.item
           /\ items' = CASE p.do = "delete" -> [items EXCEPT ![i] = "none"]
                         [] p.do = "update" -> items
                         [] OTHER -> [items EXCEPT ![i] = "open"]
    BY <1>11 DEF Made
  <2>2. /\ posts' = (posts \ {p}) \cup {[p EXCEPT !.at = "made"]}
        /\ rewritten' = (IF p.do = "update" /\ (p.meant # p.item \/ p.body # p.item)
                         THEN rewritten \cup {p.item} ELSE rewritten)
        /\ UNCHANGED <<screen, counted, finished, posted, doubled, formOpen, formBusy, editedChore,
                       filledFor, wanted, hopped>>
    BY <1>11 DEF Made
  <2>3. items' \in [Item -> ItemState] /\ \A j \in Item \ {i} : items'[j] = items[j]
    BY <1>1, <2>1 DEF ItemState
  <2>4. screen = "batch" \/ i = p.item \/ items[i] # "open"
    BY <2>1 DEF PostsInv, PostsKnown
  <2>5. ~hopped => rewritten' = rewritten
    BY <2>2 DEF PostsInv, EditFits
  <2>6. CountedOnce'
    BY <2>2 DEF PostsInv, CountedOnce
  <2> QED
    BY <1>1, <2>2, <2>3, <2>4, <2>5, <2>6, PostMoves
<1>12. ASSUME NEW i \in Item, RunEnds(i)
       PROVE  PostsInv'
  <2>1. /\ screen = "batch" /\ items' = [items EXCEPT ![i] = "done"]
        /\ UNCHANGED <<screen, counted, finished, posts, posted, doubled, formOpen, formBusy,
                       editedChore, filledFor, wanted, hopped, rewritten>>
    BY <1>12 DEF RunEnds, formBits
  <2>2. items' \in [Item -> ItemState]
    BY <1>1, <2>1 DEF ItemState
  <2>3. \A p \in posts : p.at # "was open"
    BY <2>1 DEF PostsInv, PostsKnown
  <2> QED
    BY <2>1, <2>2, <2>3 DEF PostsInv, ChoresTyped, ChorePost, PostsKnown, OneAboutItem,
                            CountedOnce,
       EditFits, EditIsItsOwn, FormWaits
<1>13. CASE PressAdd \/ CancelForm \/ ToggleTaskForm \/ \E i \in Item : PressEdit(i)
  <2>1. /\ UNCHANGED <<screen, items, counted, finished, posts, posted, doubled, rewritten>>
        /\ editedChore' \in Item \cup {NoItem} /\ wanted' \in Item \cup {NoItem}
        /\ filledFor' \in Item \cup {NoItem}
    BY <1>1, <1>13 DEF PressAdd, CancelForm, ToggleTaskForm, PressEdit, serverBits
  <2>2. /\ formBusy' \in BOOLEAN /\ formOpen' \in BOOLEAN /\ hopped' \in BOOLEAN
        /\ (hopped => hopped')
        /\ formBusy' /\ formOpen' => screen = "tasks" \/ (formBusy /\ formOpen)
    BY <1>1, <1>13 DEF PressAdd, CancelForm, ToggleTaskForm, PressEdit
  <2>3. ~hopped' /\ editedChore' # NoItem => wanted' = editedChore' /\ filledFor' = editedChore'
    BY <1>1, <1>2, <1>13 DEF PressAdd, CancelForm, ToggleTaskForm, PressEdit
  <2> QED
    BY <2>1, <2>2, <2>3, PostsAlone
<1> QED
  BY <1>4, <1>5, <1>6, <1>7, <1>8, <1>9, <1>10, <1>11, <1>12, <1>13 DEF ChoreScreensNext

-----------------------------------------------------------------------------
(***************************************************************************)
(* The list of a screen.                                                   *)
(***************************************************************************)
Glance == [no : 1 .. glanced, who : Grownup \cup {NoGrownup},
           list : {<<>>} \cup [Item -> ItemState]]

GlancesTyped ==
    /\ picked \in Grownup \cup {NoGrownup} /\ page \in [Item -> ItemState]
    /\ glanced \in Nat /\ glancedUpTo \in 0 .. glanced /\ glances \subseteq Glance
    /\ signals \in Nat /\ missed \in BOOLEAN /\ alarm \in BOOLEAN

GlancesDiffer ==
    /\ \A g, h \in glances : g.no = h.no => g = h
    /\ \A g \in glances : /\ g.no # glancedUpTo /\ g.who = picked
                          /\ screen = "tasks" => g.no = glanced

ScreenIsComing ==
    \/ missed \/ signals > 0 \/ alarm
    \/ \E p \in posts : p.at = "made"
    \/ \E g \in glances : g.no = glanced /\ g.list \in {<<>>, Visible(picked)}
    \/ glancedUpTo = glanced /\ page = Visible(picked)

GlancesInv == GlancesTyped /\ GlancesDiffer /\ ScreenIsComing

\* A screen that opens has asked for its list, unless it waits for a name.
LEMMA GlancesInit == ChoreScreensInit => GlancesInv
<1> SUFFICES ASSUME ChoreScreensInit PROVE GlancesInv
  OBVIOUS
<1>1. CASE screen = "tasks" /\ picked = NoGrownup
  <2>1. page \in [Item -> ItemState] /\ page = Visible(picked)
    BY <1>1, ChoreScreensAssumption DEF ChoreScreensInit, Visible, ItemState
  <2>2. glances = {} /\ glanced = 0 /\ glancedUpTo = 0 /\ signals = 0
    BY <1>1 DEF ChoreScreensInit
  <2>3. missed = FALSE /\ alarm = FALSE
    BY DEF ChoreScreensInit
  <2>4. glanced \in Nat /\ glancedUpTo \in 0 .. glanced /\ signals \in Nat
    BY <2>2
  <2>5. GlancesTyped
    BY <1>1, <2>1, <2>2, <2>3, <2>4 DEF GlancesTyped
  <2> QED
    BY <2>1, <2>2, <2>5 DEF GlancesInv, GlancesDiffer, ScreenIsComing
<1>2. CASE ~(screen = "tasks" /\ picked = NoGrownup)
  <2> DEFINE g == [no |-> 1, who |-> picked, list |-> <<>>]
  <2>1. page \in [Item -> ItemState]
    BY DEF ChoreScreensInit, ItemState
  <2>2. glances = {g} /\ glanced = 1 /\ glancedUpTo = 0 /\ signals = 0
    BY <1>2 DEF ChoreScreensInit
  <2>3. missed = FALSE /\ alarm = FALSE
    BY DEF ChoreScreensInit
  <2>4. picked \in Grownup \cup {NoGrownup}
    <3>1. (CHOOSE j \in Item : TRUE) \in Item
      BY ChoreScreensAssumption
    <3> QED
      BY <1>2, <3>1, ChoreScreensAssumption DEF ChoreScreensInit
  <2>5. g \in Glance /\ g.no = 1 /\ g.who = picked /\ g.list = <<>>
    BY <2>2, <2>4 DEF Glance
  <2> HIDE DEF g
  <2>6. glanced \in Nat /\ glancedUpTo \in 0 .. glanced /\ signals \in Nat
    BY <2>2
  <2>7. GlancesTyped
    BY <2>1, <2>2, <2>3, <2>4, <2>5, <2>6 DEF GlancesTyped
  <2>8. GlancesDiffer
    BY <2>2, <2>5 DEF GlancesDiffer
  <2>9. ScreenIsComing
    BY <2>2, <2>5 DEF ScreenIsComing
  <2> QED
    BY <2>7, <2>8, <2>9 DEF GlancesInv
<1> QED
  BY <1>1, <1>2

\* The list is asked for.
LEMMA AskKeeps ==
  ASSUME GlancesInv, NEW who \in Grownup \cup {NoGrownup}, AskList(who), picked' = who,
         who = picked \/ screen = "tasks",
         signals' \in Nat, alarm' \in BOOLEAN, UNCHANGED <<screen, items, page, glancedUpTo>>
  PROVE  GlancesInv'
<1> USE DEF GlancesInv
<1>1. CASE screen = "widget" /\ glances # {}
  <2>1. missed' = TRUE /\ UNCHANGED <<glances, glanced>>
    BY <1>1 DEF AskList, glanceBits
  <2> QED
    BY <1>1, <2>1 DEF GlancesTyped, GlancesDiffer, ScreenIsComing, Glance
<1>2. CASE ~(screen = "widget" /\ glances # {})
  <2>1. glanced \in Nat /\ glanced' = glanced + 1 /\ missed' = missed
    BY <1>2 DEF AskList, GlancesTyped
  <2>2. PICK g : /\ g \in Glance' /\ g.no = glanced' /\ g.who = who /\ g.list = <<>>
                 /\ glances' = IF screen = "tasks" THEN {g} ELSE glances \cup {g}
    <3> DEFINE ask == [no |-> glanced', who |-> who, list |-> <<>>]
    <3>1. ask \in Glance'
      BY <2>1 DEF Glance
    <3> QED
      BY <1>2, <3>1 DEF AskList
  <2>3. \A h \in glances : h \in Glance' /\ h.no < glanced'
    BY <2>1 DEF GlancesTyped, Glance
  <2>4. GlancesTyped'
    BY <2>1, <2>2, <2>3 DEF GlancesTyped
  <2>5. GlancesDiffer'
    BY <2>1, <2>2, <2>3 DEF GlancesDiffer, GlancesTyped, Glance
  <2>6. ScreenIsComing'
    BY <2>2 DEF ScreenIsComing
  <2> QED
    BY <2>4, <2>5, <2>6
<1> QED
  BY <1>1, <1>2

\* Nothing changes at the server or on the page.
LEMMA GlancesAlone ==
  ASSUME GlancesInv, UNCHANGED <<screen, picked, page, glances, glanced, glancedUpTo>>,
         signals' \in Nat, missed' \in BOOLEAN, alarm' \in BOOLEAN,
         \/ missed' \/ signals' > 0 \/ alarm' \/ \E p \in posts' : p.at = "made"
         \/ /\ UNCHANGED <<items, missed, signals, alarm>>
            /\ \A p \in posts : p.at = "made" => \E q \in posts' : q.at = "made"
  PROVE  GlancesInv'
<1> USE DEF GlancesInv
<1>1. GlancesTyped' /\ GlancesDiffer'
  BY DEF GlancesTyped, GlancesDiffer, Glance
<1>2. ScreenIsComing'
  <2>1. CASE missed' \/ signals' > 0 \/ alarm' \/ \E p \in posts' : p.at = "made"
    BY <2>1 DEF ScreenIsComing
  <2>2. CASE /\ UNCHANGED <<items, missed, signals, alarm>>
             /\ \A p \in posts : p.at = "made" => \E q \in posts' : q.at = "made"
    BY <2>2 DEF ScreenIsComing, Visible
  <2> QED
    BY <2>1, <2>2
<1> QED
  BY <1>1, <1>2

\* Every step keeps a list that is behind on its way to the server's.
LEMMA GlancesStep ==
  ASSUME PostsInv, GlancesInv, [ChoreScreensNext]_choreScreenVars
  PROVE  GlancesInv'
<1> USE DEF GlancesInv
<1>1. /\ picked \in Grownup \cup {NoGrownup} /\ page \in [Item -> ItemState]
      /\ items \in [Item -> ItemState]
      /\ glanced \in Nat /\ glancedUpTo \in 0 .. glanced /\ glances \subseteq Glance
      /\ signals \in Nat /\ missed \in BOOLEAN /\ alarm \in BOOLEAN
      /\ posts \subseteq ChorePost
      /\ \A g \in glances : g.no \in 1 .. glanced /\ g.who = picked
                            /\ g.list \in {<<>>} \cup [Item -> ItemState]
  BY DEF GlancesTyped, PostsInv, ChoresTyped, Glance, GlancesDiffer
<1>2. ASSUME NEW i \in Item, TickItem(i) \/ PressEdit(i) \/ DeleteChore(i)
      PROVE  GlancesInv'
  <2>1. /\ UNCHANGED <<screen, items, page, glances, glanced, glancedUpTo, picked, signals, missed, alarm>>
        /\ posts \subseteq posts'
    BY <1>2 DEF TickItem, PressEdit, DeleteChore, Post, serverBits, pageBits, glanceBits
  <2> QED
    BY <1>1, <2>1, GlancesAlone
<1>3. CASE PressAdd \/ CancelForm \/ SubmitChore \/ ToggleTaskForm \/ SubmitTask \/ TriggerBriefing
           \/ UNCHANGED choreScreenVars
  <2>1. /\ UNCHANGED <<screen, items, page, glances, glanced, glancedUpTo, picked, signals, missed, alarm>>
        /\ posts \subseteq posts'
    BY <1>3 DEF PressAdd, CancelForm, SubmitChore, ToggleTaskForm, SubmitTask, TriggerBriefing,
       choreScreenVars, Post, serverBits, pageBits, glanceBits
  <2> QED
    BY <1>1, <2>1, GlancesAlone
<1>4. ASSUME NEW p \in posts, NEW a, posts' = (posts \ {p}) \cup {[p EXCEPT !.at = a]},
             p.at # "made", a = "made" \/ UNCHANGED items,
             UNCHANGED <<screen, page, glances, glanced, glancedUpTo, picked, signals, missed, alarm>>
      PROVE  GlancesInv'
  <2> DEFINE s == [p EXCEPT !.at = a]
  <2>1. s \in posts' /\ s.at = a /\ \A q \in posts : q.at = "made" => q \in posts'
    BY <1>1, <1>4 DEF ChorePost
  <2> HIDE DEF s
  <2>2. CASE a = "made"
    BY <1>1, <1>4, <2>1, <2>2, GlancesAlone
  <2>3. CASE UNCHANGED items
    BY <1>1, <1>4, <2>1, <2>3, GlancesAlone
  <2> QED
    BY <1>4, <2>2, <2>3
<1>5. ASSUME NEW p \in posts, CheckDone(p) \/ CompleteAndCount(p) \/ Made(p)
      PROVE  GlancesInv'
  <2>1. /\ UNCHANGED <<screen, page, glances, glanced, glancedUpTo, picked, signals, missed, alarm>>
        /\ p.at # "made"
    BY <1>5 DEF CheckDone, CompleteAndCount, Made, pageBits, glanceBits
  <2>2. \E a : /\ posts' = (posts \ {p}) \cup {[p EXCEPT !.at = a]}
               /\ a = "made" \/ UNCHANGED items
    BY <1>5 DEF CheckDone, CompleteAndCount, Made, serverBits
  <2> QED
    BY <1>4, <2>1, <2>2
<1>6. ASSUME NEW p \in posts, Answer(p) \/ ChoreSaved(p) \/ TaskSaved(p)
      PROVE  GlancesInv'
  <2>1. AskList(picked) /\ UNCHANGED <<screen, items, page, glancedUpTo, picked, signals, alarm>>
    BY <1>6 DEF Answer, ChoreSaved, TaskSaved, serverBits
  <2> QED
    BY <1>1, <2>1, AskKeeps
<1>7. ASSUME NEW p \in posts, ChorePostFails(p)
      PROVE  GlancesInv'
  <2>1. /\ UNCHANGED <<screen, items, page, glances, glanced, glancedUpTo, picked, signals, alarm>>
        /\ posts' = posts \ {p}
    BY <1>7 DEF ChorePostFails, serverBits, glanceBits
  <2>2. missed' = (missed \/ p.at = "made")
    BY <1>7 DEF ChorePostFails
  <2>3. CASE p.at = "made"
    BY <1>1, <2>1, <2>2, <2>3, GlancesAlone
  <2>4. CASE p.at # "made"
    <3>1. missed' = missed /\ \A q \in posts : q.at = "made" => q \in posts'
      BY <1>1, <2>1, <2>2, <2>4
    <3> QED
      BY <1>1, <2>1, <3>1, GlancesAlone
  <2> QED
    BY <2>3, <2>4
<1>8. ASSUME NEW p \in posts, BriefingStarted(p)
      PROVE  GlancesInv'
  <2>1. UNCHANGED <<screen, page, glances, glanced, glancedUpTo, picked, signals, missed>>
    BY <1>8 DEF BriefingStarted, serverBits, pageBits, glanceBits
  <2>2. alarm'
    BY <1>8 DEF BriefingStarted
  <2> QED
    BY <1>1, <2>1, <2>2, GlancesAlone
<1>9. ASSUME NEW i \in Item, RunEnds(i)
      PROVE  GlancesInv'
  <2>1. UNCHANGED <<screen, page, glances, glanced, glancedUpTo, picked, alarm>>
    BY <1>9 DEF RunEnds, glanceBits
  <2>2. \/ signals' = signals + 1 /\ missed' = missed
        \/ missed' = TRUE /\ signals' = signals
    BY <1>9 DEF RunEnds
  <2>3. signals' \in Nat /\ missed' \in BOOLEAN
    <3>1. signals' \in Nat
      BY <1>1, <2>2
    <3>2. missed' \in {missed, TRUE}
      BY <2>2
    <3> QED
      BY <1>1, <3>1, <3>2
  <2>4. missed' \/ signals' > 0
    <3>1. signals' = signals + 1 => signals' > 0
      BY <1>1
    <3> QED
      BY <2>2, <3>1
  <2>5. alarm' \in BOOLEAN
    BY <1>1, <2>1
  <2> QED
    BY <2>1, <2>3, <2>4, <2>5, GlancesAlone
<1>10. CASE AlarmRings \/ RunHeard
  <2>1. /\ AskList(picked) /\ UNCHANGED <<screen, items, page, glancedUpTo, picked>>
    BY <1>10 DEF AlarmRings, RunHeard, serverBits
  <2>2. signals' \in Nat
    BY <1>1, <1>10 DEF AlarmRings, RunHeard
  <2>3. alarm' \in BOOLEAN
    BY <1>1, <1>10 DEF AlarmRings, RunHeard
  <2> QED
    BY <1>1, <2>1, <2>2, <2>3, AskKeeps
<1>11. ASSUME NEW who \in Grownup, Pick(who)
       PROVE  GlancesInv'
  <2>1. /\ AskList(who) /\ picked' = who /\ screen = "tasks"
        /\ UNCHANGED <<screen, items, page, glancedUpTo, signals, alarm>>
    BY <1>11 DEF Pick, serverBits
  <2> QED
    BY <1>1, <2>1, AskKeeps
<1>12. ASSUME NEW g \in glances, ListRead(g)
       PROVE  GlancesInv'
  <2> DEFINE s == [g EXCEPT !.list = Visible(g.who)]
  <2>1. /\ g.list = <<>> /\ glances' = (glances \ {g}) \cup {s}
        /\ UNCHANGED <<screen, items, page, glanced, glancedUpTo, picked, posts, signals, missed, alarm>>
    BY <1>12 DEF ListRead, serverBits, pageBits
  <2>2. Visible(g.who) \in [Item -> ItemState] /\ Visible(picked)' = Visible(picked)
    BY <1>1, <2>1 DEF Visible, ItemState
  <2>3. s \in Glance /\ s.no = g.no /\ s.who = g.who /\ s.list = Visible(picked)
    BY <1>1, <2>2 DEF Glance
  <2> HIDE DEF s
  <2>4. GlancesTyped'
    BY <2>1, <2>3 DEF GlancesTyped, Glance
  <2>5. GlancesDiffer'
    BY <2>1, <2>3 DEF GlancesDiffer
  <2>6. ScreenIsComing'
    BY <2>1, <2>2, <2>3 DEF ScreenIsComing
  <2> QED
    BY <2>4, <2>5, <2>6
<1>13. ASSUME NEW g \in glances, ListShown(g)
       PROVE  GlancesInv'
  <2>1. /\ g.list # <<>> /\ glances' = glances \ {g} /\ page' = g.list
        /\ glancedUpTo' = IF g.no > glancedUpTo THEN g.no ELSE glancedUpTo
        /\ UNCHANGED <<screen, items, glanced, picked, posts, signals, alarm>>
    BY <1>13 DEF ListShown, serverBits
  <2>2. missed' = (missed \/ (g.no < glancedUpTo /\ screen # "tasks"))
    BY <1>13 DEF ListShown
  <2>3. missed' \in BOOLEAN
    BY <2>2
  <2>4. glancedUpTo' \in 0 .. glanced
    BY <1>1, <2>1
  <2>5. GlancesTyped'
    BY <1>1, <2>1, <2>3, <2>4 DEF GlancesTyped, Glance
  <2>6. GlancesDiffer'
    BY <1>1, <2>1 DEF GlancesDiffer
  <2>7. Visible(picked)' = Visible(picked)
    BY <2>1 DEF Visible
  <2>8. ScreenIsComing'
    <3>1. CASE missed
      BY <2>2, <3>1 DEF ScreenIsComing
    <3>2. CASE signals > 0 \/ alarm \/ \E p \in posts : p.at = "made"
      BY <2>1, <3>2 DEF ScreenIsComing
    <3>3. ASSUME NEW h \in glances, h.no = glanced, h.list \in {<<>>, Visible(picked)}
          PROVE  ScreenIsComing'
      <4>1. CASE h = g
        <5>1. glancedUpTo' = glanced
          BY <1>1, <2>1, <3>3, <4>1
        <5> QED
          BY <2>1, <2>7, <3>3, <4>1, <5>1 DEF ScreenIsComing
      <4>2. CASE h # g
        BY <2>1, <2>7, <3>3, <4>2 DEF ScreenIsComing
      <4> QED
        BY <4>1, <4>2
    <3>4. CASE glancedUpTo = glanced /\ page = Visible(picked)
      <4>1. g.no # glanced /\ screen # "tasks"
        BY <3>4 DEF GlancesDiffer
      <4>2. g.no < glancedUpTo
        BY <1>1, <3>4, <4>1
      <4> QED
        BY <2>2, <4>1, <4>2 DEF ScreenIsComing
    <3> QED
      BY <3>1, <3>2, <3>3, <3>4 DEF ScreenIsComing
  <2> QED
    BY <2>5, <2>6, <2>8
<1>14. ASSUME NEW g \in glances, ListFails(g)
       PROVE  GlancesInv'
  <2>1. /\ glances' = glances \ {g} /\ missed' = TRUE
        /\ UNCHANGED <<screen, glanced, glancedUpTo, picked, signals, alarm>>
    BY <1>14 DEF ListFails
  <2>2. page' \in [Item -> ItemState]
    BY <1>1, <1>14 DEF ListFails, ItemState
  <2> QED
    BY <2>1, <2>2 DEF GlancesTyped, GlancesDiffer, ScreenIsComing, Glance
<1> QED
  BY <1>2, <1>3, <1>5, <1>6, <1>7, <1>8, <1>9, <1>10, <1>11, <1>12, <1>13, <1>14
  DEF ChoreScreensNext

\* The invariant of the screens of chores, tasks and batches.
LEMMA ScreensInvariant == ChoreScreensSpec => [](PostsInv /\ GlancesInv)
  BY PostsInit, PostsStep, GlancesInit, GlancesStep, PTL DEF ChoreScreensSpec

\* The types of the screens of chores.
THEOREM ScreensTypeCorrect == ChoreScreensSpec => []ChoreScreensTypeOK
<1>1. PostsInv /\ GlancesInv => ChoreScreensTypeOK
  BY DEF PostsInv, ChoresTyped, ChorePost, GlancesInv, GlancesTyped, ItemState, ChoreScreensTypeOK
<1> QED
  BY <1>1, ScreensInvariant, PTL

\* A screen with nothing under way shows the list as it is, unless something was lost or
\* overtaken (Chores.tsx, ChoresWidget.tsx, Tasks.tsx, BatchProcesses.tsx).
THEOREM ScreensAreCurrent == ChoreScreensSpec => []ScreenIsCurrent
<1>1. GlancesInv => ScreenIsCurrent
  BY DEF GlancesInv, GlancesTyped, ScreenIsComing, ScreenIsCurrent
<1> QED
  BY <1>1, ScreensInvariant, PTL

\* A completion is counted once, an update writes the chore it was meant for, and a form
\* that sends nothing can be sent, but for the exemptions the three properties name.
THEOREM ScreensKeepTheirWord == ChoreScreensSpec => [](CountedOnce /\ EditIsItsOwn /\ FormComesBack)
<1>1. PostsInv => CountedOnce /\ EditIsItsOwn /\ FormComesBack
  BY DEF PostsInv, FormWaits, FormComesBack
<1> QED
  BY <1>1, ScreensInvariant, PTL
==============================================================================
