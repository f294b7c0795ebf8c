---------------------------- MODULE ChoresProofs ----------------------------
(***************************************************************************)
(* Proofs about Chores, for any sets of kids, templates, tasks and         *)
(* transactions, any rewards, and whatever may go wrong.                   *)
(***************************************************************************)
EXTENDS Chores, SandersCashProofs

(***************************************************************************)
(* The inductive invariant, by parts.                                      *)
(***************************************************************************)
PollType == [kids : SUBSET Account, batch : SUBSET Item,
             at : {"rest", "fetch", "pay", "log"},
             item : Item \cup {NoItem}, reward : Reward \cup {0}]
CreatingRow == [template : DOMAIN template, todo : SUBSET Account]
CleaningRow == [template : DOMAIN template, members : SUBSET Account]
Cleaning == [kid : Account \ Kids, at : {"project", "read", "write"},
             rows : SUBSET CleaningRow]

\* The shape of the work in flight.  A kid being cleaned up after is gone.
FlightsTyped ==
    /\ poll \in PollType
    /\ creating \subseteq CreatingRow
    /\ cleaning \subseteq Cleaning

\* What the poller holds is a task of Vikunja, with the kid it belongs to.
Matches(i) == i.task \in DOMAIN task /\ task[i.task].kid = i.kid

\* A task at the till is not in the log, and its payment was promised.
PollerKnows ==
    /\ \A i \in poll.batch : Matches(i)
    /\ poll.at \in {"pay", "log"} => /\ poll.item \in Item
                                     /\ Matches(poll.item)
                                     /\ poll.item.task \notin DOMAIN logged
    /\ poll.at = "pay" => poll.item.task \in owed

LogMatches == \A t \in DOMAIN logged : t \in DOMAIN task /\ logged[t] = task[t].kid

UnpaidUnlessMade == \A t \in Task \ DOMAIN task : paid[t] = 0

\* The members are kids, or kids and the one whose deletion is under way.
OneGone(members) ==
    \/ members \subseteq Kids
    \/ \E d \in cleaning : members \subseteq Kids \cup {d.kid}

\* A deletion about to write has in its hands every template that still names
\* its kid, with no other kid that is gone.
DeletionKnows(d) ==
    /\ \A row \in d.rows :
          row.template \notin crossed => row.members \subseteq Kids \cup {d.kid}
    /\ d.at = "write" =>
          \A m \in Naming(d.kid) \ crossed : \E row \in d.rows : row.template = m

TemplatesKept ==
    /\ \A m \in DOMAIN template \ crossed :
          template[m].active => OneGone(template[m].members)
    /\ \A d \in cleaning : DeletionKnows(d)

PaymentsKept ==
    /\ PollerKnows
    /\ LogMatches
    /\ UnpaidUnlessMade
    /\ PaidExactlyOnce

ChoresIInv ==
    /\ ChoresTypeOK
    /\ FlightsTyped
    /\ PaymentsKept
    /\ TemplatesKept

-----------------------------------------------------------------------------
(***************************************************************************)
(* The currency under the chores.                                          *)
(***************************************************************************)
\* A step of the chores pays a kid, removes one, or leaves the currency alone.
LEMMA ChoresMoveCash ==
  ASSUME FlightsTyped, PollerKnows, [Next]_vars
  PROVE  \/ \E x \in Txn, a \in Account, amt \in Int : Post(x, a, "earn", amt)
         \/ \E a \in Account : RemoveKid(a)
         \/ UNCHANGED cashVars
<1>1. ASSUME NEW x \in Txn, PayKid(x)
      PROVE  \E a \in Account, amt \in Int : Post(x, a, "earn", amt)
  <2>1. poll.item.kid \in Account /\ poll.reward \in Int
    BY <1>1, ChoresAssumption DEF PayKid, PollerKnows, Item, FlightsTyped, PollType
  <2> QED
    BY <1>1, <2>1 DEF PayKid
<1>2. CASE TemplateStep
  BY <1>2 DEF TemplateStep, InsertTemplate, UpdateTemplate, DeleteTemplate,
              CreateTaskFails, CreateTask
<1>3. CASE KidStep
  BY <1>3 DEF KidStep, CompleteTask, ReopenTask, DeleteKid, DeleteProject,
              ReadTemplates, WriteTemplate
<1>4. CASE PollStep
  BY <1>1, <1>4 DEF PollStep, StartPoll, EndPoll, PayFails, LogTask, LogFails,
                    FetchTasks, FetchFails, Fetched, LookUp
<1>5. CASE Crash \/ UNCHANGED vars
  BY <1>5 DEF Crash, vars
<1> QED
  BY <1>2, <1>3, <1>4, <1>5 DEF Next

\* Whatever the chores do, the invariant of the currency is kept.
LEMMA ChoresCashStep ==
  ASSUME CashIInv, FlightsTyped, PollerKnows, [Next]_vars
  PROVE  CashIInv'
<1>1. CASE UNCHANGED cashVars
  BY <1>1, CashStepIInv
<1> QED
  BY <1>1, ChoresMoveCash, PostIInv, RemoveKidIInv DEF TxType

\* Whatever the chores do, balances and sums stay equal.
LEMMA ChoresBalanceStep ==
  ASSUME CashIInv, CashIInv', BalanceIInv, FlightsTyped, PollerKnows, [Next]_vars
  PROVE  BalanceIInv'
<1>1. CASE UNCHANGED cashVars
  BY <1>1, SameBalance DEF cashVars
<1> QED
  BY <1>1, ChoresMoveCash, PostBalance, RemoveKidBalance DEF TxType

\* Kids are born before the story begins.
LEMMA KidsOnlyLeave ==
  ASSUME FlightsTyped, PollerKnows, [Next]_vars
  PROVE  Kids' \subseteq Kids
  BY ChoresMoveCash DEF Kids, Post, Credit, RemoveKid, Restrict, cashVars

-----------------------------------------------------------------------------
(***************************************************************************)
(* Types.                                                                  *)
(***************************************************************************)
\* A kid is an account that still exists.
LEMMA KidsAreAccounts == CashIInv => Kids \subseteq Account
  BY DEF CashIInv, CashTypeOK, Kids

\* Requests about templates keep the types.
LEMMA TemplateStepTyped ==
  ASSUME CashIInv, ChoresTypeOK, FlightsTyped, TemplateStep
  PROVE  ChoresTypeOK' /\ FlightsTyped'
<1>1. ASSUME NEW m \in Template, NEW members \in SUBSET Account, NEW reward \in Reward,
             InsertTemplate(m, members, reward)
      PROVE  ChoresTypeOK' /\ FlightsTyped'
  <2>1. ChoresTypeOK'
    BY <1>1 DEF ChoresTypeOK, InsertTemplate, Named, Kids, cashVars
  <2>2. FlightsTyped'
    BY <1>1 DEF FlightsTyped, PollType, CreatingRow, CleaningRow, Cleaning,
                InsertTemplate, Kids, cashVars, ChoresTypeOK
  <2> QED
    BY <2>1, <2>2
<1>2. ASSUME NEW m \in Template, NEW members \in SUBSET Account, NEW reward \in Reward,
             UpdateTemplate(m, members, reward)
      PROVE  ChoresTypeOK' /\ FlightsTyped'
  BY <1>2 DEF ChoresTypeOK, FlightsTyped, PollType, CreatingRow, CleaningRow, Cleaning,
              UpdateTemplate, Named, Kids, cashVars
<1>3. ASSUME NEW m \in Template, DeleteTemplate(m)
      PROVE  ChoresTypeOK' /\ FlightsTyped'
  BY <1>3 DEF ChoresTypeOK, FlightsTyped, PollType, CreatingRow, CleaningRow, Cleaning,
              DeleteTemplate, Kids, cashVars, historyVars
<1>4. ASSUME NEW c \in creating, CreateTaskFails(c)
      PROVE  ChoresTypeOK' /\ FlightsTyped'
  BY <1>4 DEF ChoresTypeOK, FlightsTyped, PollType, CreatingRow, CleaningRow, Cleaning,
              CreateTaskFails, Kids, cashVars, historyVars
<1>5. ASSUME NEW c \in creating, NEW a \in Account, NEW t \in Task, CreateTask(c, a, t)
      PROVE  ChoresTypeOK' /\ FlightsTyped'
  <2>1. ChoresTypeOK'
    BY <1>5 DEF ChoresTypeOK, FlightsTyped, CreatingRow, CreateTask, Kids, cashVars,
                historyVars
  <2>2. FlightsTyped'
    BY <1>5 DEF FlightsTyped, PollType, CreatingRow, CleaningRow, Cleaning,
                CreateTask, Advance, Kids, cashVars
  <2> QED
    BY <2>1, <2>2
<1> QED
  BY <1>1, <1>2, <1>3, <1>4, <1>5 DEF TemplateStep

\* Ticking tasks and deleting kids keep the types.
LEMMA KidStepTyped ==
  ASSUME CashIInv, ChoresTypeOK, FlightsTyped, KidStep
  PROVE  ChoresTypeOK' /\ FlightsTyped'
<1>1. ASSUME NEW t \in Task, CompleteTask(t) \/ ReopenTask(t)
      PROVE  ChoresTypeOK' /\ FlightsTyped'
  <2>1. ChoresTypeOK'
    <3>1. t \in DOMAIN task /\ \E b \in BOOLEAN : task' = [task EXCEPT ![t].done = b]
      BY <1>1 DEF CompleteTask, ReopenTask, There
    <3>2. DOMAIN task' = DOMAIN task
      BY <3>1
    <3>3. \A x \in DOMAIN task : task'[x] \in [template : DOMAIN template, kid : Account,
                                              done : BOOLEAN, deleted : BOOLEAN]
      BY <3>1 DEF ChoresTypeOK
    <3>4. task' = [x \in DOMAIN task |-> task'[x]]
      BY <3>1
    <3> QED
      BY <1>1, <3>2, <3>3, <3>4 DEF ChoresTypeOK, CompleteTask, ReopenTask, Kids,
                                    cashVars, historyVars
  <2>2. FlightsTyped'
    BY <1>1 DEF FlightsTyped, PollType, CreatingRow, CleaningRow, Cleaning,
                CompleteTask, ReopenTask, Kids, cashVars
  <2> QED
    BY <2>1, <2>2
<1>2. ASSUME NEW a \in Account, DeleteKid(a)
      PROVE  ChoresTypeOK' /\ FlightsTyped'
  <2>1. a \in Kids /\ Kids' = Kids \ {a}
    BY <1>2 DEF DeleteKid, RemoveKid, Kids, Restrict
  <2>2. ChoresTypeOK'
    <3>1. DOMAIN logged' \subseteq Task /\ logged' \in [DOMAIN logged' -> Kids']
      BY <1>2, <2>1 DEF ChoresTypeOK, DeleteKid, Restrict
    <3> QED
      BY <1>2, <3>1 DEF ChoresTypeOK, DeleteKid
  <2>3. FlightsTyped'
    BY <1>2, <2>1 DEF FlightsTyped, PollType, CreatingRow, CleaningRow, Cleaning, DeleteKid
  <2> QED
    BY <2>2, <2>3
<1>3. ASSUME NEW d \in cleaning, DeleteProject(d)
      PROVE  ChoresTypeOK' /\ FlightsTyped'
  <2>1. ChoresTypeOK'
    <3> DEFINE TaskRow == [template : DOMAIN template, kid : Account,
                           done : BOOLEAN, deleted : BOOLEAN]
    <3>1. task \in [DOMAIN task -> TaskRow]
      BY DEF ChoresTypeOK
    <3>2. task' \in [DOMAIN task -> TaskRow]
      <4>1. CASE UNCHANGED task
        BY <3>1, <4>1
      <4>2. CASE task' = [t \in DOMAIN task |->
                            [task[t] EXCEPT !.deleted = @ \/ task[t].kid = d.kid]]
        <5>1. \A b \in BOOLEAN, r \in TaskRow : [r EXCEPT !.deleted = b] \in TaskRow
          OBVIOUS
        <5>2. \A t \in DOMAIN task : (task[t].deleted \/ task[t].kid = d.kid) \in BOOLEAN
          OBVIOUS
        <5> HIDE DEF TaskRow
        <5>3. \A t \in DOMAIN task :
                 [task[t] EXCEPT !.deleted = task[t].deleted \/ task[t].kid = d.kid] \in TaskRow
          BY <3>1, <5>1, <5>2
        <5> QED
          BY <4>2, <5>3
      <4> QED
        BY <1>3, <4>1, <4>2 DEF DeleteProject
    <3> QED
      BY <1>3, <3>2 DEF ChoresTypeOK, DeleteProject, Kids, cashVars, historyVars
  <2>2. FlightsTyped'
    BY <1>3 DEF FlightsTyped, PollType, CreatingRow, CleaningRow, Cleaning,
                DeleteProject, Kids, cashVars
  <2> QED
    BY <2>1, <2>2
<1>4. ASSUME NEW d \in cleaning, ReadTemplates(d)
      PROVE  ChoresTypeOK' /\ FlightsTyped'
  <2>1. ChoresTypeOK'
    BY <1>4 DEF ChoresTypeOK, ReadTemplates, Kids, cashVars, historyVars
  <2>2. {[template |-> m, members |-> template[m].members] : m \in Naming(d.kid)}
          \subseteq CleaningRow
    BY DEF Naming, CleaningRow, ChoresTypeOK
  <2>3. \A rows \in SUBSET CleaningRow :
             [d EXCEPT !.at = "write", !.rows = rows] \in Cleaning
    BY DEF FlightsTyped, Cleaning
  <2>4. cleaning' \subseteq Cleaning
    BY <1>4, <2>2, <2>3 DEF ReadTemplates, FlightsTyped
  <2>5. FlightsTyped'
    BY <1>4, <2>4 DEF FlightsTyped, PollType, CreatingRow, CleaningRow, Cleaning,
                ReadTemplates, Kids, cashVars
  <2> QED
    BY <2>1, <2>5
<1>5. ASSUME NEW d \in cleaning, NEW row \in d.rows, WriteTemplate(d, row)
      PROVE  ChoresTypeOK' /\ FlightsTyped'
  <2>1. row \in CleaningRow
    BY DEF FlightsTyped, Cleaning
  <2>2. ChoresTypeOK'
    <3>1. row.template \in DOMAIN template /\ row.members \in SUBSET Account
      BY <2>1 DEF CleaningRow
    <3>2. \/ template' = [template EXCEPT ![row.template].active = FALSE]
          \/ template' = [template EXCEPT ![row.template].members = row.members \ {d.kid}]
      BY <1>5 DEF WriteTemplate
    <3> DEFINE TemplateRow == [reward : Reward, members : SUBSET Account, active : BOOLEAN]
    <3>3. template \in [DOMAIN template -> TemplateRow]
      BY DEF ChoresTypeOK
    <3>4. \A r \in TemplateRow, members \in SUBSET Account :
             /\ [r EXCEPT !.active = FALSE] \in TemplateRow
             /\ [r EXCEPT !.members = members] \in TemplateRow
      OBVIOUS
    <3> HIDE DEF TemplateRow
    <3>5. template' \in [DOMAIN template -> TemplateRow]
      <4>1. row.members \ {d.kid} \in SUBSET Account
        BY <3>1
      <4> QED
        BY <3>1, <3>2, <3>3, <3>4, <4>1
    <3> USE DEF TemplateRow
    <3> QED
      BY <1>5, <3>5 DEF ChoresTypeOK, WriteTemplate, Kids, cashVars, historyVars
  <2>3. DOMAIN template' = DOMAIN template
    BY <1>5 DEF WriteTemplate
  <2>4. FlightsTyped'
    BY <1>5, <2>3 DEF FlightsTyped, PollType, CreatingRow, CleaningRow, Cleaning,
                WriteTemplate, Kids, cashVars
  <2> QED
    BY <2>2, <2>4
<1> QED
  BY <1>1, <1>2, <1>3, <1>4, <1>5 DEF KidStep

\* A poll keeps the types.
LEMMA PollStepTyped ==
  ASSUME CashIInv, ChoresTypeOK, FlightsTyped, PollerKnows, PollStep
  PROVE  ChoresTypeOK' /\ FlightsTyped'
<1>1. CASE StartPoll \/ EndPoll
  <2>1. AtRest \in PollType
    BY DEF AtRest, PollType
  <2>2. [AtRest EXCEPT !.kids = Kids, !.at = "fetch"] \in PollType
    BY <2>1, KidsAreAccounts DEF PollType
  <2>3. poll' \in PollType
    BY <1>1, <2>1, <2>2 DEF StartPoll, EndPoll
  <2>4. FlightsTyped'
    BY <1>1, <2>3 DEF FlightsTyped, CreatingRow, CleaningRow, Cleaning, PollType,
                      StartPoll, EndPoll, Kids, cashVars
  <2> QED
    BY <1>1, <2>3, <2>4 DEF ChoresTypeOK, PollType, StartPoll, EndPoll, Kids, cashVars,
                            historyVars
<1>2. ASSUME NEW a \in Account, FetchTasks(a) \/ FetchFails(a)
      PROVE  ChoresTypeOK' /\ FlightsTyped'
  <2>1. DoneTasks(a) \subseteq Item
    BY DEF DoneTasks, Item, ChoresTypeOK
  <2> QED
    BY <1>2, <2>1
       DEF ChoresTypeOK, FlightsTyped, PollType, CreatingRow, CleaningRow, Cleaning,
           FetchTasks, FetchFails, Fetched, Kids, cashVars, historyVars
<1>3. ASSUME NEW i \in poll.batch, LookUp(i)
      PROVE  ChoresTypeOK' /\ FlightsTyped'
  <2>1. i \in Item
    BY DEF FlightsTyped, PollType
  <2>2. MayPay(i) => template[i.template].reward \in Reward
    BY DEF MayPay, ChoresTypeOK
  <2>3. poll' \in PollType
    BY <1>3, <2>1, <2>2 DEF FlightsTyped, PollType, LookUp
  <2>4. owed' \subseteq Task
    BY <1>3, <2>1 DEF ChoresTypeOK, LookUp, Item
  <2>5. FlightsTyped'
    BY <1>3, <2>3 DEF FlightsTyped, PollType, CreatingRow, CleaningRow, Cleaning, LookUp,
                      Kids, cashVars
  <2> QED
    BY <1>3, <2>3, <2>4, <2>5 DEF ChoresTypeOK, PollType, LookUp, Kids, cashVars
<1>4. ASSUME NEW x \in Txn, PayKid(x)
      PROVE  ChoresTypeOK' /\ FlightsTyped'
  <2>1. poll.item.task \in Task
    BY <1>4 DEF PayKid, PollerKnows, Item
  <2>2. Kids' = Kids
    BY <1>4 DEF PayKid, Post, Credit, Kids
  <2>3. paid' \in [Task -> Nat]
    BY <1>4, <2>1 DEF PayKid, ChoresTypeOK
  <2>4. poll' \in PollType
    BY <1>4 DEF PayKid, FlightsTyped, PollType
  <2> QED
    BY <1>4, <2>2, <2>3, <2>4 DEF PayKid, ChoresTypeOK, FlightsTyped, PollType,
                             CreatingRow, CleaningRow, Cleaning
<1>5. CASE PayFails
  BY <1>5 DEF ChoresTypeOK, FlightsTyped, PollType, CreatingRow, CleaningRow, Cleaning,
              PayFails, PollerKnows, Item, Kids, cashVars
<1>6. CASE LogTask \/ LogFails
  <2>1. poll.item.task \in Task
    BY <1>6 DEF LogTask, LogFails, PollerKnows, Item
  <2>2. poll' \in PollType
    BY <1>6 DEF LogTask, LogFails, NextItem, FlightsTyped, PollType
  <2>3. DOMAIN logged' \subseteq Task /\ logged' \in [DOMAIN logged' -> Kids]
    BY <1>6, <2>1 DEF LogTask, LogFails, ChoresTypeOK
  <2> QED
    BY <1>6, <2>1, <2>2, <2>3
       DEF ChoresTypeOK, FlightsTyped, PollType, CreatingRow, CleaningRow, Cleaning,
           LogTask, LogFails, Kids, cashVars, historyVars
<1> QED
  BY <1>1, <1>2, <1>3, <1>4, <1>5, <1>6 DEF PollStep

\* A crash empties what was in flight.
LEMMA CrashTyped ==
  ASSUME ChoresTypeOK, FlightsTyped, PollerKnows, Crash
  PROVE  ChoresTypeOK' /\ FlightsTyped'
<1>1. poll' \in PollType
  BY DEF Crash, AtRest, PollType
<1>2. doubtful' \subseteq Task /\ crossed' \subseteq Template
  BY DEF Crash, PollerKnows, Item, ChoresTypeOK
<1> QED
  BY <1>1, <1>2 DEF ChoresTypeOK, FlightsTyped, PollType, CreatingRow, CleaningRow,
                    Cleaning, Crash, Kids, cashVars

\* Every step keeps the types.
LEMMA ChoresStepTyped ==
  ASSUME CashIInv, ChoresTypeOK, FlightsTyped, PollerKnows, [Next]_vars
  PROVE  ChoresTypeOK' /\ FlightsTyped'
<1>1. CASE UNCHANGED vars
  BY <1>1 DEF ChoresTypeOK, FlightsTyped, PollType, CreatingRow, CleaningRow, Cleaning,
              vars, choreVars, historyVars, cashVars, Kids
<1> QED
  BY <1>1, TemplateStepTyped, KidStepTyped, PollStepTyped, CrashTyped DEF Next

-----------------------------------------------------------------------------
(***************************************************************************)
(* Payments.                                                               *)
(***************************************************************************)
\* Nothing that payments are about changes.
LEMMA SamePayments ==
  ASSUME PaymentsKept, Kids' \subseteq Kids,
         UNCHANGED <<task, poll, logged, paid, owed, doubtful>>
  PROVE  PaymentsKept'
  BY DEF PaymentsKept, PollerKnows, Matches, LogMatches, UnpaidUnlessMade,
         PaidExactlyOnce, InHand, Item

\* A new task has never been paid.
LEMMA TemplateStepPays ==
  ASSUME ChoresTypeOK, FlightsTyped, PaymentsKept, TemplateStep
  PROVE  PaymentsKept'
<1>1. ASSUME NEW c \in creating, NEW a \in Account, NEW t \in Task, CreateTask(c, a, t)
      PROVE  PaymentsKept'
  <2>1. /\ t \notin DOMAIN task /\ DOMAIN task' = DOMAIN task \cup {t}
        /\ \A x \in DOMAIN task : task'[x] = task[x]
        /\ UNCHANGED <<balance, logged, poll, paid, owed, doubtful>>
    BY <1>1 DEF CreateTask, cashVars, historyVars
  <2>2. t \notin DOMAIN logged /\ ~InHand(t) /\ paid[t] = 0
    BY <2>1 DEF PaymentsKept, LogMatches, PollerKnows, Matches, UnpaidUnlessMade, InHand
  <2>3. PollerKnows' /\ LogMatches' /\ UnpaidUnlessMade'
    BY <2>1 DEF PaymentsKept, PollerKnows, Matches, LogMatches, UnpaidUnlessMade
  <2>4. PaidExactlyOnce'
    BY <2>1, <2>2 DEF PaymentsKept, PaidExactlyOnce, InHand, Kids
  <2> QED
    BY <2>3, <2>4 DEF PaymentsKept
<1>2. CASE UNCHANGED <<task, poll, logged, paid, owed, doubtful, balance>>
  BY <1>2, SamePayments DEF Kids
<1> QED
  BY <1>1, <1>2 DEF TemplateStep, InsertTemplate, UpdateTemplate, DeleteTemplate,
                    CreateTaskFails, cashVars, historyVars

\* A kid that goes takes its tasks out of the account.
LEMMA KidStepPays ==
  ASSUME ChoresTypeOK, FlightsTyped, PaymentsKept, KidStep
  PROVE  PaymentsKept'
<1>1. ASSUME NEW a \in Account, DeleteKid(a)
      PROVE  PaymentsKept'
  <2>1. /\ Kids' = Kids \ {a} /\ UNCHANGED <<task, poll, paid, owed, doubtful>>
        /\ DOMAIN logged' = {t \in DOMAIN logged : logged[t] # a}
        /\ \A t \in DOMAIN logged' : logged'[t] = logged[t]
    BY <1>1 DEF DeleteKid, RemoveKid, Restrict, Kids
  <2>2. PollerKnows' /\ LogMatches' /\ UnpaidUnlessMade'
    BY <2>1 DEF PaymentsKept, PollerKnows, Matches, LogMatches, UnpaidUnlessMade
  <2>3. PaidExactlyOnce'
    BY <2>1 DEF PaymentsKept, PaidExactlyOnce, LogMatches, InHand
  <2> QED
    BY <2>2, <2>3 DEF PaymentsKept
<1>2. ASSUME DOMAIN task' = DOMAIN task, \A t \in DOMAIN task : task'[t].kid = task[t].kid,
             UNCHANGED <<balance, poll, logged, paid, owed, doubtful>>
      PROVE  PaymentsKept'
  BY <1>2 DEF PaymentsKept, PollerKnows, Matches, LogMatches, UnpaidUnlessMade,
              PaidExactlyOnce, InHand, Item, Kids
<1>3. ASSUME NEW t \in Task, CompleteTask(t) \/ ReopenTask(t)
      PROVE  PaymentsKept'
  <2>1. PICK b \in BOOLEAN : task' = [task EXCEPT ![t].done = b]
    BY <1>3 DEF CompleteTask, ReopenTask
  <2>2. DOMAIN task' = DOMAIN task /\ \A x \in DOMAIN task : task'[x].kid = task[x].kid
    BY <2>1 DEF ChoresTypeOK
  <2> QED
    BY <1>2, <1>3, <2>2 DEF CompleteTask, ReopenTask, cashVars, historyVars
<1>4. ASSUME NEW d \in cleaning, DeleteProject(d)
      PROVE  PaymentsKept'
  <2>1. DOMAIN task' = DOMAIN task /\ \A x \in DOMAIN task : task'[x].kid = task[x].kid
    BY <1>4 DEF DeleteProject, ChoresTypeOK
  <2> QED
    BY <1>2, <1>4, <2>1 DEF DeleteProject, cashVars, historyVars
<1>5. CASE UNCHANGED <<task, balance, poll, logged, paid, owed, doubtful>>
  BY <1>5, SamePayments DEF Kids
<1> QED
  BY <1>1, <1>3, <1>4, <1>5 DEF KidStep, ReadTemplates, WriteTemplate, cashVars, historyVars

\* A poll pays what it then logs.
LEMMA PollStepPays ==
  ASSUME ChoresTypeOK, FlightsTyped, PaymentsKept, PollStep
  PROVE  PaymentsKept'
<1>1. CASE StartPoll \/ EndPoll
  <2>1. /\ poll'.batch = {} /\ poll'.at \in {"rest", "fetch"} /\ poll.at \in {"rest", "fetch"}
        /\ UNCHANGED <<balance, task, logged, paid, owed, doubtful>>
    <3>1. AtRest.at = "rest" /\ AtRest.batch = {}
      BY DEF AtRest
    <3>2. LET q == [AtRest EXCEPT !.kids = Kids, !.at = "fetch"]
          IN  q.at = "fetch" /\ q.batch = {}
      BY DEF AtRest
    <3> QED
      BY <1>1, <3>1, <3>2 DEF StartPoll, EndPoll, cashVars, historyVars
  <2>2. PollerKnows' /\ LogMatches' /\ UnpaidUnlessMade'
    BY <2>1 DEF PaymentsKept, PollerKnows, LogMatches, UnpaidUnlessMade
  <2>3. PaidExactlyOnce'
    BY <2>1 DEF PaymentsKept, PaidExactlyOnce, InHand, Kids
  <2> QED
    BY <2>2, <2>3 DEF PaymentsKept
<1>2. ASSUME NEW a \in Account, FetchTasks(a) \/ FetchFails(a)
      PROVE  PaymentsKept'
  <2>1. \A i \in DoneTasks(a) : Matches(i)
    BY DEF DoneTasks, Matches
  <2>2. /\ poll.at = "fetch" /\ poll'.at = "fetch"
        /\ \A i \in poll'.batch : Matches(i)
        /\ UNCHANGED <<balance, task, logged, paid, owed, doubtful>>
    BY <1>2, <2>1 DEF FetchTasks, FetchFails, Fetched, FlightsTyped, PollType,
                      cashVars, historyVars
  <2>3. PollerKnows' /\ LogMatches' /\ UnpaidUnlessMade'
    BY <2>2 DEF PaymentsKept, PollerKnows, Matches, LogMatches, UnpaidUnlessMade
  <2>4. PaidExactlyOnce'
    BY <2>2 DEF PaymentsKept, PaidExactlyOnce, InHand, Kids
  <2> QED
    BY <2>3, <2>4 DEF PaymentsKept
<1>3. ASSUME NEW i \in poll.batch, LookUp(i)
      PROVE  PaymentsKept'
  <2>1. /\ i \in Item /\ Matches(i) /\ poll.at = "fetch"
        /\ UNCHANGED <<balance, task, logged, paid, doubtful>>
    BY <1>3 DEF LookUp, PaymentsKept, PollerKnows, FlightsTyped, PollType, cashVars
  <2>2. poll'.batch \subseteq poll.batch
    BY <1>3 DEF LookUp, FlightsTyped, PollType
  <2>3. CASE ~MayPay(i)
    <3>1. poll'.at = "fetch" /\ owed' = owed
      BY <1>3, <2>3 DEF LookUp, FlightsTyped, PollType
    <3>2. PollerKnows' /\ LogMatches' /\ UnpaidUnlessMade'
      BY <2>1, <2>2, <3>1 DEF PaymentsKept, PollerKnows, Matches, LogMatches, UnpaidUnlessMade
    <3>3. PaidExactlyOnce'
      BY <2>1, <3>1 DEF PaymentsKept, PaidExactlyOnce, InHand, Kids
    <3> QED
      BY <3>2, <3>3 DEF PaymentsKept
  <2>4. CASE MayPay(i)
    <3>1. /\ i.task \notin DOMAIN logged
          /\ poll'.item = i /\ poll'.at \in {"pay", "log"}
          /\ poll'.at = "pay" => i.task \in owed'
          /\ poll'.at = "log" => i.task \notin owed'
          /\ \A t : t # i.task => (t \in owed' <=> t \in owed)
      BY <1>3, <2>4 DEF LookUp, MayPay, FlightsTyped, PollType
    <3>2. PollerKnows' /\ LogMatches' /\ UnpaidUnlessMade'
      BY <2>1, <2>2, <3>1 DEF PaymentsKept, PollerKnows, Matches, LogMatches, UnpaidUnlessMade
    <3>3. PaidExactlyOnce'
      BY <2>1, <3>1 DEF PaymentsKept, PaidExactlyOnce, InHand, Kids
    <3> QED
      BY <3>2, <3>3 DEF PaymentsKept
  <2> QED
    BY <2>3, <2>4
<1>4. ASSUME NEW x \in Txn, PayKid(x)
      PROVE  PaymentsKept'
  <2> DEFINE t == poll.item.task
  <2>1. /\ poll.at = "pay" /\ poll'.at = "log" /\ poll'.item = poll.item
        /\ poll'.batch = poll.batch
        /\ poll.item \in Item /\ Matches(poll.item) /\ t \in Task
        /\ t \notin DOMAIN logged /\ t \in owed
        /\ Kids' = Kids /\ poll.item.kid \in Kids
        /\ paid' = [paid EXCEPT ![t] = @ + 1]
        /\ UNCHANGED <<task, logged, owed, doubtful>>
    BY <1>4 DEF PayKid, PaymentsKept, PollerKnows, FlightsTyped, PollType, Item,
                Post, Credit, Kids
  <2>2. PollerKnows' /\ LogMatches' /\ UnpaidUnlessMade'
    BY <2>1 DEF PaymentsKept, PollerKnows, Matches, LogMatches, UnpaidUnlessMade,
                ChoresTypeOK
  <2>3. t \notin doubtful => paid[t] = 0
    BY <2>1 DEF PaymentsKept, PaidExactlyOnce, Matches, InHand
  <2>4. PaidExactlyOnce'
    BY <2>1, <2>3 DEF PaymentsKept, PaidExactlyOnce, InHand, ChoresTypeOK
  <2> QED
    BY <2>2, <2>4 DEF PaymentsKept
<1>5. CASE PayFails
  <2>1. /\ poll.at = "pay" /\ poll'.at = "log" /\ poll'.item = poll.item
        /\ poll'.batch = poll.batch /\ doubtful' = doubtful \cup {poll.item.task}
        /\ UNCHANGED <<balance, task, logged, owed, paid>>
    BY <1>5 DEF PayFails, FlightsTyped, PollType, cashVars
  <2>2. PollerKnows' /\ LogMatches' /\ UnpaidUnlessMade'
    BY <2>1 DEF PaymentsKept, PollerKnows, Matches, LogMatches, UnpaidUnlessMade
  <2>3. PaidExactlyOnce'
    BY <2>1 DEF PaymentsKept, PaidExactlyOnce, InHand, Kids
  <2> QED
    BY <2>2, <2>3 DEF PaymentsKept
<1>6. CASE LogTask
  <2> DEFINE t == poll.item.task
  <2>1. /\ poll.at = "log" /\ poll'.at = "fetch" /\ poll'.batch = poll.batch
        /\ Matches(poll.item)
        /\ DOMAIN logged' = DOMAIN logged \cup {t} /\ logged'[t] = poll.item.kid
        /\ \A x \in DOMAIN logged : x # t => logged'[x] = logged[x]
        /\ UNCHANGED <<balance, task, owed, paid, doubtful>>
    BY <1>6 DEF LogTask, NextItem, PaymentsKept, PollerKnows, FlightsTyped, PollType,
                cashVars, historyVars
  <2>2. PollerKnows' /\ LogMatches' /\ UnpaidUnlessMade'
    BY <2>1 DEF PaymentsKept, PollerKnows, Matches, LogMatches, UnpaidUnlessMade
  <2>3. PaidExactlyOnce'
    BY <2>1 DEF PaymentsKept, PaidExactlyOnce, InHand, Kids
  <2> QED
    BY <2>2, <2>3 DEF PaymentsKept
<1>7. CASE LogFails
  <2>1. /\ poll.at = "log" /\ poll'.at = "fetch" /\ poll'.batch = poll.batch
        /\ doubtful' = doubtful \cup {poll.item.task}
        /\ UNCHANGED <<balance, task, logged, owed, paid>>
    BY <1>7 DEF LogFails, NextItem, FlightsTyped, PollType, cashVars
  <2>2. PollerKnows' /\ LogMatches' /\ UnpaidUnlessMade'
    BY <2>1 DEF PaymentsKept, PollerKnows, Matches, LogMatches, UnpaidUnlessMade
  <2>3. PaidExactlyOnce'
    BY <2>1 DEF PaymentsKept, PaidExactlyOnce, InHand, Kids
  <2> QED
    BY <2>2, <2>3 DEF PaymentsKept
<1> QED
  BY <1>1, <1>2, <1>3, <1>4, <1>5, <1>6, <1>7 DEF PollStep

\* A payment that a crash parted from its log row is doubtful.
LEMMA CrashPays ==
  ASSUME PaymentsKept, Crash
  PROVE  PaymentsKept'
<1>1. /\ poll'.at = "rest" /\ poll'.batch = {}
      /\ UNCHANGED <<balance, task, logged, owed, paid>>
      /\ doubtful \subseteq doubtful'
      /\ \A t \in Task \ doubtful' : ~InHand(t)
      /\ poll.at = "log" => poll.item.task \in doubtful'
  BY DEF Crash, AtRest, InHand, cashVars
<1>2. PollerKnows' /\ LogMatches' /\ UnpaidUnlessMade'
  BY <1>1 DEF PaymentsKept, PollerKnows, LogMatches, UnpaidUnlessMade
<1>3. PaidExactlyOnce'
  BY <1>1 DEF PaymentsKept, PaidExactlyOnce, InHand, Kids
<1> QED
  BY <1>2, <1>3 DEF PaymentsKept

-----------------------------------------------------------------------------
(***************************************************************************)
(* Templates of kids that are gone.                                        *)
(***************************************************************************)
\* Templates, marks and deletions are left alone, and nobody goes.
LEMMA SameTemplates ==
  ASSUME TemplatesKept, UNCHANGED <<template, crossed, cleaning, Kids>>
  PROVE  TemplatesKept'
  BY DEF TemplatesKept, DeletionKnows, Naming, OneGone

\* A request that writes members that all exist, or marks its template.
LEMMA MembersWritten ==
  ASSUME FlightsTyped, TemplatesKept, UNCHANGED <<balance, cleaning>>,
         NEW m, NEW members, crossed' = Named(m, members),
         DOMAIN template' = DOMAIN template \cup {m}, template'[m].members = members,
         \A x \in DOMAIN template : x # m => template'[x] = template[x]
  PROVE  TemplatesKept'
<1>1. Kids' = Kids
  BY DEF Kids
<1>2. m \notin crossed' => members \subseteq Kids
  BY DEF Named
<1>3. crossed \subseteq crossed'
  BY DEF Named
<1>4. \A x \in DOMAIN template' \ crossed' :
         template'[x].active => OneGone(template[x].members)'
  BY <1>1, <1>2, <1>3 DEF TemplatesKept, OneGone
<1>5. ASSUME NEW d \in cleaning PROVE DeletionKnows(d)'
  <2>1. d.kid \notin Kids
    BY DEF FlightsTyped, Cleaning
  <2>2. \A x \in Naming(d.kid)' \ crossed' : x \in Naming(d.kid) \ crossed
    BY <1>2, <1>3, <2>1 DEF Naming
  <2> QED
    BY <1>1, <1>3, <2>2 DEF TemplatesKept, DeletionKnows
<1> QED
  BY <1>4, <1>5 DEF TemplatesKept

\* Requests that name members that exist, or mark their template.
LEMMA TemplateStepKeeps ==
  ASSUME ChoresTypeOK, FlightsTyped, TemplatesKept, TemplateStep
  PROVE  TemplatesKept'
<1>1. ASSUME NEW m \in Template, NEW members \in SUBSET Account, NEW reward \in Reward,
             InsertTemplate(m, members, reward) \/ UpdateTemplate(m, members, reward)
      PROVE  TemplatesKept'
  <2>1. /\ crossed' = Named(m, members) /\ UNCHANGED <<balance, cleaning>>
        /\ DOMAIN template' = DOMAIN template \cup {m}
        /\ \A x \in DOMAIN template : x # m => template'[x] = template[x]
    BY <1>1 DEF InsertTemplate, UpdateTemplate, cashVars
  <2>2. template'[m].members = members
    BY <1>1 DEF InsertTemplate, UpdateTemplate, ChoresTypeOK
  <2> QED
    BY <2>1, <2>2, MembersWritten
<1>2. ASSUME NEW m \in Template, DeleteTemplate(m)
      PROVE  TemplatesKept'
  <2>1. /\ UNCHANGED <<balance, cleaning, crossed>> /\ DOMAIN template' = DOMAIN template
        /\ \A x \in DOMAIN template : /\ template'[x].members = template[x].members
                                      /\ template'[x].active => template[x].active
    BY <1>2 DEF DeleteTemplate, ChoresTypeOK, cashVars, historyVars
  <2>2. \A a : Naming(a)' \subseteq Naming(a)
    BY <2>1 DEF Naming
  <2> QED
    BY <2>1, <2>2 DEF TemplatesKept, DeletionKnows, OneGone, Kids
<1>3. CASE UNCHANGED <<template, crossed, cleaning, balance>>
  BY <1>3, SameTemplates DEF Kids
<1> QED
  BY <1>1, <1>2, <1>3 DEF TemplateStep, CreateTaskFails, CreateTask, cashVars, historyVars

\* A second deletion marks what it meets the first one in.
LEMMA DeleteKidKeeps ==
  ASSUME FlightsTyped, TemplatesKept, NEW a \in Account, DeleteKid(a)
  PROVE  TemplatesKept'
<1>1. /\ Kids' = Kids \ {a} /\ template' = template
      /\ cleaning' = cleaning \cup {[kid |-> a, at |-> "project", rows |-> {}]}
      /\ crossed' = IF cleaning # {} THEN crossed \cup DOMAIN template ELSE crossed
  BY DEF DeleteKid, RemoveKid, Restrict, Kids
<1>2. CASE cleaning # {}
  <2>1. \A d \in cleaning : \A row \in d.rows : row.template \in DOMAIN template
    BY DEF FlightsTyped, Cleaning, CleaningRow
  <2>2. \A d \in cleaning' : DeletionKnows(d)'
    BY <1>1, <1>2, <2>1 DEF DeletionKnows, Naming
  <2> QED
    BY <1>1, <1>2, <2>2 DEF TemplatesKept
<1>3. CASE cleaning = {}
  <2>1. \E d \in cleaning' : d.kid = a
    <3>1. [kid |-> a, at |-> "project", rows |-> {}].kid = a
      OBVIOUS
    <3> QED
      BY <1>1, <3>1
  <2>2. \A members : members \subseteq Kids => OneGone(members)'
    BY <1>1, <2>1 DEF OneGone
  <2>3. \A d \in cleaning' : DeletionKnows(d)'
    BY <1>1, <1>3 DEF DeletionKnows
  <2> QED
    BY <1>1, <1>3, <2>2, <2>3 DEF TemplatesKept, OneGone
<1> QED
  BY <1>2, <1>3

\* A deletion reads every template that still names its kid.
LEMMA ReadTemplatesKeeps ==
  ASSUME ChoresTypeOK, FlightsTyped, TemplatesKept, NEW d \in cleaning, ReadTemplates(d)
  PROVE  TemplatesKept'
<1>a. PICK rows : rows = {[template |-> m, members |-> template[m].members] : m \in Naming(d.kid)}
  OBVIOUS
<1>b. PICK e : e = [d EXCEPT !.at = "write", !.rows = rows]
  OBVIOUS
<1>1. /\ UNCHANGED <<balance, template, crossed>> /\ Kids' = Kids
      /\ cleaning' = (cleaning \ {d}) \cup (IF Naming(d.kid) = {} THEN {} ELSE {e})
  BY <1>a, <1>b DEF ReadTemplates, cashVars, historyVars, Kids
<1>2. d.kid \notin Kids /\ e.kid = d.kid /\ e.at = "write" /\ e.rows = rows
  BY <1>b DEF FlightsTyped, Cleaning
<1>3. \A m \in Naming(d.kid) \ crossed : template[m].members \subseteq Kids \cup {d.kid}
  BY <1>2 DEF Naming, TemplatesKept, OneGone
<1>4. DeletionKnows(e)'
  <2>1. \A row \in rows : row.template \notin crossed => row.members \subseteq Kids \cup {d.kid}
    BY <1>a, <1>3
  <2>2. \A m \in Naming(d.kid) : \E row \in rows : row.template = m
    <3>1. \A m : [template |-> m, members |-> template[m].members].template = m
      OBVIOUS
    <3> QED
      BY <1>a, <3>1
  <2> QED
    BY <1>1, <1>2, <2>1, <2>2 DEF DeletionKnows, Naming
<1>5. \A m \in DOMAIN template \ crossed :
         template[m].active => OneGone(template[m].members)'
  <2>1. ASSUME NEW m \in DOMAIN template \ crossed, template[m].active,
               ~(template[m].members \subseteq Kids)
        PROVE  \E c \in cleaning' : template[m].members \subseteq Kids \cup {c.kid}
    <3>1. PICK c \in cleaning : template[m].members \subseteq Kids \cup {c.kid}
      BY <2>1 DEF TemplatesKept, OneGone
    <3>2. CASE c # d
      BY <1>1, <3>1, <3>2
    <3>3. CASE c = d
      <4>1. m \in Naming(d.kid)
        BY <2>1, <3>1, <3>3 DEF Naming
      <4> QED
        BY <1>1, <1>2, <3>1, <3>3, <4>1
    <3> QED
      BY <3>2, <3>3
  <2> QED
    BY <1>1, <2>1 DEF OneGone
<1>6. \A c \in cleaning \ {d} : DeletionKnows(c)'
  BY <1>1 DEF TemplatesKept, DeletionKnows, Naming
<1> QED
  BY <1>1, <1>4, <1>5, <1>6 DEF TemplatesKept

\* A deletion writes each template it read without the kid.
LEMMA WriteTemplateKeeps ==
  ASSUME ChoresTypeOK, FlightsTyped, TemplatesKept, NEW d \in cleaning, NEW row \in d.rows,
         WriteTemplate(d, row)
  PROVE  TemplatesKept'
<1> DEFINE m == row.template
           e == [d EXCEPT !.rows = @ \ {row}]
<1>1. /\ UNCHANGED <<balance, crossed>> /\ Kids' = Kids /\ d.at = "write"
      /\ cleaning' = (cleaning \ {d}) \cup (IF d.rows = {row} THEN {} ELSE {e})
  BY DEF WriteTemplate, cashVars, historyVars, Kids
<1>2. /\ d.kid \notin Kids /\ e.kid = d.kid /\ e.at = "write" /\ e.rows = d.rows \ {row}
      /\ m \in DOMAIN template
  BY <1>1 DEF FlightsTyped, Cleaning, CleaningRow
<1>3. /\ DOMAIN template' = DOMAIN template
      /\ \A x \in DOMAIN template : x # m => template'[x] = template[x]
      /\ template'[m].active => template'[m].members = row.members \ {d.kid}
  BY <1>2 DEF WriteTemplate, ChoresTypeOK
<1>4. m \notin crossed => row.members \ {d.kid} \subseteq Kids
  BY DEF TemplatesKept, DeletionKnows
<1> HIDE DEF m, e
<1>5. \A a : a \notin Kids => \A x \in Naming(a)' \ crossed : x # m /\ x \in Naming(a)
  BY <1>2, <1>3, <1>4 DEF Naming
<1>6. ASSUME NEW c \in cleaning \ {d} PROVE DeletionKnows(c)'
  <2>1. c.kid \notin Kids
    BY DEF FlightsTyped, Cleaning
  <2> QED
    BY <1>1, <1>5, <2>1 DEF TemplatesKept, DeletionKnows
<1>7. DeletionKnows(e)'
  <2>1. \A x \in Naming(d.kid)' \ crossed : \E r \in d.rows \ {row} : r.template = x
    BY <1>1, <1>2, <1>5 DEF TemplatesKept, DeletionKnows, m
  <2> QED
    BY <1>1, <1>2, <2>1 DEF TemplatesKept, DeletionKnows
<1>8. ASSUME NEW x \in DOMAIN template' \ crossed, template'[x].active
      PROVE  OneGone(template[x].members)'
  <2>1. CASE x = m
    BY <1>1, <1>3, <1>4, <1>8, <2>1 DEF OneGone
  <2>2. CASE x # m
    <3>1. template'[x] = template[x] /\ OneGone(template[x].members)
      BY <1>3, <1>8, <2>2 DEF TemplatesKept
    <3>2. ASSUME template[x].members \subseteq Kids \cup {d.kid}
          PROVE  OneGone(template[x].members)'
      <4>1. CASE d.kid \in template[x].members
        <5>1. x \in Naming(d.kid)
          BY <1>3, <1>8, <3>1, <4>1 DEF Naming
        <5>2. \E r \in d.rows : r.template = x
          BY <1>1, <1>8, <5>1 DEF TemplatesKept, DeletionKnows
        <5>3. d.rows # {row}
          BY <2>2, <5>2 DEF m
        <5> QED
          BY <1>1, <1>2, <3>1, <3>2, <5>3 DEF OneGone
      <4>2. CASE d.kid \notin template[x].members
        BY <1>1, <3>1, <3>2, <4>2 DEF OneGone
      <4> QED
        BY <4>1, <4>2
    <3> QED
      BY <1>1, <3>1, <3>2 DEF OneGone
  <2> QED
    BY <2>1, <2>2
<1> QED
  BY <1>1, <1>6, <1>7, <1>8 DEF TemplatesKept

\* Deletions, step by step.
LEMMA KidStepKeeps ==
  ASSUME ChoresTypeOK, FlightsTyped, TemplatesKept, KidStep
  PROVE  TemplatesKept'
<1>1. ASSUME NEW d \in cleaning, DeleteProject(d)
      PROVE  TemplatesKept'
  <2> DEFINE e == [d EXCEPT !.at = "read"]
  <2>1. /\ UNCHANGED <<template, crossed>> /\ Kids' = Kids
        /\ cleaning' = (cleaning \ {d}) \cup {e}
    BY <1>1 DEF DeleteProject, cashVars, historyVars, Kids
  <2>2. e.kid = d.kid /\ e.rows = d.rows /\ e.at = "read"
    BY DEF FlightsTyped, Cleaning
  <2> HIDE DEF e
  <2>3. \A members : OneGone(members) => OneGone(members)'
    BY <2>1, <2>2 DEF OneGone
  <2>4. \A c \in cleaning' : DeletionKnows(c)'
    BY <2>1, <2>2 DEF TemplatesKept, DeletionKnows, Naming
  <2> QED
    BY <2>1, <2>3, <2>4 DEF TemplatesKept
<1>2. CASE \E t \in Task : CompleteTask(t) \/ ReopenTask(t)
  BY <1>2, SameTemplates DEF CompleteTask, ReopenTask, cashVars, historyVars, Kids
<1> QED
  BY <1>1, <1>2, DeleteKidKeeps, ReadTemplatesKeeps, WriteTemplateKeeps DEF KidStep

\* A poll writes no template.
LEMMA PollStepKeeps ==
  ASSUME TemplatesKept, PollStep
  PROVE  TemplatesKept'
<1>1. UNCHANGED <<template, crossed, cleaning, Kids>>
  BY DEF PollStep, StartPoll, EndPoll, PayFails, LogTask, LogFails, FetchTasks, FetchFails,
         Fetched, LookUp, PayKid, Post, Credit, Kids, cashVars, historyVars
<1> QED
  BY <1>1, SameTemplates

\* A crash marks what a deletion leaves behind.
LEMMA CrashKeeps ==
  ASSUME TemplatesKept, Crash
  PROVE  TemplatesKept'
  BY DEF Crash, TemplatesKept, DeletionKnows, OneGone, Kids, cashVars

-----------------------------------------------------------------------------
(***************************************************************************)
(* The theorems.                                                           *)
(***************************************************************************)
\* The empty tables.
LEMMA ChoresInitIInv == Init => CashIInv /\ BalanceIInv /\ ChoresIInv
<1> SUFFICES ASSUME Init PROVE CashIInv /\ BalanceIInv /\ ChoresIInv
  OBVIOUS
<1>1. CashIInv /\ BalanceIInv
  BY CashInitIInv, BalanceInit DEF Init
<1>2. AtRest.kids = {} /\ AtRest.batch = {} /\ AtRest.at = "rest" /\ AtRest.reward = 0
        /\ AtRest.item = NoItem
  BY DEF AtRest
<1>3. ChoresTypeOK
  BY <1>2 DEF Init, ChoresTypeOK
<1>4. FlightsTyped
  <2>1. AtRest \in PollType
    BY DEF AtRest, PollType
  <2> QED
    BY <2>1 DEF Init, FlightsTyped
<1>5. PaymentsKept
  BY <1>2 DEF Init, PaymentsKept, PollerKnows, LogMatches, UnpaidUnlessMade,
              PaidExactlyOnce
<1>6. TemplatesKept
  BY DEF Init, TemplatesKept
<1> QED
  BY <1>1, <1>3, <1>4, <1>5, <1>6 DEF ChoresIInv

\* Every step keeps the invariants of currency and chores.
LEMMA ChoresStepIInv ==
  ASSUME CashIInv, ChoresIInv, [Next]_vars
  PROVE  CashIInv' /\ ChoresIInv'
<1> USE DEF ChoresIInv
<1>1. PollerKnows
  BY DEF PaymentsKept
<1>2. CashIInv' /\ ChoresTypeOK' /\ FlightsTyped'
  BY <1>1, ChoresCashStep, ChoresStepTyped
<1>3. CASE UNCHANGED vars
  BY <1>2, <1>3, SamePayments, SameTemplates DEF vars, choreVars, historyVars, cashVars, Kids
<1>4. PaymentsKept'
  BY <1>3, <1>2, TemplateStepPays, KidStepPays, PollStepPays, CrashPays DEF Next
<1>5. TemplatesKept'
  BY <1>3, <1>2, TemplateStepKeeps, KidStepKeeps, PollStepKeeps, CrashKeeps DEF Next
<1> QED
  BY <1>2, <1>4, <1>5

\* The three invariants together.
LEMMA ChoresInvariant == Spec => [](CashIInv /\ BalanceIInv /\ ChoresIInv)
<1>1. ASSUME CashIInv, BalanceIInv, ChoresIInv, [Next]_vars
      PROVE  CashIInv' /\ BalanceIInv' /\ ChoresIInv'
  BY <1>1, ChoresStepIInv, ChoresBalanceStep DEF ChoresIInv, PaymentsKept
<1> QED
  BY <1>1, ChoresInitIInv, PTL DEF Spec

\* The tables of templates, tasks and log rows keep their shape, and a log row
\* never outlives its kid.
THEOREM ChoresTypeCorrect == Spec => []ChoresTypeOK
  BY ChoresInvariant, PTL DEF ChoresIInv

\* A completed chore is paid once, whenever kids, templates and tasks come and
\* go, unless a crash or a failed statement parted payment and log row.
THEOREM ChoresPaidOnce == Spec => []PaidExactlyOnce
  BY ChoresInvariant, PTL DEF ChoresIInv, PaymentsKept

\* Once a kid's deletion is over no active template names the kid, unless
\* another deletion overlapped, the server died or a request named a deleted kid.
THEOREM ChoresGoneKids == Spec => []GoneKidsUnassigned
<1>1. ChoresIInv => GoneKidsUnassigned
  <2> SUFFICES ASSUME ChoresIInv, NEW m \in DOMAIN template \ crossed, template[m].active
               PROVE  template[m].members \subseteq Kids \cup {d.kid : d \in cleaning}
    BY DEF GoneKidsUnassigned
  <2>1. OneGone(template[m].members)
    BY DEF ChoresIInv, TemplatesKept
  <2> QED
    BY <2>1 DEF OneGone
<1> QED
  BY <1>1, ChoresInvariant, PTL

\* The poller's payments and the deletions of kids leave every stored balance
\* the sum of the rows of its account.
THEOREM ChoresBalanceIsSum == Spec => []BalanceMatchesLedger
  BY ChoresInvariant, PTL DEF BalanceIInv

\* Seen from the accounts, chores are awards and closed accounts of the atomic
\* ledger, wherever a poll or a deletion is interrupted.
THEOREM ChoresImplementLedger == Spec => ImplementsAtomicLedger
<1>1. Init => Abstract!Init
  BY AbstractInit DEF Init
<1>2. ASSUME CashIInv, CashIInv', BalanceIInv, BalanceIInv', ChoresIInv, [Next]_vars
      PROVE  [raced' = {} => Abstract!Next]_<<DOMAIN balance, ledger, balance>>
  <2>1. CASE \E x \in Txn, a \in Account, amt \in Int : Post(x, a, "earn", amt)
    BY <1>2, <2>1, PostRefines DEF TxType
  <2>2. CASE \E a \in Account : RemoveKid(a)
    BY <1>2, <2>2, RemoveKidCloses, NextBalanceShows DEF Abstract!Next
  <2>3. CASE UNCHANGED cashVars
    BY <2>3 DEF cashVars
  <2> QED
    BY <1>2, <2>1, <2>2, <2>3, ChoresMoveCash DEF ChoresIInv, PaymentsKept
<1> QED
  BY <1>1, <1>2, ChoresInvariant, PTL DEF Spec, ImplementsAtomicLedger
=============================================================================
