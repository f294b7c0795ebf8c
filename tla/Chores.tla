------------------------------- MODULE Chores -------------------------------
(***************************************************************************)
(* Chores and what they pay.  A chore template                             *)
(* (service/chore_templates.go) is a row here and one task per assigned    *)
(* kid in Vikunja, an external task server, each labelled with the         *)
(* template.  The chore poller (service/chore_poller.go) looks for         *)
(* completed labelled tasks every two minutes and pays the kid's account.  *)
(*                                                                         *)
(* SandersCash is the currency: an account stands for the kid that owns    *)
(* it, for both come and go together.  Creating a template, deleting a kid *)
(* and polling are sequences of SQL statements and HTTP calls with nothing *)
(* around them; `creating', `cleaning' and `poll' are where they stand.    *)
(***************************************************************************)
EXTENDS SandersCash

CONSTANTS
    Template,   \* chore template ids
    Task,       \* Vikunja task ids
    Reward,     \* amounts a template may pay, in cents
    None,       \* no task
    Faults      \* what may go wrong: "crash", "pay", "log", "vikunja"

ASSUME ChoresAssumption ==
    /\ Reward \subseteq Nat
    /\ None \notin Task
    /\ Faults \subseteq {"crash", "pay", "log", "vikunja"}

VARIABLES
    template,   \* chore_templates: id -> [reward, members, active]
    task,       \* Vikunja's tasks: id -> [template, kid, done, deleted]
    logged,     \* chore_completion_log: task -> kid
    creating,   \* CreateTemplate calls in flight: [template, todo]
    cleaning,   \* deletions of kids in flight: [kid, at, rows]
    poll,       \* the poller: [kids, batch, at, item, reward]
    paid,       \* history: payments made for each task
    owed,       \* history: tasks whose template paid something when the poller
                \* last looked it up for them
    doubtful,   \* history: tasks whose payment and log row were separated by a
                \* crash or a failed statement
    crossed     \* history: templates written to by two overlapping deletions of
                \* kids, or by a request that names a deleted kid

choreVars == <<template, task, logged, creating, cleaning, poll>>
historyVars == <<paid, owed, doubtful, crossed>>
vars == <<cashVars, choreVars, historyVars>>

Kids == DOMAIN balance
Item == [task : Task, template : Template, kid : Account]
NoItem == [task |-> None]

AtRest == [kids |-> {}, batch |-> {}, at |-> "rest", item |-> NoItem, reward |-> 0]

\* A request may name any member, one deleted since its form was opened too.
Named(m, members) == IF members \subseteq Kids THEN crossed ELSE crossed \cup {m}

-----------------------------------------------------------------------------
(***************************************************************************)
(* Templates.                                                              *)
(***************************************************************************)
InsertTemplate(m, members, reward) ==
    /\ m \notin DOMAIN template
    /\ members # {}
    /\ template' = [x \in DOMAIN template \cup {m} |->
                      IF x = m THEN [reward |-> reward, members |-> members, active |-> TRUE]
                               ELSE template[x]]
    /\ creating' = creating \cup {[template |-> m, todo |-> members]}
    /\ crossed' = Named(m, members)
    /\ UNCHANGED <<cashVars, task, logged, cleaning, poll, paid, owed, doubtful>>

Advance(c, a) ==
    creating' = (creating \ {c}) \cup
        (IF c.todo = {a} THEN {} ELSE {[c EXCEPT !.todo = @ \ {a}]})

\* One task in the project of one of the members.
CreateTask(c, a, t) ==
    /\ c \in creating /\ a \in c.todo
    /\ a \in Kids /\ t \notin DOMAIN task
    /\ task' = [x \in DOMAIN task \cup {t} |->
                  IF x = t THEN [template |-> c.template, kid |-> a, done |-> FALSE,
                                 deleted |-> FALSE]
                           ELSE task[x]]
    /\ Advance(c, a)
    /\ UNCHANGED <<cashVars, template, logged, cleaning, poll, historyVars>>

\* The kid is gone or Vikunja answers with an error: the call gives up and
\* leaves the template as it is.
CreateTaskFails(c) ==
    /\ c \in creating
    /\ "vikunja" \in Faults \/ \E a \in c.todo : a \notin Kids
    /\ creating' = creating \ {c}
    /\ UNCHANGED <<cashVars, template, task, logged, cleaning, poll, historyVars>>

\* Every field but `active' is written; the tasks in Vikunja are left alone.
UpdateTemplate(m, members, reward) ==
    /\ m \in DOMAIN template
    /\ template' = [template EXCEPT ![m].reward = reward, ![m].members = members]
    /\ crossed' = Named(m, members)
    /\ UNCHANGED <<cashVars, task, logged, creating, cleaning, poll, paid, owed, doubtful>>

DeleteTemplate(m) ==
    /\ m \in DOMAIN template
    /\ template' = [template EXCEPT ![m].active = FALSE]
    /\ UNCHANGED <<cashVars, task, logged, creating, cleaning, poll, historyVars>>

-----------------------------------------------------------------------------
(***************************************************************************)
(* A kid completes a task, or takes it back (in Vikunja, through           *)
(* api/tasks.go or directly).  A repeating task is opened again by Vikunja *)
(* under the same id.                                                      *)
(***************************************************************************)
There(t) == t \in DOMAIN task /\ ~task[t].deleted

CompleteTask(t) ==
    /\ There(t) /\ ~task[t].done
    /\ task' = [task EXCEPT ![t].done = TRUE]
    /\ UNCHANGED <<cashVars, template, logged, creating, cleaning, poll, historyVars>>

ReopenTask(t) ==
    /\ There(t) /\ task[t].done
    /\ task' = [task EXCEPT ![t].done = FALSE]
    /\ UNCHANGED <<cashVars, template, logged, creating, cleaning, poll, historyVars>>

-----------------------------------------------------------------------------
(***************************************************************************)
(* Deleting a kid (api/family.go Delete): the row with all that cascades   *)
(* from it, the Vikunja project, then the templates: read the rows that    *)
(* name the kid, and write each one back without the kid.                  *)
(***************************************************************************)
DeleteKid(a) ==
    /\ RemoveKid(a)
    /\ logged' = Restrict(logged, {t \in DOMAIN logged : logged[t] # a})
    /\ cleaning' = cleaning \cup {[kid |-> a, at |-> "project", rows |-> {}]}
    /\ crossed' = IF cleaning # {} THEN crossed \cup DOMAIN template ELSE crossed
    /\ UNCHANGED <<template, task, creating, poll, paid, owed, doubtful>>

\* An error is logged and the handler goes on.
DeleteProject(d) ==
    /\ d \in cleaning /\ d.at = "project"
    /\ \/ task' = [t \in DOMAIN task |->
                       [task[t] EXCEPT !.deleted = @ \/ task[t].kid = d.kid]]
       \/ "vikunja" \in Faults /\ UNCHANGED task
    /\ cleaning' = (cleaning \ {d}) \cup {[d EXCEPT !.at = "read"]}
    /\ UNCHANGED <<cashVars, template, logged, creating, poll, historyVars>>

Naming(a) == {m \in DOMAIN template : template[m].active /\ a \in template[m].members}

ReadTemplates(d) ==
    /\ d \in cleaning /\ d.at = "read"
    /\ cleaning' = (cleaning \ {d}) \cup
         (IF Naming(d.kid) = {} THEN {}
          ELSE {[d EXCEPT !.at = "write",
                          !.rows = {[template |-> m, members |-> template[m].members] :
                                      m \in Naming(d.kid)}]})
    /\ UNCHANGED <<cashVars, template, task, logged, creating, poll, historyVars>>

\* Mutant: a template that loses its last kid stays active.
WriteTemplateBack(d, row) ==
    /\ d \in cleaning /\ d.at = "write" /\ row \in d.rows
    /\ template' = IF row.members = {d.kid} THEN template
                   ELSE [template EXCEPT ![row.template].members = row.members \ {d.kid}]
    /\ cleaning' = (cleaning \ {d}) \cup
         (IF d.rows = {row} THEN {} ELSE {[d EXCEPT !.rows = @ \ {row}]})
    /\ UNCHANGED <<cashVars, task, logged, creating, poll, historyVars>>

\* The members written back are the ones that were read.
WriteTemplate(d, row) ==
    /\ d \in cleaning /\ d.at = "write" /\ row \in d.rows
    /\ template' = IF row.members = {d.kid}
                   THEN [template EXCEPT ![row.template].active = FALSE]
                   ELSE [template EXCEPT ![row.template].members = row.members \ {d.kid}]
    /\ cleaning' = (cleaning \ {d}) \cup
         (IF d.rows = {row} THEN {} ELSE {[d EXCEPT !.rows = @ \ {row}]})
    /\ UNCHANGED <<cashVars, task, logged, creating, poll, historyVars>>

-----------------------------------------------------------------------------
(***************************************************************************)
(* The poller: one goroutine.                                              *)
(***************************************************************************)
StartPoll ==
    /\ poll = AtRest
    /\ poll' = [AtRest EXCEPT !.kids = Kids, !.at = "fetch"]
    /\ UNCHANGED <<cashVars, template, task, logged, creating, cleaning, historyVars>>

DoneTasks(a) ==
    {[task |-> t, template |-> task[t].template, kid |-> a] :
        t \in {x \in DOMAIN task : There(x) /\ task[x].done /\ task[x].kid = a}}

Fetched(a, items) ==
    /\ poll.at = "fetch" /\ poll.batch = {} /\ a \in poll.kids
    /\ poll' = [poll EXCEPT !.kids = @ \ {a}, !.batch = items]
    /\ UNCHANGED <<cashVars, template, task, logged, creating, cleaning, historyVars>>

FetchTasks(a) == Fetched(a, DoneTasks(a))
FetchFails(a) == "vikunja" \in Faults /\ Fetched(a, {})

EndPoll ==
    /\ poll.at = "fetch" /\ poll.batch = {} /\ poll.kids = {}
    /\ poll' = AtRest
    /\ UNCHANGED <<cashVars, template, task, logged, creating, cleaning, historyVars>>

\* Mutant: the log is not looked at.
MayPayAny(i) == i.template \in DOMAIN template /\ template[i.template].active

\* Not in the log, and its template is still active.
MayPay(i) ==
    /\ i.task \notin DOMAIN logged
    /\ i.template \in DOMAIN template /\ template[i.template].active

\* The log is written by the poller alone, so that looking at it and reading
\* the reward are one step.
LookUp(i) ==
    /\ poll.at = "fetch" /\ i \in poll.batch
    /\ poll' = IF MayPay(i)
               THEN [poll EXCEPT !.batch = @ \ {i}, !.item = i,
                                 !.reward = template[i.template].reward,
                                 !.at = IF template[i.template].reward > 0
                                        THEN "pay" ELSE "log"]
               ELSE [poll EXCEPT !.batch = @ \ {i}]
    /\ owed' = IF ~MayPay(i) THEN owed
               ELSE IF template[i.template].reward > 0 THEN owed \cup {i.task}
               ELSE owed \ {i.task}
    /\ UNCHANGED <<cashVars, template, task, logged, creating, cleaning,
                   paid, doubtful, crossed>>

PayKid(x) ==
    /\ poll.at = "pay"
    /\ Post(x, poll.item.kid, "earn", poll.reward)
    /\ poll' = [poll EXCEPT !.at = "log"]
    /\ paid' = [paid EXCEPT ![poll.item.task] = @ + 1]
    /\ UNCHANGED <<template, task, logged, creating, cleaning, owed, doubtful, crossed>>

\* No account, or the statement fails: the task is logged all the same.
PayFails ==
    /\ poll.at = "pay"
    /\ poll.item.kid \notin Kids \/ "pay" \in Faults
    /\ poll' = [poll EXCEPT !.at = "log"]
    /\ doubtful' = doubtful \cup {poll.item.task}
    /\ UNCHANGED <<cashVars, template, task, logged, creating, cleaning, paid, owed, crossed>>

NextItem == poll' = [poll EXCEPT !.at = "fetch", !.item = NoItem, !.reward = 0]

\* Mutant: a task is not remembered.
LogNothing ==
    /\ poll.at = "log"
    /\ NextItem
    /\ UNCHANGED <<logged, cashVars, template, task, creating, cleaning, historyVars>>

\* Mutant: member_id is no foreign key.
LogOrphan ==
    /\ poll.at = "log"
    /\ logged' = [t \in DOMAIN logged \cup {poll.item.task} |->
                    IF t = poll.item.task THEN poll.item.kid ELSE logged[t]]
    /\ NextItem
    /\ UNCHANGED <<cashVars, template, task, creating, cleaning, historyVars>>

\* member_id is a foreign key: the insert fails once the kid is gone.
LogTask ==
    /\ poll.at = "log" /\ poll.item.kid \in Kids
    /\ logged' = [t \in DOMAIN logged \cup {poll.item.task} |->
                    IF t = poll.item.task THEN poll.item.kid ELSE logged[t]]
    /\ NextItem
    /\ UNCHANGED <<cashVars, template, task, creating, cleaning, historyVars>>

LogFails ==
    /\ poll.at = "log"
    /\ poll.item.kid \notin Kids \/ "log" \in Faults
    /\ NextItem
    /\ doubtful' = doubtful \cup {poll.item.task}
    /\ UNCHANGED <<cashVars, template, task, logged, creating, cleaning, paid, owed, crossed>>

\* The process dies: every call in flight is gone.
Crash ==
    /\ "crash" \in Faults
    /\ \/ poll # AtRest \/ creating # {} \/ cleaning # {}
    /\ poll' = AtRest /\ creating' = {} /\ cleaning' = {}
    /\ doubtful' = IF poll.at = "log" THEN doubtful \cup {poll.item.task} ELSE doubtful
    /\ crossed' = IF cleaning # {} THEN crossed \cup DOMAIN template ELSE crossed
    /\ UNCHANGED <<cashVars, template, task, logged, paid, owed>>

-----------------------------------------------------------------------------
Init ==
    /\ CashInit
    /\ template = [m \in {} |-> 0]
    /\ task = [t \in {} |-> 0]
    /\ logged = [t \in {} |-> 0]
    /\ creating = {} /\ cleaning = {}
    /\ poll = AtRest
    /\ paid = [t \in Task |-> 0]
    /\ owed = {} /\ doubtful = {} /\ crossed = {}

TemplateStep ==
    \/ \E m \in Template, members \in SUBSET Account, reward \in Reward :
         InsertTemplate(m, members, reward) \/ UpdateTemplate(m, members, reward)
    \/ \E m \in Template : DeleteTemplate(m)
    \/ \E c \in creating :
         CreateTaskFails(c) \/ \E a \in Account, t \in Task : CreateTask(c, a, t)

KidStep ==
    \/ \E t \in Task : CompleteTask(t) \/ ReopenTask(t)
    \/ \E a \in Account : DeleteKid(a)
    \/ \E d \in cleaning :
         DeleteProject(d) \/ ReadTemplates(d) \/ \E row \in d.rows : WriteTemplate(d, row)

PollStep ==
    \/ StartPoll \/ EndPoll \/ PayFails \/ LogTask \/ LogFails
    \/ \E a \in Account : FetchTasks(a) \/ FetchFails(a)
    \/ \E i \in poll.batch : LookUp(i)
    \/ \E x \in Txn : PayKid(x)

Next == TemplateStep \/ KidStep \/ PollStep \/ Crash

Spec == Init /\ [][Next]_vars

\* The scheduler's ticker starts a poll every two minutes and the poll runs to
\* its end; Vikunja does not answer every poll with an error.
Fairness ==
    /\ WF_vars(PollStep)
    /\ \A a \in Account : SF_vars(FetchTasks(a))

FairSpec == Spec /\ Fairness

-----------------------------------------------------------------------------
(***************************************************************************)
(* Properties.                                                             *)
(***************************************************************************)
\* The variables have the shape of their tables.
ChoresTypeOK ==
    /\ DOMAIN template \subseteq Template
    /\ template \in [DOMAIN template ->
                       [reward : Reward, members : SUBSET Account, active : BOOLEAN]]
    /\ DOMAIN task \subseteq Task
    /\ task \in [DOMAIN task -> [template : DOMAIN template, kid : Account,
                                done : BOOLEAN, deleted : BOOLEAN]]
    /\ DOMAIN logged \subseteq Task /\ logged \in [DOMAIN logged -> Kids]
    /\ poll.kids \subseteq Account /\ poll.batch \subseteq Item
    /\ poll.at \in {"rest", "fetch", "pay", "log"}
    /\ poll.item \in Item \cup {NoItem} /\ poll.reward \in Reward \cup {0}
    /\ paid \in [Task -> Nat]
    /\ owed \subseteq Task /\ doubtful \subseteq Task /\ crossed \subseteq Template

InHand(t) == poll.at = "log" /\ poll.item.task = t

\* A completed chore is paid exactly once: a chore that is logged has been paid
\* what its template then promised, no more, however often it is polled, taken
\* back and completed again; and nothing is paid that is not about to be
\* logged.  (Unless a crash or a failed statement came in between.)
PaidExactlyOnce ==
    \A t \in DOMAIN task \ doubtful :
        task[t].kid \in Kids =>
            paid[t] = IF t \in owed /\ (t \in DOMAIN logged \/ InHand(t)) THEN 1 ELSE 0

\* "prevents double-awarding": the same without the exceptions.
NeverPaidTwice == \A t \in Task : paid[t] <= 1

\* Once the deletion of a kid is over, no active template is assigned to the
\* kid, unless another deletion overlapped, the server died, or a request named
\* a kid already deleted.
GoneKidsUnassigned ==
    \A m \in DOMAIN template \ crossed :
        template[m].active => template[m].members \subseteq Kids \cup {d.kid : d \in cleaning}

\* A completed chore of an existing kid and an active template is not left
\* unsettled for ever: the poller logs it, with its payment, or it stops being one.
Unsettled(t) ==
    /\ There(t) /\ task[t].done /\ task[t].kid \in Kids
    /\ template[task[t].template].active
    /\ t \notin DOMAIN logged

CompletedIsSettled == \A t \in Task : Unsettled(t) ~> ~Unsettled(t)
=============================================================================
