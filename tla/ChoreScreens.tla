----------------------------- MODULE ChoreScreens -----------------------------
(***************************************************************************)
(* The screens of chores, tasks and batch runs in the browser              *)
(* (web/src/pages/{Chores,Tasks,BatchProcesses}.tsx and                    *)
(* components/chores/ChoresWidget.tsx), with the handler that completes a  *)
(* task (server/internal/api/tasks.go).  An item is a chore, a task of an  *)
(* adult or a run of a job, according to the screen; the page shows the    *)
(* last list it read.                                                      *)
(***************************************************************************)
EXTENDS Naturals, FiniteSets

CONSTANTS
    Item,       \* chores, tasks or runs
    NoItem,
    Grownup,    \* the adults whose tasks may be shown
    NoGrownup,  \* none: the kiosk before it has read the family
    OwnerOf,    \* the adult a task belongs to
    MaxPosts,   \* bound: requests that change something
    MaxGlances  \* bound: lists read

ASSUME ChoreScreensAssumption ==
    /\ Item # {} /\ NoItem \notin Item /\ NoGrownup \notin Grownup /\ OwnerOf \in [Item -> Grownup]
    /\ MaxPosts \in Nat /\ MaxGlances \in Nat \ {0}

VARIABLES
    screen,     \* "chores", "widget", "tasks" or "batch"
    items,      \* the server: "none", "open" (or running) or "done"
    page,       \* the list on the screen
    glances,    \* lists being read: number, whose, and what was read
    glanced,    \* lists asked for
    glancedUpTo,    \* history: the newest list that was put on the screen
    posts, posted,  \* changes on their way: what, the item, and how far the server is
    missed,     \* history: the page has lost an answer or a message, or shows an older list
    picked,     \* the adult whose tasks are shown
    formOpen, formBusy, \* the form, and "Saving..."
    editedChore,    \* the chore its Update button writes, or NoItem
    filledFor,  \* what it was filled in with: a chore, or NoItem
    wanted,     \* history: what it was opened for
    rewritten,  \* history: chores written over with what was meant for another
    hopped,     \* history: Edit was pressed with the form open
    signals,    \* batch_run_complete messages on their way
    alarm,      \* a timer of triggerBriefing is set; two count as one
    counted, finished,  \* completions recorded for each item; history: times it was finished
    doubled     \* history: items about which two requests were on their way at once

formBits == <<formOpen, formBusy, editedChore, filledFor, wanted, rewritten, hopped>>
glanceBits == <<glances, glanced>>
pageBits == <<page, missed, glancedUpTo>>
serverBits == <<items, counted, finished>>
choreScreenVars == <<screen, serverBits, pageBits, glanceBits, posts, posted, picked, formBits,
                     signals, alarm, doubled>>

\* The list the page would read now.
Visible(who) ==
    [i \in Item |-> IF screen = "tasks" /\ OwnerOf[i] # who THEN "none" ELSE items[i]]

\* A list is asked for.  On the page of tasks the effect that asks again first
\* forgets the answer it waited for.  On the dashboard a fetch under way is not
\* repeated (lib/query.ts).
AskList(who) ==
    IF screen = "widget" /\ glances # {}
    THEN missed' = TRUE /\ UNCHANGED glanceBits
    ELSE /\ glanced' = glanced + 1 /\ UNCHANGED missed
         /\ LET ask == [no |-> glanced', who |-> who, list |-> <<>>]
            IN  glances' = IF screen = "tasks" THEN {ask} ELSE glances \cup {ask}

ChoreScreensInit ==
    /\ screen \in {"chores", "widget", "tasks", "batch"}
    /\ items = [i \in Item |-> IF i = (CHOOSE j \in Item : TRUE) /\ screen # "batch"
                               THEN "open" ELSE "none"]
    /\ page = [i \in Item |-> "none"] /\ missed = FALSE /\ glancedUpTo = 0
    /\ picked \in IF screen = "tasks" THEN {NoGrownup, OwnerOf[CHOOSE j \in Item : TRUE]}
                                     ELSE {NoGrownup}
    /\ IF screen = "tasks" /\ picked = NoGrownup
       THEN glances = {} /\ glanced = 0
       ELSE glances = {[no |-> 1, who |-> picked, list |-> <<>>]} /\ glanced = 1
    /\ posts = {} /\ posted = 0
    /\ formOpen = FALSE /\ formBusy = FALSE /\ editedChore = NoItem /\ filledFor = NoItem
    /\ wanted = NoItem /\ rewritten = {} /\ hopped = FALSE
    /\ signals = 0 /\ alarm = FALSE
    /\ counted = [i \in Item |-> 0] /\ finished = [i \in Item |-> 0] /\ doubled = {}

-----------------------------------------------------------------------------
ListRead(g) ==
    /\ g \in glances /\ g.list = <<>>
    /\ glances' = (glances \ {g}) \cup {[g EXCEPT !.list = Visible(g.who)]}
    /\ UNCHANGED <<screen, serverBits, pageBits, glanced, posts, posted, picked, formBits,
                   signals, alarm, doubled>>

\* The answer replaces the page, even when it is an older one.
ListShown(g) ==
    /\ g \in glances /\ g.list # <<>> /\ glances' = glances \ {g}
    /\ page' = g.list /\ missed' = (missed \/ (g.no < glancedUpTo /\ screen # "tasks"))
    /\ glancedUpTo' = IF g.no > glancedUpTo THEN g.no ELSE glancedUpTo
    /\ UNCHANGED <<screen, serverBits, glanced, posts, posted, picked, formBits, signals,
                   alarm, doubled>>

\* The page of tasks shows none when they cannot be read; the others keep what they show.
ListFails(g) ==
    /\ g \in glances /\ glances' = glances \ {g} /\ missed' = TRUE
    /\ page' = IF screen = "tasks" THEN [i \in Item |-> "none"] ELSE page
    /\ UNCHANGED <<screen, serverBits, glancedUpTo, glanced, posts, posted, picked,
                   formBits, signals, alarm, doubled>>

\* Another adult is chosen, or the kiosk has read who there is.
Pick(who) ==
    /\ screen = "tasks" /\ who # picked /\ glanced < MaxGlances
    /\ picked' = who /\ AskList(who)
    /\ UNCHANGED <<screen, serverBits, page, glancedUpTo, posts, posted, formBits,
                   signals, alarm, doubled>>

-----------------------------------------------------------------------------
Post(do, i) ==
    /\ posted < MaxPosts /\ posted' = posted + 1
    /\ posts' = posts \cup {[no |-> posted', do |-> do, item |-> i, at |-> "sent",
                             meant |-> wanted, body |-> filledFor]}
    /\ doubled' = IF \E p \in posts : p.item = i THEN doubled \cup {i} ELSE doubled

\* A tick asks for the opposite of what the page shows; no tick waits for another.
TickItem(i) ==
    /\ screen # "batch" /\ page[i] # "none"
    /\ Post(IF page[i] = "done" THEN "uncomplete" ELSE "complete", i)
    /\ UNCHANGED <<screen, serverBits, pageBits, glanceBits, picked, formBits, signals,
                   alarm>>

\* TasksHandler.Complete reads the task first, to count it once.
CheckDone(p) ==
    /\ p \in posts /\ p.do = "complete" /\ p.at = "sent" /\ items[p.item] # "none"
    /\ posts' = (posts \ {p}) \cup
                {[p EXCEPT !.at = IF items[p.item] = "done" THEN "was done" ELSE "was open"]}
    /\ UNCHANGED <<screen, serverBits, pageBits, glanceBits, posted, picked, formBits,
                   signals, alarm, doubled>>

CompleteAndCount(p) ==
    /\ p \in posts /\ p.at \in {"was open", "was done"} /\ items[p.item] # "none"
    /\ posts' = (posts \ {p}) \cup {[p EXCEPT !.at = "made"]}
    /\ items' = [items EXCEPT ![p.item] = "done"]
    /\ finished' = IF items[p.item] = "open" THEN [finished EXCEPT ![p.item] = @ + 1]
                                             ELSE finished
    /\ \/ counted' = IF p.at = "was open" THEN [counted EXCEPT ![p.item] = @ + 1] ELSE counted
       \/ UNCHANGED counted       \* the error of RecordCompletion is dropped
    /\ UNCHANGED <<screen, pageBits, glanceBits, posted, picked, formBits, signals, alarm,
                   doubled>>

\* The server makes any other change.  Runs of a job are alike.
Made(p) ==
    /\ p \in posts /\ p.do # "complete" /\ p.at = "sent"
    /\ p.do \in {"uncomplete", "delete", "update"} => items[p.item] # "none"
    /\ \E i \in Item :
          /\ CASE p.do = "create" -> items[i] = "none"
               [] p.do = "trigger" -> i = (CHOOSE j \in Item : items[j] = "none")
               [] OTHER -> i = p.item
          /\ items' = CASE p.do = "delete" -> [items EXCEPT ![i] = "none"]
                        [] p.do = "update" -> items
                        [] OTHER -> [items EXCEPT ![i] = "open"]
    /\ posts' = (posts \ {p}) \cup {[p EXCEPT !.at = "made"]}
    /\ rewritten' = IF p.do = "update" /\ (p.meant # p.item \/ p.body # p.item)
                    THEN rewritten \cup {p.item} ELSE rewritten
    /\ UNCHANGED <<screen, counted, finished, pageBits, glanceBits, posted, picked,
                   formOpen, formBusy, editedChore, filledFor, wanted, hopped, signals,
                   alarm, doubled>>

\* .then(load): the list is read again.
Answer(p) ==
    /\ p \in posts /\ p.at = "made" /\ posts' = posts \ {p}
    /\ p.do \in {"complete", "uncomplete", "delete"} /\ AskList(picked)
    /\ UNCHANGED <<screen, serverBits, page, glancedUpTo, posted, picked, formBits,
                   signals, alarm, doubled>>

\* An error, or an answer lost: a form that was saving may be sent again.
ChorePostFails(p) ==
    /\ p \in posts /\ posts' = posts \ {p} /\ missed' = (missed \/ p.at = "made")
    /\ formBusy' = (formBusy /\ \/ p.do \notin {"create", "update", "trigger"}
                                \/ \E q \in posts : q.no > p.no /\ q.do \in {"create", "update"})
    /\ UNCHANGED <<screen, serverBits, page, glancedUpTo, glanceBits, posted, picked,
                   formOpen, editedChore, filledFor, wanted, rewritten, hopped, signals,
                   alarm, doubled>>

-----------------------------------------------------------------------------
\* The chores page: "+ Add Chore" opens and shuts the form, of a new chore.
\* Mutant: which chore was edited is not forgotten.
AddKeepsEditing ==
    /\ screen = "chores" /\ formOpen' = ~formOpen /\ wanted' = NoItem
    /\ IF formOpen THEN UNCHANGED <<filledFor, formBusy>>
                   ELSE filledFor' = editedChore /\ formBusy' = FALSE
    /\ UNCHANGED <<screen, serverBits, pageBits, glanceBits, posts, posted, picked,
                   editedChore, rewritten, hopped, signals, alarm, doubled>>

PressAdd ==
    /\ screen = "chores" /\ formOpen' = ~formOpen /\ editedChore' = NoItem /\ wanted' = NoItem
    /\ IF formOpen THEN UNCHANGED <<filledFor, formBusy>>
                   ELSE filledFor' = NoItem /\ formBusy' = FALSE
    /\ UNCHANGED <<screen, serverBits, pageBits, glanceBits, posts, posted, picked,
                   rewritten, hopped, signals, alarm, doubled>>

\* Edit: a form that is open already keeps what it was filled in with.
PressEdit(i) ==
    /\ screen = "chores" /\ page[i] # "none"
    /\ formOpen' = TRUE /\ editedChore' = i /\ wanted' = i
    /\ hopped' = (hopped \/ formOpen)
    /\ IF formOpen THEN UNCHANGED <<filledFor, formBusy>> ELSE filledFor' = i /\ formBusy' = FALSE
    /\ UNCHANGED <<screen, serverBits, pageBits, glanceBits, posts, posted, picked,
                   rewritten, signals, alarm, doubled>>

CancelForm ==
    /\ screen = "chores" /\ formOpen /\ formOpen' = FALSE /\ editedChore' = NoItem
    /\ UNCHANGED <<screen, serverBits, pageBits, glanceBits, posts, posted, picked,
                   formBusy, filledFor, wanted, rewritten, hopped, signals, alarm,
                   doubled>>

\* handleSubmit: an update, or a new chore if the one edited is not on the page.
SubmitChore ==
    /\ screen = "chores" /\ formOpen /\ ~formBusy /\ formBusy' = TRUE
    /\ IF editedChore # NoItem /\ page[editedChore] # "none"
       THEN Post("update", editedChore) ELSE Post("create", NoItem)
    /\ UNCHANGED <<screen, serverBits, pageBits, glanceBits, picked, formOpen,
                   editedChore, filledFor, wanted, rewritten, hopped, signals, alarm>>

\* onSave: the form that is open by now is shut.
ChoreSaved(p) ==
    /\ screen = "chores" /\ p \in posts /\ p.at = "made" /\ p.do \in {"create", "update"}
    /\ posts' = posts \ {p} /\ formOpen' = FALSE /\ editedChore' = NoItem /\ AskList(picked)
    /\ UNCHANGED <<screen, serverBits, page, glancedUpTo, posted, picked, formBusy,
                   filledFor, wanted, rewritten, hopped, signals, alarm, doubled>>

DeleteChore(i) ==
    /\ screen = "chores" /\ page[i] # "none" /\ Post("delete", i)
    /\ UNCHANGED <<screen, serverBits, pageBits, glanceBits, picked, formBits, signals,
                   alarm>>

-----------------------------------------------------------------------------
\* The page of tasks: its form keeps its state while it is shut.
ToggleTaskForm ==
    /\ screen = "tasks" /\ formOpen' = ~formOpen
    /\ UNCHANGED <<screen, serverBits, pageBits, glanceBits, posts, posted, picked,
                   formBusy, editedChore, filledFor, wanted, rewritten, hopped, signals,
                   alarm, doubled>>

SubmitTask ==
    /\ screen = "tasks" /\ formOpen /\ ~formBusy /\ picked # NoGrownup /\ formBusy' = TRUE
    /\ Post("create", NoItem)
    /\ UNCHANGED <<screen, serverBits, pageBits, glanceBits, picked, formOpen,
                   editedChore, filledFor, wanted, rewritten, hopped, signals, alarm>>

\* The task was made: the form is emptied and shut, and "saving" stays set.
TaskSaved(p) ==
    /\ screen = "tasks" /\ p \in posts /\ p.at = "made" /\ p.do = "create"
    /\ posts' = posts \ {p} /\ formOpen' = FALSE /\ AskList(picked)
    /\ UNCHANGED <<screen, serverBits, page, glancedUpTo, posted, picked, formBusy,
                   editedChore, filledFor, wanted, rewritten, hopped, signals, alarm,
                   doubled>>

-----------------------------------------------------------------------------
\* Batch processes: "Run Briefing Now".
TriggerBriefing ==
    /\ screen = "batch" /\ ~formBusy /\ formBusy' = TRUE /\ Post("trigger", NoItem)
    /\ \E i \in Item : items[i] = "none"
    /\ UNCHANGED <<screen, serverBits, pageBits, glanceBits, picked, formOpen,
                   editedChore, filledFor, wanted, rewritten, hopped, signals, alarm>>

BriefingStarted(p) ==
    /\ p \in posts /\ p.at = "made" /\ p.do = "trigger" /\ posts' = posts \ {p}
    /\ formBusy' = FALSE /\ alarm' = TRUE
    /\ UNCHANGED <<screen, serverBits, pageBits, glanceBits, posted, picked, formOpen,
                   editedChore, filledFor, wanted, rewritten, hopped, signals, doubled>>

AlarmRings ==
    /\ alarm /\ alarm' = FALSE /\ AskList(picked)
    /\ UNCHANGED <<screen, serverBits, page, glancedUpTo, posts, posted, picked, formBits,
                   signals, doubled>>

\* A run ends, well or not, and the server says so; the message may be lost.
RunEnds(i) ==
    /\ screen = "batch" /\ items[i] = "open" /\ items' = [items EXCEPT ![i] = "done"]
    /\ \/ signals' = signals + 1 /\ UNCHANGED missed
       \/ missed' = TRUE /\ UNCHANGED signals
    /\ UNCHANGED <<screen, counted, finished, page, glancedUpTo, glanceBits, posts,
                   posted, picked, formBits, alarm, doubled>>

RunHeard ==
    /\ signals > 0 /\ signals' = signals - 1 /\ AskList(picked)
    /\ UNCHANGED <<screen, serverBits, page, glancedUpTo, posts, posted, picked, formBits,
                   alarm, doubled>>

ChoreScreensNext ==
    \/ \E g \in glances : ListRead(g) \/ ListShown(g) \/ ListFails(g)
    \/ \E who \in Grownup : Pick(who)
    \/ \E i \in Item : TickItem(i) \/ PressEdit(i) \/ DeleteChore(i) \/ RunEnds(i)
    \/ \E p \in posts :
          \/ CheckDone(p) \/ CompleteAndCount(p) \/ Made(p) \/ Answer(p) \/ ChorePostFails(p)
          \/ ChoreSaved(p) \/ TaskSaved(p) \/ BriefingStarted(p)
    \/ PressAdd \/ CancelForm \/ SubmitChore \/ ToggleTaskForm \/ SubmitTask
    \/ TriggerBriefing \/ AlarmRings \/ RunHeard

ChoreScreensSpec == ChoreScreensInit /\ [][ChoreScreensNext]_choreScreenVars

-----------------------------------------------------------------------------
ChoreScreensTypeOK ==
    /\ screen \in {"chores", "widget", "tasks", "batch"}
    /\ items \in [Item -> {"none", "open", "done"}] /\ page \in [Item -> {"none", "open", "done"}]
    /\ picked \in Grownup \cup {NoGrownup} /\ editedChore \in Item \cup {NoItem}
    /\ formOpen \in BOOLEAN /\ formBusy \in BOOLEAN /\ signals \in Nat
    /\ \A p \in posts : p.at \in {"sent", "was open", "was done", "made"}

\* A screen with nothing under way shows the list as it is, and on the page of
\* tasks the list of the adult that is picked, unless something was lost or
\* overtaken; which on the page of tasks no list is.
ScreenIsCurrent ==
    glances = {} /\ posts = {} /\ signals = 0 /\ ~alarm => page = Visible(picked) \/ missed

\* Update writes a chore with what was filled in for it, and a new chore is
\* never written over an old one, unless Edit was pressed in an open form.
EditIsItsOwn == hopped \/ rewritten = {}

\* A completion is counted at most once, unless two requests for it crossed.
CountedOnce == \A i \in Item \ doubled : counted[i] <= finished[i]

\* A form that is not sending anything can be sent.  The form of the page of tasks
\* is exempt: after a task was added nothing gives its button back (Tasks.tsx, handleSubmit).
FormComesBack == formOpen /\ posts = {} /\ screen # "tasks" => ~formBusy
=============================================================================
