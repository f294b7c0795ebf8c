----------------------------- MODULE SettingsForm -----------------------------
(***************************************************************************)
(* The form of the settings (web/src/components/settings/                  *)
(* IntegrationsTab.tsx).  The page reads every setting once, the family    *)
(* types over them, and each button writes the settings of its section, or *)
(* of all the sections behind "Save Settings", from what the form holds    *)
(* when it is pressed.  Values are tokens: 0 is the default of the form, 1 *)
(* is what was set up before, and whatever is typed later is new.          *)
(***************************************************************************)
EXTENDS Naturals, FiniteSets

CONSTANTS
    MaxTyped,       \* bound: values typed, here or by another adult
    MaxSaves        \* bound: presses of the buttons

ASSUME SettingsFormAssumption == MaxTyped \in Nat \ {0} /\ MaxSaves \in Nat

VARIABLES
    settings,   \* the settings at the server
    fields,     \* the settings on the form
    settingsRead,   \* the request of the effect: "asked", "read" or "failed"
    saves,      \* saves on their way: their number, button and what they write
    busy,       \* buttons that read "Saving..."
    pressed,
    lastTyped,  \* the newest value
    testing,    \* Test Connection: "no", "save", "status"
    testedFor,  \* the value of frigate the form held when it was pressed
    verdict,    \* what the test says: "none", "connected" or "failed"
    connectedTo,    \* history: the value of frigate Frigate answered under
    disturbed,  \* history: something else wrote frigate during the test
    newest,     \* history: the newest save that was written
    mine,       \* history: settings typed on this form
    theirs,     \* history: settings another adult has changed since the form was read
    blank,      \* history: a button was pressed before the settings were read
    late,       \* history: a save was written after one that was pressed later
    wiped       \* history: settings this form changed without their being typed on it

testHistory == <<connectedTo, disturbed>>
formStateVars == <<settings, fields, settingsRead, saves, busy, pressed, lastTyped, testing,
                   testedFor, verdict, testHistory, mine, theirs, blank, newest, late, wiped>>
Setting == {"family", "presets", "frigate", "mqtt", "timeout"}
Button == {"all", "family", "presets", "mqtt", "timeout"}
Value == 0 .. MaxTyped + 1

\* The settings a button writes: saveAll writes those of mqtt and the timeout too.
Writes(b) ==
    CASE b = "all" -> {"frigate", "mqtt", "timeout"}
      [] OTHER -> {b}

SettingsInit ==
    /\ settings = [s \in Setting |-> 1] /\ fields = [s \in Setting |-> 0]
    /\ settingsRead = "asked" /\ saves = {} /\ busy = {} /\ pressed = 0 /\ lastTyped = 1
    /\ testing = "no" /\ testedFor = 0 /\ verdict = "none"
    /\ mine = {} /\ theirs = {} /\ blank = FALSE /\ newest = 0 /\ late = FALSE
    /\ connectedTo = 0 /\ disturbed = FALSE /\ wiped = {}

-----------------------------------------------------------------------------
\* The settings arrive and replace what the form held, typed or not.
SettingsArrive ==
    /\ settingsRead = "asked" /\ settingsRead' = "read"
    /\ fields' = settings /\ mine' = {} /\ theirs' = {}
    /\ UNCHANGED <<settings, saves, busy, pressed, lastTyped, testing, testedFor, verdict,
                   blank, testHistory, newest, late, wiped>>

\* .catch(() => {}): the form keeps its defaults and does not say so.
SettingsLost ==
    /\ settingsRead = "asked" /\ settingsRead' = "failed"
    /\ UNCHANGED <<settings, fields, saves, busy, pressed, lastTyped, testing, testedFor,
                   verdict, mine, theirs, blank, testHistory, newest, late, wiped>>

Type(s) ==
    /\ lastTyped <= MaxTyped /\ lastTyped' = lastTyped + 1
    /\ fields' = [fields EXCEPT ![s] = lastTyped'] /\ mine' = mine \cup {s}
    /\ UNCHANGED <<settings, settingsRead, saves, busy, pressed, testing, testedFor, verdict,
                   theirs, blank, testHistory, newest, late, wiped>>

AnotherAdult(s) ==
    /\ lastTyped <= MaxTyped /\ lastTyped' = lastTyped + 1
    /\ settings' = [settings EXCEPT ![s] = lastTyped'] /\ theirs' = theirs \cup {s}
    /\ disturbed' = (disturbed \/ (s = "frigate" /\ testing # "no"))
    /\ UNCHANGED <<fields, settingsRead, saves, busy, pressed, testing, testedFor, verdict,
                   connectedTo, mine, blank, newest, late, wiped>>

-----------------------------------------------------------------------------
\* Every save but that of a test leaves the verdict alone.
Send(b) ==
    /\ pressed < MaxSaves /\ pressed' = pressed + 1
    /\ saves' = saves \cup {[no |-> pressed', button |-> b, values |-> fields, own |-> mine,
                             test |-> testing' = "save" /\ testing = "no"]}
    /\ busy' = busy \cup {b}
    /\ blank' = (blank \/ settingsRead # "read")

PressSave(b) ==
    /\ b \notin busy /\ UNCHANGED testing /\ Send(b)
    /\ UNCHANGED <<settings, fields, settingsRead, lastTyped, testedFor, verdict, testHistory,
                   mine, theirs, newest, late, wiped>>

\* testFrigate: saves everything, busy or not, and then asks whether Frigate answers.
PressTest ==
    /\ testing = "no" /\ fields["frigate"] # 0
    /\ testing' = "save" /\ testedFor' = fields["frigate"] /\ verdict' = "none"
    /\ Send("all") /\ disturbed' = FALSE
    /\ UNCHANGED <<settings, fields, settingsRead, lastTyped, connectedTo, mine, theirs, newest,
                   late, wiped>>

\* The server writes the settings of a save.
Written(w) ==
    /\ settings' = [s \in Setting |-> IF s \in Writes(w.button) THEN w.values[s] ELSE settings[s]]
    /\ wiped' = wiped \cup {s \in Writes(w.button) \ w.own : w.values[s] # settings[s]}
    /\ newest' = IF w.no > newest THEN w.no ELSE newest
    /\ late' = (late \/ w.no < newest)
    /\ disturbed' = (disturbed \/ ("frigate" \in Writes(w.button) /\ testing # "no" /\ ~w.test))

\* finally: the button is given back.
SaveAnswered(w) ==
    /\ w \in saves /\ saves' = saves \ {w} /\ busy' = busy \ {w.button}
    /\ Written(w)
    /\ testing' = IF w.test THEN "status" ELSE testing
    /\ UNCHANGED <<fields, settingsRead, pressed, lastTyped, testedFor, verdict, connectedTo,
                   mine, theirs, blank>>

\* The save fails, before or after the server has written it.
SaveFails(w) ==
    /\ w \in saves /\ saves' = saves \ {w} /\ busy' = busy \ {w.button}
    /\ UNCHANGED <<settings, wiped, newest, late, disturbed>> \/ Written(w)
    /\ IF w.test THEN testing' = "no" /\ verdict' = "failed" ELSE UNCHANGED <<testing, verdict>>
    /\ UNCHANGED <<fields, settingsRead, pressed, lastTyped, testedFor, connectedTo, mine,
                   theirs, blank>>

\* /api/cameras/status: Frigate answers under the settings stored, or it does not.
StatusAnswered ==
    /\ testing = "status" /\ testing' = "no"
    /\ connectedTo' = settings["frigate"]
    /\ \/ settings["frigate"] # 0 /\ verdict' = "connected"
       \/ verdict' = "failed"
    /\ UNCHANGED <<settings, fields, settingsRead, saves, busy, pressed, lastTyped, testedFor,
                   disturbed, mine, theirs, blank, newest, late, wiped>>

SettingsNext ==
    \/ SettingsArrive \/ SettingsLost
    \/ \E s \in Setting : Type(s) \/ AnotherAdult(s)
    \/ \E b \in Button : PressSave(b)
    \/ PressTest \/ StatusAnswered
    \/ \E w \in saves : SaveAnswered(w) \/ SaveFails(w)

SettingsSpec == SettingsInit /\ [][SettingsNext]_formStateVars

-----------------------------------------------------------------------------
SettingsTypeOK ==
    /\ settings \in [Setting -> Value] /\ fields \in [Setting -> Value]
    /\ settingsRead \in {"asked", "read", "failed"} /\ testing \in {"no", "save", "status"}
    /\ verdict \in {"none", "connected", "failed"} /\ busy \subseteq Button
    /\ \A w \in saves : w.no \in 1 .. MaxSaves /\ w.button \in Button

\* A save of the form changes no setting that nobody typed on it: not the ones
\* of the other sections, nor those of its own.  Exempt are a button pressed
\* before the settings were read, a setting another adult changed meanwhile, and
\* saves that overtook one another.
UntouchedIsKept == blank \/ late \/ wiped \subseteq theirs

\* "Connected to Frigate" is said of the settings the form held when the test
\* was started, unless something else wrote them during the test.
TestIsOfTheForm == verdict = "connected" => connectedTo = testedFor \/ disturbed
=============================================================================
