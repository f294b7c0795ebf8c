--------------------------- MODULE DashboardEditor ---------------------------
(***************************************************************************)
(* The home page and its layout editor (web/src/pages/Home.tsx with        *)
(* DashboardGrid.tsx and GridCard.tsx): cards are dragged, resized, added  *)
(* and removed on the screen, 400 ms after the last change the layout is   *)
(* written to the settings, and every answer of the dashboard query puts   *)
(* the stored layout back on the screen.                                   *)
(***************************************************************************)
EXTENDS GridLayout

CONSTANTS
    SavedLayouts,   \* values home_layout may have when the page opens
    RowSpans,       \* DEFAULT_ROW_SPANS, 1 for cards it does not name
    MaxRow,         \* bound: the last row a pointer reaches
    MaxEdits,       \* bound: edits, and resizes of the window
    MaxLoads,       \* bound: answers of the dashboard query
    NoLayout        \* null

\* No card of the layout reaches outside the columns.
LayoutInColumns(l) ==
    /\ DOMAIN l.cards \subseteq CardId
    /\ \A i \in DOMAIN l.cards : l.cards[i] \in GridCardConfig /\ InColumns(l.cards[i])

\* Written by a version of the client: version 1 kept the cards in its coarser
\* columns, the current one keeps them in today's.
WrittenLayout(s) ==
    \/ s.format = "none"
    \/ s.format = "list" /\ s.value \in Seq([id : CardId, colSpan : Nat \ {0}])
    \/ /\ s.format = "legacy" /\ IsLayout(s.value)
       /\ \A i \in DOMAIN s.value.cards :
              LET c == s.value.cards[i] IN
              /\ c.col >= 1 /\ c.row >= 1 /\ c.colSpan >= 1
              /\ c.col + c.colSpan - 1 <= UnitCols
    \/ s.format = "current" /\ IsLayout(s.value) /\ LayoutInColumns(s.value)

ASSUME EditorAssumption ==
    /\ RowSpans \in [CardId -> Nat \ {0}]
    /\ \A s \in SavedLayouts : WrittenLayout(s)
    /\ ~IsLayout(NoLayout) /\ Apart(KioskCards)
    /\ MaxRow \in Nat /\ MaxEdits \in Nat /\ MaxLoads \in Nat

VARIABLES
    stored,     \* the home_layout setting at the server
    layout,     \* on the screen
    tall,       \* the grid area is at least MIN_FILL_HEIGHT high
    wide,       \* the layout tier of the content area is wide
    editing,    \* ShellContext.editing
    snapshot,   \* layoutSnapshotRef
    timer,      \* persistTimer: the layout it will write
    puts,       \* PUT /api/settings on their way
    answer,     \* a dashboard answer on its way: the setting it read
    edits, loads,
    last,       \* history: the layout last given to persistLayout
    raced       \* history: two PUTs were in flight together, or one failed

editorVars == <<stored, layout, tall, wide, editing, snapshot, timer, puts, answer,
                edits, loads, last, raced>>
saving == <<timer, puts, last, raced>>

RenderMode == IF layout.mode = "fill" /\ tall THEN "fill" ELSE "scroll"
Rows == LastRow(RenderMode, layout.totalRows)
Shown == layout.cards

-----------------------------------------------------------------------------
(***************************************************************************)
(* Saving.                                                                 *)
(***************************************************************************)
\* persistLayout: a timer that is running is replaced.
PersistLayout(next) == timer' = next /\ last' = next

\* handleMove, handleSwap and handleResize are setLayout with a function that
\* calls persistLayout; saveLayout does both in a row.
\* Mutant: what is written is the layout before the change.
SaveBefore(next) ==
    /\ layout' = next /\ timer' = layout /\ last' = next
    /\ UNCHANGED <<puts, raced>>

Save(next) ==
    /\ layout' = next
    /\ PersistLayout(next)
    /\ UNCHANGED <<puts, raced>>

TimerFires ==
    /\ timer # NoLayout
    /\ timer' = NoLayout
    /\ puts' = puts \cup {timer}
    /\ raced' = (raced \/ puts # {})
    /\ UNCHANGED <<stored, layout, tall, wide, editing, snapshot, answer,
                   edits, loads, last>>

PutArrives(p) ==
    /\ p \in puts
    /\ puts' = puts \ {p}
    /\ stored' = [format |-> "current", value |-> p]
    /\ UNCHANGED <<layout, tall, wide, editing, snapshot, timer, answer,
                   edits, loads, last, raced>>

\* .catch(() => {}): a failed write is forgotten.
PutFails(p) ==
    /\ p \in puts
    /\ puts' = puts \ {p}
    /\ raced' = TRUE
    /\ UNCHANGED <<stored, layout, tall, wide, editing, snapshot, timer, answer,
                   edits, loads, last>>

-----------------------------------------------------------------------------
(***************************************************************************)
(* The dashboard query is answered, at first and after every refetch.      *)
(***************************************************************************)
ServerAnswers ==
    /\ answer = NoLayout /\ loads < MaxLoads
    /\ loads' = loads + 1
    /\ answer' = stored
    /\ UNCHANGED <<stored, layout, tall, wide, editing, snapshot, edits>>
    /\ UNCHANGED saving

DashboardLoaded ==
    /\ answer # NoLayout
    /\ answer' = NoLayout
    /\ layout' = LayoutFromSettings(answer, RowSpans)
    /\ UNCHANGED <<stored, tall, wide, editing, snapshot, edits, loads>>
    /\ UNCHANGED saving

-----------------------------------------------------------------------------
(***************************************************************************)
(* Entering and leaving the editor.  The snapshot is taken by an effect of *)
(* the render that shows the editor.                                       *)
(***************************************************************************)
StartEditing ==
    /\ wide /\ ~editing
    /\ editing' = TRUE /\ snapshot' = layout
    /\ UNCHANGED <<stored, layout, tall, wide, answer, edits, loads>>
    /\ UNCHANGED saving

Done ==
    /\ editing
    /\ editing' = FALSE /\ snapshot' = NoLayout
    /\ UNCHANGED <<stored, layout, tall, wide, answer, edits, loads>>
    /\ UNCHANGED saving

CancelEditing ==
    /\ editing
    /\ editing' = FALSE /\ snapshot' = NoLayout
    /\ Save(snapshot)
    /\ UNCHANGED <<stored, tall, wide, answer, edits, loads>>

\* Mutant: the editor stays open on a narrow screen.
ResizeKeepsEditing(w, t) ==
    /\ <<w, t>> # <<wide, tall>> /\ edits < MaxEdits
    /\ edits' = edits + 1
    /\ wide' = w /\ tall' = t
    /\ UNCHANGED <<editing, snapshot, stored, layout, answer, loads>>
    /\ UNCHANGED saving

\* The window is resized; leaving the wide tier drops the editor.
ResizeWindow(w, t) ==
    /\ <<w, t>> # <<wide, tall>> /\ edits < MaxEdits
    /\ edits' = edits + 1
    /\ wide' = w /\ tall' = t
    /\ editing' = (editing /\ w)
    /\ snapshot' = IF w THEN snapshot ELSE NoLayout
    /\ UNCHANGED <<stored, layout, answer, loads>>
    /\ UNCHANGED saving

-----------------------------------------------------------------------------
(***************************************************************************)
(* Editing: one action for each callback of the cards and of the tool bar. *)
(***************************************************************************)
Edit(next) ==
    /\ editing /\ edits < MaxEdits
    /\ edits' = edits + 1
    /\ Save(next)
    /\ UNCHANGED <<stored, tall, wide, editing, snapshot, answer, loads>>

WithCards(cards) == [layout EXCEPT !.cards = cards]

Move(id, col, row) ==
    /\ id \in DOMAIN Shown /\ <<col, row>> # <<Shown[id].col, Shown[id].row>>
    /\ MayMove(Shown, id, col, row, Rows)
    /\ Edit(WithCards([Shown EXCEPT ![id] = MoveTo(@, col, row)]))

Swap(id, other, col, row) ==
    /\ {id, other} \subseteq DOMAIN Shown
    /\ MaySwap(Shown, id, other, col, row, Rows)
    /\ Edit(WithCards([Shown EXCEPT ![id] = MoveTo(@, col, row),
                                    ![other] = MoveTo(@, Shown[id].col, Shown[id].row)]))

Resize(id, colSpan, rowSpan) ==
    /\ id \in DOMAIN Shown
    /\ LET c == Resized(Shown[id], colSpan, rowSpan, Rows) IN
       /\ ~HasCollision(id, c, Shown)
       /\ Edit(WithCards([Shown EXCEPT ![id] = c]))

RemoveCard(id) ==
    /\ id \in DOMAIN Shown
    /\ Edit(WithCards([i \in DOMAIN Shown \ {id} |-> Shown[i]]))

Add(id) ==
    /\ id \in CardId \ DOMAIN Shown
    /\ Edit(WithCards(AddCard(Shown, id)))

ToggleMode == Edit([layout EXCEPT !.mode = IF @ = "fill" THEN "scroll" ELSE "fill"])

ApplySimpleKiosk == Edit(KioskLayout)

-----------------------------------------------------------------------------
EditorInit ==
    /\ stored \in SavedLayouts
    /\ layout = DefaultLayout
    /\ tall \in BOOLEAN /\ wide = TRUE
    /\ editing = FALSE /\ snapshot = NoLayout
    /\ timer = NoLayout /\ puts = {} /\ answer = NoLayout
    /\ edits = 0 /\ loads = 0
    /\ last = NoLayout /\ raced = FALSE

Drag ==
    \E id \in CardId :
        \/ \E col \in 1 .. Cols, row \in 1 .. MaxRow :
            \/ Move(id, col, row)
            \/ \E other \in CardId : Swap(id, other, col, row)
        \/ \E colSpan \in 0 .. Cols + 1, rowSpan \in 0 .. MaxRow : Resize(id, colSpan, rowSpan)

EditorNext ==
    \/ Drag
    \/ \E id \in CardId : RemoveCard(id) \/ Add(id)
    \/ ToggleMode \/ ApplySimpleKiosk
    \/ StartEditing \/ Done \/ CancelEditing
    \/ \E w, t \in BOOLEAN : ResizeWindow(w, t)
    \/ TimerFires \/ \E p \in puts : PutArrives(p) \/ PutFails(p)
    \/ ServerAnswers \/ DashboardLoaded

EditorSpec == EditorInit /\ [][EditorNext]_editorVars
-----------------------------------------------------------------------------
EditorTypeOK ==
    /\ stored.format \in {"none", "list", "legacy", "current"}
    /\ layout.mode \in Mode /\ layout.totalRows \in Nat
    /\ wide \in BOOLEAN /\ tall \in BOOLEAN /\ editing \in BOOLEAN
    /\ (editing <=> snapshot # NoLayout) /\ (editing => wide)
    /\ raced \in BOOLEAN

\* Whatever is on the screen, remembered, about to be written, on its way or
\* stored, every card starts in the grid and ends at its right edge at the
\* latest: dragging, resizing, swapping, scaling and slot finding never lose a
\* card on the side.
ColumnsKept ==
    /\ LayoutInColumns(layout)
    /\ \A l \in {snapshot, timer} \cup puts : l # NoLayout => LayoutInColumns(l)
    /\ \A s \in {stored, answer} :
        s # NoLayout /\ s.format = "current" => LayoutInColumns(s.value)

\* Moving or resizing a card of a tidy layout never puts it over another one.  Exempt
\* is a swap that moves both cards: each is tried against the others but not against
\* the new place of the other, so that two cards of different sizes may come to overlap.
DragKeepsApart ==
    [][layout' # layout /\ edits' = edits + 1 /\ Apart(Shown) /\ DOMAIN Shown' = DOMAIN Shown
       /\ Cardinality({i \in DOMAIN Shown : Shown'[i] # Shown[i]}) = 1
       => Apart(Shown')]_editorVars

\* Nothing being on its way, the settings hold the last layout the editor was
\* left with, provided no write failed and no two of them overtook each other.
LastEditIsStored ==
    ~raced /\ timer = NoLayout /\ puts = {} /\ last # NoLayout =>
        stored = [format |-> "current", value |-> last]
=============================================================================
