----------------------------- MODULE GridLayout -----------------------------
(***************************************************************************)
(* The geometry of the dashboard (web/src/lib/gridLayout.ts): rectangles   *)
(* on a grid of Cols columns, what a drag or a resize may do to them       *)
(* (web/src/components/dashboard/GridCard.tsx) and how a saved layout of   *)
(* any age is read back (layoutFromSettings in web/src/pages/Home.tsx).    *)
(***************************************************************************)
EXTENDS Integers, Sequences, FiniteSets

CONSTANTS
    CardId,         \* CARD_DEFS
    Granularity,    \* GRID_GRANULARITY: cells per column or row of version 1
    UnitCols,       \* columns of the version 1 grid
    UnitRows,       \* rows of the version 1 grid
    ScanRows,       \* the last row findEmptySlot tries
    DefaultCards,   \* DEFAULT_GRID_LAYOUT.cards
    DefaultOrder,   \* their order
    KioskCards      \* SIMPLE_KIOSK_LAYOUT.cards

Cols == UnitCols * Granularity
DefaultTotalRows == UnitRows * Granularity

GridCardConfig == [col : Int, row : Int, colSpan : Int, rowSpan : Int]
Mode == {"fill", "scroll"}

\* A layout has a cell range for each of its cards.
IsLayout(l) ==
    \E ids \in SUBSET CardId :
        l \in [cards : [ids -> GridCardConfig], mode : Mode, totalRows : Nat]

\* The check migrateLayout makes of a layout of the current version.
WellPlaced(c) ==
    /\ c.colSpan > 0 /\ c.rowSpan > 0 /\ c.col >= 1 /\ c.row >= 1
    /\ c.col + c.colSpan - 1 <= Cols

\* The columns of a card: what no edit may take outside the grid.
InColumns(c) ==
    /\ c.col >= 1 /\ c.row >= 1 /\ c.colSpan >= 1
    /\ c.col + c.colSpan - 1 <= Cols

ASSUME GridAssumption ==
    /\ IsFiniteSet(CardId)
    /\ Granularity \in Nat \ {0} /\ UnitCols \in Nat \ {0} /\ UnitRows \in Nat \ {0}
    /\ ScanRows \in Nat
    /\ DefaultCards \in [CardId -> GridCardConfig]
    /\ DefaultOrder \in Seq(CardId)
    /\ \A i \in CardId : WellPlaced(DefaultCards[i])
    /\ KioskCards \in [DOMAIN KioskCards -> GridCardConfig]
    /\ DOMAIN KioskCards \subseteq CardId
    /\ \A i \in DOMAIN KioskCards : WellPlaced(KioskCards[i])

-----------------------------------------------------------------------------
(***************************************************************************)
(* Rectangles.                                                             *)
(***************************************************************************)
\* Mutant: rectangles that only touch are told apart one cell too early.
RectsNearlyOverlap(a, b) ==
    ~ \/ a.col + a.colSpan <= b.col + 1
      \/ b.col + b.colSpan <= a.col + 1
      \/ a.row + a.rowSpan <= b.row
      \/ b.row + b.rowSpan <= a.row

RectsOverlap(a, b) ==
    ~ \/ a.col + a.colSpan <= b.col
      \/ b.col + b.colSpan <= a.col
      \/ a.row + a.rowSpan <= b.row
      \/ b.row + b.rowSpan <= a.row

Colliders(id, c, cards) == {o \in DOMAIN cards \ {id} : RectsOverlap(c, cards[o])}
HasCollision(id, c, cards) == Colliders(id, c, cards) # {}

\* `rows' is 0 where the code passes undefined: no last row.
IsInBounds(c, rows) ==
    /\ c.col >= 1 /\ c.row >= 1
    /\ c.col + c.colSpan - 1 <= Cols
    /\ rows # 0 => c.row + c.rowSpan - 1 <= rows

-----------------------------------------------------------------------------
(***************************************************************************)
(* The first slot a card of this size fits in, by row and then by column,  *)
(* or else the row after as many rows as there are cards.                  *)
(***************************************************************************)
FreeSlots(cards, colSpan, rowSpan) ==
    {s \in (1 .. ScanRows) \X (1 .. Cols - colSpan + 1) :
        \A o \in DOMAIN cards :
            ~RectsOverlap([col |-> s[2], row |-> s[1],
                           colSpan |-> colSpan, rowSpan |-> rowSpan], cards[o])}

FindEmptySlot(cards, colSpan, rowSpan) ==
    LET free == FreeSlots(cards, colSpan, rowSpan)
        slot == CHOOSE s \in free : \A t \in free :
                    s[1] < t[1] \/ (s[1] = t[1] /\ s[2] <= t[2]) IN
    IF free # {} THEN [col |-> slot[2], row |-> slot[1],
                       colSpan |-> colSpan, rowSpan |-> rowSpan]
    ELSE [col |-> 1, row |-> Cardinality(DOMAIN cards) + 1,
          colSpan |-> colSpan, rowSpan |-> rowSpan]

Place(cards, id, c) == [i \in DOMAIN cards \cup {id} |-> IF i = id THEN c ELSE cards[i]]

\* handleAdd, and the loop of layoutFromSettings over missing cards.
AddCard(cards, id) ==
    Place(cards, id, FindEmptySlot(cards, DefaultCards[id].colSpan, DefaultCards[id].rowSpan))

\* cards with the missing ones of the first n defaults.
AddMissing(cards) ==
    LET upTo[n \in 0 .. Len(DefaultOrder)] ==
            IF n = 0 THEN cards
            ELSE IF DefaultOrder[n] \in DOMAIN cards THEN upTo[n - 1]
            ELSE AddCard(upTo[n - 1], DefaultOrder[n])
    IN upTo[Len(DefaultOrder)]

-----------------------------------------------------------------------------
(***************************************************************************)
(* Reading a saved layout: an old list of widths, a layout of version 1 or *)
(* one of the current version.                                             *)
(***************************************************************************)
DefaultLayout == [cards |-> DefaultCards, mode |-> "fill", totalRows |-> DefaultTotalRows]
KioskLayout == [cards |-> KioskCards, mode |-> "fill", totalRows |-> DefaultTotalRows]

Lesser(a, b) == IF a < b THEN a ELSE b

\* migrateOldFormat: cards side by side, a new row when the next does not fit,
\* and a new row after a row that is full.  The code's DEFAULT_ROW_SPANS, which
\* is 8 or 1, is TallRows for the cards in Tall.
MigrateOldFormat(list, rowSpans) ==
    LET width(n) == Lesser(list[n].colSpan * Granularity, Cols)
        \* [row, col] of the cursor before card n, then where card n goes
        Wrap(c) == IF c.col > Cols THEN [row |-> c.row + 1, col |-> 1] ELSE c
        Fit(c, n) == IF c.col + width(n) - 1 > Cols THEN [row |-> c.row + 1, col |-> 1] ELSE c
        spot[n \in 1 .. Len(list)] ==
            IF n = 1 THEN Fit([row |-> 1, col |-> 1], 1)
            ELSE LET p == spot[n - 1] IN
                 Fit(Wrap([p EXCEPT !.col = @ + width(n - 1)]), n)
        index(i) == CHOOSE n \in 1 .. Len(list) : list[n].id = i
    IN [cards |-> [i \in {list[n].id : n \in 1 .. Len(list)} |->
                     [col |-> spot[index(i)].col, row |-> spot[index(i)].row,
                      colSpan |-> width(index(i)), rowSpan |-> rowSpans[i]]],
        mode |-> "scroll", totalRows |-> DefaultTotalRows]

ScaleLegacyLayout(layout) ==
    [layout EXCEPT
        !.cards = [i \in DOMAIN layout.cards |->
            LET c == layout.cards[i] IN
            [col |-> (c.col - 1) * Granularity + 1, row |-> (c.row - 1) * Granularity + 1,
             colSpan |-> c.colSpan * Granularity, rowSpan |-> c.rowSpan * Granularity]],
        !.totalRows = @ * Granularity]

\* home_layout as stored: [format, value]; the default when it cannot be used.
LayoutFromSettings(saved, rowSpans) ==
    LET migrated ==
            CASE saved.format = "list"    -> MigrateOldFormat(saved.value, rowSpans)
              [] saved.format = "legacy"  -> ScaleLegacyLayout(saved.value)
              [] saved.format = "current" -> saved.value
        usable == /\ saved.format # "none"
                  /\ DOMAIN migrated.cards # {}
                  /\ saved.format = "current" =>
                        \A i \in DOMAIN migrated.cards : WellPlaced(migrated.cards[i])
    IN IF usable THEN [migrated EXCEPT !.cards = AddMissing(@)] ELSE DefaultLayout

-----------------------------------------------------------------------------
(***************************************************************************)
(* What one pointer move does to the cards.                                *)
(***************************************************************************)
\* The last row a drag respects: none while the page scrolls.
LastRow(gridMode, totalRows) == IF gridMode = "fill" THEN totalRows ELSE 0

MoveTo(c, col, row) == [c EXCEPT !.col = col, !.row = row]

MayMove(cards, id, col, row, rows) ==
    LET c == MoveTo(cards[id], col, row) IN
    IsInBounds(c, rows) /\ ~HasCollision(id, c, cards)

MaySwap(cards, id, other, col, row, rows) ==
    LET c == MoveTo(cards[id], col, row)
        swapped == MoveTo(cards[other], cards[id].col, cards[id].row) IN
    /\ IsInBounds(c, rows) /\ Colliders(id, c, cards) = {other}
    /\ IsInBounds(swapped, rows)
    /\ Colliders(other, swapped, cards) \subseteq {id}

Resized(c, colSpan, rowSpan, rows) ==
    [c EXCEPT !.colSpan = Lesser(IF colSpan < 1 THEN 1 ELSE colSpan, Cols - c.col + 1),
              !.rowSpan = LET span == IF rowSpan < 1 THEN 1 ELSE rowSpan IN
                          IF rows = 0 THEN span ELSE Lesser(span, rows - c.row + 1)]

\* What it is for two cards not to lie on one another, cell by cell.
Cells(c) == (c.col .. c.col + c.colSpan - 1) \X (c.row .. c.row + c.rowSpan - 1)
Apart(cards) == \A i, j \in DOMAIN cards : i # j => Cells(cards[i]) \cap Cells(cards[j]) = {}
=============================================================================
