---------------------------- MODULE WebPagesProofs ----------------------------
(***************************************************************************)
(* Theorems about the dashboard and its editor, the views of the calendar, *)
(* the cameras and the screensaver, and about all the pages of the client  *)
(* together (MCWebPages), for grids, events, cameras, chunks and photos of *)
(* any number.                                                             *)
(* That no card leaves the columns rests on what the functions of          *)
(* GridLayout return for every layout they are given, recursive ones       *)
(* included.  The pages share no state, so what each promises by itself it *)
(* promises in composition (PagesApart).                                   *)
(***************************************************************************)
EXTENDS MCWebPages, ListPagesProofs, FiniteSetTheorems, SequenceTheorems,
        WellFoundedInduction

-----------------------------------------------------------------------------
(***************************************************************************)
(* The geometry of the dashboard.  The library's induction theorems take a *)
(* predicate, which the provers cannot instantiate; its theorem that the   *)
(* naturals are well founded gives induction over sets of them.            *)
(***************************************************************************)
LEMMA LeastNat ==
  ASSUME NEW T \in SUBSET Nat, T # {}
  PROVE  \E n \in T : \A m \in T : n <= m
<1>1. IsWellFoundedOn(OpToRel(<, Nat), Nat)
  BY NatLessThanWellFounded
<1>2. PICK n \in T : \A m \in T : ~(<<m, n>> \in OpToRel(<, Nat))
  BY <1>1, WFMin
<1>3. \A m \in T : ~(m < n)
  BY <1>2 DEF OpToRel
<1> QED
  BY <1>3

\* Induction up to a bound: a set that has 0 and the successor of each of its members.
LEMMA UpTo ==
  ASSUME NEW top \in Nat, NEW T, 0 \in T, \A n \in T : n \in Nat /\ n < top => n + 1 \in T
  PROVE  0 .. top \subseteq T
<1> SUFFICES ASSUME (0 .. top) \ T # {} PROVE FALSE
  OBVIOUS
<1> DEFINE D == (0 .. top) \ T
<1>0. D \in SUBSET Nat /\ D # {}
  OBVIOUS
<1> HIDE DEF D
<1>1. PICK n \in D : \A m \in D : n <= m
  BY <1>0, LeastNat
<1> USE DEF D
<1>2. n # 0 /\ n - 1 \in 0 .. top /\ ~(n <= n - 1)
  BY <1>1
<1>3. n - 1 \in T /\ n - 1 \in Nat /\ n - 1 < top /\ (n - 1) + 1 = n
  BY <1>1, <1>2
<1> QED
  BY <1>1, <1>3

\* Cards of a layout, each in the columns of the grid.
CardsInColumns(cards) ==
    /\ cards = [i \in DOMAIN cards |-> cards[i]] /\ DOMAIN cards \subseteq CardId
    /\ \A i \in DOMAIN cards : cards[i] \in GridCardConfig /\ InColumns(cards[i])

\* There is a column and a row.
LEMMA ColsIs == Cols \in Nat \ {0} /\ DefaultTotalRows \in Nat \ {0}
<1>1. \A a, b \in Nat \ {0} : a * b \in Nat \ {0}
  OBVIOUS
<1> QED
  BY <1>1, GridAssumption DEF Cols, DefaultTotalRows

\* The lesser of two integers.
LEMMA LesserIs ==
  \A a, b \in Int : Lesser(a, b) \in {a, b} /\ Lesser(a, b) <= a /\ Lesser(a, b) <= b
  BY DEF Lesser

\* A card put among others.
LEMMA PlaceKeeps ==
  ASSUME NEW cards, CardsInColumns(cards), NEW id \in CardId,
         NEW c \in GridCardConfig, InColumns(c)
  PROVE  CardsInColumns(Place(cards, id, c))
<1> DEFINE p == [i \in DOMAIN cards \cup {id} |-> IF i = id THEN c ELSE cards[i]]
<1>1. DOMAIN p = DOMAIN cards \cup {id} /\ p = [i \in DOMAIN p |-> p[i]]
  OBVIOUS
<1>2. \A i \in DOMAIN p : p[i] \in GridCardConfig /\ InColumns(p[i])
  BY DEF CardsInColumns
<1> QED
  BY <1>1, <1>2 DEF CardsInColumns, Place

\* The slot that is found is in the columns: the first free one, or below all cards.
LEMMA SlotIsInColumns ==
  ASSUME NEW cards, CardsInColumns(cards), NEW w \in 1 .. Cols, NEW h \in Int
  PROVE  /\ FindEmptySlot(cards, w, h) \in GridCardConfig
         /\ InColumns(FindEmptySlot(cards, w, h))
<1> DEFINE free == FreeSlots(cards, w, h)
           slot == CHOOSE s \in free : \A t \in free :
                       s[1] < t[1] \/ (s[1] = t[1] /\ s[2] <= t[2])
<1>1. Cols \in Nat /\ ScanRows \in Nat
  BY ColsIs, GridAssumption
<1>2. free \subseteq (1 .. ScanRows) \X (1 .. Cols - w + 1)
  BY DEF FreeSlots
<1>3. CASE free # {}
  <2> DEFINE rows == {s[1] : s \in free}
  <2>1. rows \in SUBSET Nat /\ rows # {}
    BY <1>1, <1>2, <1>3
  <2>2. PICK r \in rows : \A q \in rows : r <= q
    BY <2>1, LeastNat
  <2> DEFINE columns == {s[2] : s \in {t \in free : t[1] = r}}
  <2>3. columns \in SUBSET Nat /\ columns # {}
    BY <1>1, <1>2, <2>2
  <2> HIDE DEF columns
  <2>4. PICK c \in columns : \A d \in columns : c <= d
    BY <2>3, LeastNat
  <2>5. PICK s \in free : s[1] = r /\ s[2] = c
    BY <2>4 DEF columns
  <2>6. \A t \in free : s[1] < t[1] \/ (s[1] = t[1] /\ s[2] <= t[2])
    <3> TAKE t \in free
    <3>1. t[1] \in Nat /\ r \in Nat /\ r <= t[1]
      BY <1>1, <1>2, <2>1, <2>2
    <3>2. t[1] = r => c <= t[2]
      BY <2>4 DEF columns
    <3> QED
      BY <2>5, <3>1, <3>2
  <2>7. slot \in free
    BY <2>6
  <2>8. slot[1] \in 1 .. ScanRows /\ slot[2] \in 1 .. Cols - w + 1
    BY <1>2, <2>7
  <2>9. FindEmptySlot(cards, w, h) = [col |-> slot[2], row |-> slot[1], colSpan |-> w, rowSpan |-> h]
    BY <1>3 DEF FindEmptySlot
  <2> HIDE DEF slot
  <2> QED
    BY <1>1, <2>8, <2>9 DEF GridCardConfig, InColumns
<1>4. CASE free = {}
  <2>1. FindEmptySlot(cards, w, h) = [col |-> 1, row |-> Cardinality(DOMAIN cards) + 1,
                                      colSpan |-> w, rowSpan |-> h]
    BY <1>4 DEF FindEmptySlot
  <2>2. Cardinality(DOMAIN cards) \in Nat
    BY GridAssumption, FS_Subset, FS_CardinalityType DEF CardsInColumns
  <2> QED
    BY <1>1, <2>1, <2>2 DEF GridCardConfig, InColumns
<1> QED
  BY <1>3, <1>4

\* A card added at the first slot that is free lies in the columns.
LEMMA AddCardKeeps ==
  ASSUME NEW cards, CardsInColumns(cards), NEW id \in CardId
  PROVE  CardsInColumns(AddCard(cards, id))
<1>1. DefaultCards[id] \in GridCardConfig /\ WellPlaced(DefaultCards[id])
  BY GridAssumption
<1>2. DefaultCards[id].colSpan \in 1 .. Cols /\ DefaultCards[id].rowSpan \in Int
  BY <1>1, ColsIs DEF GridCardConfig, WellPlaced
<1> QED
  BY <1>2, SlotIsInColumns, PlaceKeeps DEF AddCard

\* Adding the missing cards keeps the cards in the columns, whatever there is room for.
LEMMA AddMissingKeeps ==
  ASSUME NEW cards, CardsInColumns(cards)
  PROVE  CardsInColumns(AddMissing(cards))
<1> DEFINE top == Len(DefaultOrder)
           Step(g, n) == IF n = 0 THEN cards
                         ELSE IF DefaultOrder[n] \in DOMAIN cards THEN g[n - 1]
                         ELSE AddCard(g[n - 1], DefaultOrder[n])
           Runs(g, k) == g = [n \in 0 .. k |-> Step(g, n)]
           upTo == CHOOSE g : Runs(g, top)
<1>1. top \in Nat /\ \A n \in 1 .. top : DefaultOrder[n] \in CardId
  BY GridAssumption
<1>2. AddMissing(cards) = upTo[top]
  BY DEF AddMissing
<1>3. \E g : Runs(g, top)
  <2> DEFINE T == {k \in 0 .. top : \E g : Runs(g, k)}
  <2>1. 0 \in T
    <3> DEFINE g == [n \in 0 .. 0 |-> cards]
    <3>1. g = [n \in 0 .. 0 |-> Step(g, n)]
      OBVIOUS
    <3>2. \E f : Runs(f, 0)
      BY <3>1
    <3> QED
      BY <1>1, <3>2
  <2>2. ASSUME NEW k \in T, k \in Nat, k < top PROVE k + 1 \in T
    <3>1. PICK g : Runs(g, k)
      OBVIOUS
    <3> DEFINE h == [n \in 0 .. k + 1 |-> IF n = k + 1 THEN Step(g, k + 1) ELSE g[n]]
    <3>2. \A n \in 0 .. k : h[n] = g[n] /\ g[n] = Step(g, n)
      BY <2>2, <3>1
    <3>3. ASSUME NEW n \in 0 .. k + 1 PROVE h[n] = Step(h, n)
      <4>1. n # 0 => n - 1 \in 0 .. k
        BY <2>2
      <4>2. n # 0 => h[n - 1] = g[n - 1]
        BY <3>2, <4>1
      <4>3. Step(h, n) = Step(g, n)
        BY <4>2
      <4>4. h[n] = IF n = k + 1 THEN Step(g, k + 1) ELSE g[n]
        OBVIOUS
      <4>5. n # k + 1 => n \in 0 .. k
        BY <2>2
      <4> HIDE DEF Step
      <4> QED
        BY <3>2, <4>3, <4>4, <4>5
    <3>4. h = [n \in 0 .. k + 1 |-> Step(h, n)]
      <4>1. h = [n \in 0 .. k + 1 |-> h[n]]
        OBVIOUS
      <4> HIDE DEF h, Step
      <4> QED
        BY <3>3, <4>1
    <3> HIDE DEF h
    <3> QED
      BY <1>1, <2>2, <3>4
  <2> HIDE DEF T
  <2>3. 0 .. top \subseteq T
    BY <1>1, <2>1, <2>2, UpTo
  <2> QED
    BY <1>1, <2>3 DEF T
<1>4. Runs(upTo, top)
  BY <1>3
<1>5. \A n \in 0 .. top : upTo[n] = Step(upTo, n)
  BY <1>4
<1> HIDE DEF upTo
<1> DEFINE T == {k \in 0 .. top : CardsInColumns(upTo[k])}
<1>6. 0 \in T
  BY <1>1, <1>5
<1>7. ASSUME NEW k \in T, k \in Nat, k < top PROVE k + 1 \in T
  <2>1. k + 1 \in 0 .. top /\ k + 1 # 0 /\ (k + 1) - 1 = k /\ DefaultOrder[k + 1] \in CardId
    BY <1>1, <1>7
  <2>2. upTo[k + 1] = IF DefaultOrder[k + 1] \in DOMAIN cards THEN upTo[k]
                      ELSE AddCard(upTo[k], DefaultOrder[k + 1])
    BY <1>5, <2>1
  <2>3. CardsInColumns(upTo[k])
    OBVIOUS
  <2> QED
    BY <2>1, <2>2, <2>3, AddCardKeeps
<1> HIDE DEF T
<1>8. 0 .. top \subseteq T
  BY <1>1, <1>6, <1>7, UpTo
<1> QED
  BY <1>1, <1>2, <1>8 DEF T

\* A layout whose cards are in the columns.
Fits(l) ==
    /\ IsLayout(l)
    /\ \A i \in DOMAIN l.cards : InColumns(l.cards[i])

\* A layout is made of cards in the columns.
LEMMA FitsIs ==
  ASSUME NEW cards, CardsInColumns(cards), NEW mode \in Mode, NEW rows \in Nat
  PROVE  Fits([cards |-> cards, mode |-> mode, totalRows |-> rows])
<1> DEFINE l == [cards |-> cards, mode |-> mode, totalRows |-> rows]
<1>1. cards \in [DOMAIN cards -> GridCardConfig]
  BY DEF CardsInColumns
<1>2. l \in [cards : [DOMAIN cards -> GridCardConfig], mode : Mode, totalRows : Nat]
  BY <1>1
<1>3. \A i \in DOMAIN cards : InColumns(cards[i])
  BY DEF CardsInColumns
<1> QED
  BY <1>2, <1>3 DEF Fits, IsLayout, CardsInColumns

\* The cards of a layout that fits.
LEMMA FitsCards ==
  ASSUME NEW l, Fits(l)
  PROVE  /\ CardsInColumns(l.cards) /\ l.mode \in Mode /\ l.totalRows \in Nat
         /\ l = [cards |-> l.cards, mode |-> l.mode, totalRows |-> l.totalRows]
<1>1. PICK s \in SUBSET CardId : l \in [cards : [s -> GridCardConfig], mode : Mode, totalRows : Nat]
  BY DEF Fits, IsLayout
<1>2. l.cards \in [s -> GridCardConfig]
  BY <1>1
<1> QED
  BY <1>1, <1>2 DEF Fits, CardsInColumns

\* A layout with other cards.
LEMMA FitsWithCards ==
  ASSUME NEW l, Fits(l), NEW cards, CardsInColumns(cards)
  PROVE  Fits([l EXCEPT !.cards = cards])
<1>1. [l EXCEPT !.cards = cards] = [cards |-> cards, mode |-> l.mode, totalRows |-> l.totalRows]
  BY FitsCards
<1> QED
  BY <1>1, FitsCards, FitsIs

\* The entries of a list.
LEMMA EntryOfList ==
  ASSUME NEW S, NEW old \in Seq(S)
  PROVE  \A n \in 1 .. Len(old) : old[n] \in S
OBVIOUS

\* The list of the first version is laid out in the columns.
LEMMA MigrateKeeps ==
  ASSUME NEW old \in Seq([id : CardId, colSpan : Nat \ {0}]),
         NEW rowSpans \in [CardId -> Nat \ {0}]
  PROVE  Fits(MigrateOldFormat(old, rowSpans))
<1> DEFINE top == Len(old)
           width(n) == Lesser(old[n].colSpan * Granularity, Cols)
           Wrap(c) == IF c.col > Cols THEN [row |-> c.row + 1, col |-> 1] ELSE c
           Fit(c, n) == IF c.col + width(n) - 1 > Cols THEN [row |-> c.row + 1, col |-> 1] ELSE c
           Step(s, n) == IF n = 1 THEN Fit([row |-> 1, col |-> 1], 1)
                         ELSE Fit(Wrap([s[n - 1] EXCEPT !.col = @ + width(n - 1)]), n)
           Runs(s, k) == s = [n \in 1 .. k |-> Step(s, n)]
           spot == CHOOSE s : Runs(s, top)
           index(i) == CHOOSE n \in 1 .. top : old[n].id = i
           cards == [i \in {old[n].id : n \in 1 .. top} |->
                       [col |-> spot[index(i)].col, row |-> spot[index(i)].row,
                        colSpan |-> width(index(i)), rowSpan |-> rowSpans[i]]]
<1>1. top \in Nat /\ Cols \in Nat \ {0} /\ Granularity \in Nat \ {0}
  BY ColsIs, GridAssumption
<1>2. \A n \in 1 .. top : old[n].id \in CardId /\ old[n].colSpan \in Nat \ {0}
  <2>1. \A n \in 1 .. top : old[n] \in [id : CardId, colSpan : Nat \ {0}]
    BY EntryOfList
  <2> QED
    BY <2>1
<1>3. \A n \in 1 .. top : width(n) \in 1 .. Cols
  <2>1. \A a, b \in Nat \ {0} : a * b \in Nat \ {0}
    OBVIOUS
  <2>2. \A a, b \in Nat \ {0} : Lesser(a, b) \in 1 .. b
    BY DEF Lesser
  <2> QED
    BY <1>1, <1>2, <2>1, <2>2
<1>4. MigrateOldFormat(old, rowSpans) = [cards |-> cards, mode |-> "scroll", totalRows |-> DefaultTotalRows]
  BY DEF MigrateOldFormat
<1>5. \E s : Runs(s, top)
  <2> DEFINE T == {k \in 0 .. top : \E s : Runs(s, k)}
  <2>1. 0 \in T
    <3> DEFINE g == [n \in 1 .. 0 |-> 0]
    <3>1. g = [n \in 1 .. 0 |-> Step(g, n)]
      OBVIOUS
    <3>2. \E f : Runs(f, 0)
      BY <3>1
    <3> HIDE DEF Runs
    <3> QED
      BY <1>1, <3>2
  <2>2. ASSUME NEW k \in T, k \in Nat, k < top PROVE k + 1 \in T
    <3>1. PICK g : Runs(g, k)
      OBVIOUS
    <3> DEFINE h == [n \in 1 .. k + 1 |-> IF n = k + 1 THEN Step(g, k + 1) ELSE g[n]]
    <3>2. \A n \in 1 .. k : h[n] = g[n] /\ g[n] = Step(g, n)
      <4> HIDE DEF Step
      <4>1. \A n \in 1 .. k : g[n] = Step(g, n)
        <5> HIDE DEF h
        <5> QED
          BY <3>1
      <4>2. \A n \in 1 .. k : n \in 1 .. k + 1 /\ n # k + 1
        BY <2>2
      <4>3. \A n \in 1 .. k + 1 : h[n] = IF n = k + 1 THEN Step(g, k + 1) ELSE g[n]
        OBVIOUS
      <4> HIDE DEF h
      <4> QED
        BY <4>1, <4>2, <4>3
    <3>3. ASSUME NEW n \in 1 .. k + 1 PROVE h[n] = Step(h, n)
      <4>1. n # 1 => n - 1 \in 1 .. k
        BY <2>2
      <4>2. n # 1 => h[n - 1] = g[n - 1]
        BY <3>2, <4>1
      <4>3. Step(h, n) = Step(g, n)
        <5> HIDE DEF h, Fit, Wrap, width
        <5> QED
          BY <4>2
      <4>4. h[n] = IF n = k + 1 THEN Step(g, k + 1) ELSE g[n]
        <5> HIDE DEF Step
        <5> QED
          OBVIOUS
      <4>5. n # k + 1 => n \in 1 .. k
        BY <2>2
      <4> HIDE DEF Step
      <4> QED
        BY <3>2, <4>3, <4>4, <4>5
    <3>4. h = [n \in 1 .. k + 1 |-> Step(h, n)]
      <4>1. h = [n \in 1 .. k + 1 |-> h[n]]
        <5> HIDE DEF Step
        <5> QED
          OBVIOUS
      <4> HIDE DEF h, Step
      <4> QED
        BY <3>3, <4>1
    <3> HIDE DEF h
    <3>5. \E f : Runs(f, k + 1)
      BY <3>4
    <3> HIDE DEF Runs
    <3> QED
      BY <1>1, <2>2, <3>5
  <2> HIDE DEF T
  <2>3. 0 .. top \subseteq T
    BY <1>1, <2>1, <2>2, UpTo
  <2> HIDE DEF Runs
  <2> QED
    BY <1>1, <2>3 DEF T
<1>6. Runs(spot, top)
  BY <1>5
<1>7. \A n \in 1 .. top : spot[n] = Step(spot, n)
  <2> HIDE DEF spot, Step
  <2> QED
    BY <1>6
<1> HIDE DEF spot, width
<1> DEFINE Spot(c) == c \in [row : Nat \ {0}, col : Nat \ {0}]
           T == {0} \cup {k \in 1 .. top : Spot(spot[k]) /\ spot[k].col + width(k) - 1 <= Cols}
<1>8. ASSUME NEW c, Spot(c), NEW n \in 1 .. top
      PROVE  Spot(Wrap(c)) /\ Spot(Fit(c, n)) /\ Fit(c, n).col + width(n) - 1 <= Cols
  BY <1>1, <1>3, <1>8
<1>9. ASSUME NEW k \in T, k \in Nat, k < top PROVE k + 1 \in T
  <2>1. k + 1 \in 1 .. top /\ (k + 1) - 1 = k /\ (k + 1 = 1 <=> k = 0)
    BY <1>1, <1>9
  <2>2. CASE k = 0
    <3>1. Spot([row |-> 1, col |-> 1])
      OBVIOUS
    <3>2. spot[1] = Fit([row |-> 1, col |-> 1], 1)
      BY <1>7, <2>1, <2>2
    <3> HIDE DEF Fit, Spot
    <3>3. Spot(spot[1]) /\ spot[1].col + width(1) - 1 <= Cols
      BY <1>8, <2>1, <2>2, <3>1, <3>2
    <3> QED
      BY <2>1, <2>2, <3>3
  <2>3. CASE k # 0
    <3>1. k \in 1 .. top /\ Spot(spot[k]) /\ width(k) \in 1 .. Cols
      BY <1>3, <2>3
    <3> DEFINE c == [spot[k] EXCEPT !.col = @ + width(k)]
    <3>2. Spot(c)
      <4>1. spot[k].row \in Nat \ {0} /\ spot[k].col + width(k) \in Nat \ {0}
        BY <1>1, <3>1
      <4>2. \A p \in [row : Nat \ {0}, col : Nat \ {0}] : \A x :
               [p EXCEPT !.col = @ + x] = [row |-> p.row, col |-> p.col + x]
        OBVIOUS
      <4>3. c = [row |-> spot[k].row, col |-> spot[k].col + width(k)]
        BY <3>1, <4>2
      <4> QED
        BY <4>1, <4>3
    <3>3. spot[k + 1] = Fit(Wrap(c), k + 1)
      <4> HIDE DEF Fit, Wrap, Spot
      <4> QED
        BY <1>7, <2>1, <2>3
    <3> HIDE DEF Fit, Wrap, Spot, c
    <3>4. Spot(spot[k + 1]) /\ spot[k + 1].col + width(k + 1) - 1 <= Cols
      BY <1>8, <2>1, <3>2, <3>3
    <3> QED
      BY <2>1, <3>4
  <2> QED
    BY <2>2, <2>3
<1> HIDE DEF T
<1>10. 0 .. top \subseteq T
  <2>1. 0 \in T
    BY DEF T
  <2> QED
    BY <1>1, <1>9, <2>1, UpTo
<1>11. \A n \in 1 .. top : Spot(spot[n]) /\ spot[n].col + width(n) - 1 <= Cols
  BY <1>1, <1>10 DEF T
<1>12. CardsInColumns(cards)
  <2>1. DOMAIN cards \subseteq CardId /\ cards = [i \in DOMAIN cards |-> cards[i]]
    BY <1>2
  <2>2. ASSUME NEW i \in DOMAIN cards
        PROVE  cards[i] \in GridCardConfig /\ InColumns(cards[i])
    <3>1. index(i) \in 1 .. top /\ i \in CardId
      BY <1>2
    <3> DEFINE c == cards[i]
    <3>2. /\ c.col = spot[index(i)].col /\ c.row = spot[index(i)].row
          /\ c.colSpan = width(index(i)) /\ c.rowSpan = rowSpans[i]
          /\ c = [col |-> spot[index(i)].col, row |-> spot[index(i)].row,
                  colSpan |-> width(index(i)), rowSpan |-> rowSpans[i]]
      OBVIOUS
    <3> HIDE DEF cards, index
    <3>3. /\ spot[index(i)].col \in Nat \ {0} /\ spot[index(i)].row \in Nat \ {0}
          /\ width(index(i)) \in 1 .. Cols /\ rowSpans[i] \in Nat \ {0}
          /\ spot[index(i)].col + width(index(i)) - 1 <= Cols
      BY <1>3, <1>11, <3>1
    <3>4. c \in GridCardConfig
      BY <1>1, <3>2, <3>3 DEF GridCardConfig
    <3>5. InColumns(c)
      BY <1>1, <3>2, <3>3 DEF InColumns
    <3> QED
      BY <3>4, <3>5
  <2> QED
    BY <2>1, <2>2 DEF CardsInColumns
<1> HIDE DEF cards
<1> QED
  BY <1>4, <1>12, FitsIs, ColsIs DEF Mode

\* A layout of the second version, in the columns of its coarser grid.
FitsUnits(l) ==
    /\ IsLayout(l)
    /\ \A i \in DOMAIN l.cards :
          /\ l.cards[i].col >= 1 /\ l.cards[i].row >= 1 /\ l.cards[i].colSpan >= 1
          /\ l.cards[i].col + l.cards[i].colSpan - 1 <= UnitCols

\* A layout of the coarser columns, scaled, lies in the columns of today.
LEMMA ScaleKeeps ==
  ASSUME NEW l, FitsUnits(l)
  PROVE  Fits(ScaleLegacyLayout(l))
<1> DEFINE g == Granularity
           scaled(c) == [col |-> (c.col - 1) * g + 1, row |-> (c.row - 1) * g + 1,
                         colSpan |-> c.colSpan * g, rowSpan |-> c.rowSpan * g]
           cards == [i \in DOMAIN l.cards |-> scaled(l.cards[i])]
<1>0. PICK s \in SUBSET CardId : l \in [cards : [s -> GridCardConfig], mode : Mode, totalRows : Nat]
  BY DEF FitsUnits, IsLayout
<1>1. l.cards \in [s -> GridCardConfig] /\ l.mode \in Mode /\ l.totalRows \in Nat
      /\ l = [cards |-> l.cards, mode |-> l.mode, totalRows |-> l.totalRows]
  BY <1>0
<1>2. g \in Nat \ {0} /\ UnitCols \in Nat \ {0} /\ Cols = UnitCols * g
  BY GridAssumption DEF Cols
<1>3. \A a, b \in Int : a * g \in Int /\ (a <= b => a * g <= b * g)
  BY <1>2
<1>4. ASSUME NEW i \in DOMAIN l.cards
      PROVE  scaled(l.cards[i]) \in GridCardConfig /\ InColumns(scaled(l.cards[i]))
  <2> DEFINE c == l.cards[i]
  <2>1. /\ c \in GridCardConfig /\ c.col >= 1 /\ c.row >= 1 /\ c.colSpan >= 1
        /\ c.col + c.colSpan - 1 <= UnitCols
    BY <1>1 DEF FitsUnits
  <2> HIDE DEF c
  <2>2. c.col \in Int /\ c.row \in Int /\ c.colSpan \in Int /\ c.rowSpan \in Int
    BY <2>1 DEF GridCardConfig
  <2>3. (c.col - 1) * g \in Int /\ (c.row - 1) * g \in Int /\ c.colSpan * g \in Int
        /\ c.rowSpan * g \in Int
    BY <1>3, <2>2
  <2>4. 0 <= (c.col - 1) * g /\ 0 <= (c.row - 1) * g /\ 1 <= c.colSpan * g
    <3>1. 0 * g = 0 /\ 1 * g = g /\ 1 <= g
      BY <1>2
    <3>2. 0 <= c.col - 1 /\ 0 <= c.row - 1 /\ c.col - 1 \in Int /\ c.row - 1 \in Int
      BY <2>1, <2>2
    <3>3. 0 * g <= (c.col - 1) * g /\ 0 * g <= (c.row - 1) * g /\ 1 * g <= c.colSpan * g
      BY <1>3, <2>1, <2>2, <3>2
    <3> QED
      BY <1>2, <2>3, <3>1, <3>3
  <2>5. (c.col - 1) * g + c.colSpan * g <= Cols
    <3>1. (c.col - 1) * g + c.colSpan * g = (c.col - 1 + c.colSpan) * g
      BY <1>2, <2>2
    <3>2. (c.col - 1 + c.colSpan) * g <= UnitCols * g
      BY <1>2, <1>3, <2>1, <2>2
    <3> QED
      BY <1>2, <3>1, <3>2
  <2>6. scaled(c) \in GridCardConfig
    BY <2>3 DEF GridCardConfig
  <2>7. Cols \in Int
    BY ColsIs
  <2>8. InColumns(scaled(c))
    BY <2>3, <2>4, <2>5, <2>7 DEF InColumns
  <2> QED
    BY <2>6, <2>8 DEF c
<1>5. CardsInColumns(cards)
  BY <1>1, <1>4 DEF CardsInColumns
<1>6. ScaleLegacyLayout(l) = [cards |-> cards, mode |-> l.mode, totalRows |-> l.totalRows * g]
  <2>2. ScaleLegacyLayout(l) = [[l EXCEPT !.cards = cards] EXCEPT !.totalRows = @ * g]
    BY <1>1 DEF ScaleLegacyLayout
  <2> HIDE DEF cards, g
  <2> QED
    BY <1>1, <2>2
<1>7. l.mode \in Mode /\ l.totalRows * g \in Nat
  BY <1>1, <1>2
<1> HIDE DEF cards
<1> QED
  BY <1>5, <1>6, <1>7, FitsIs

\* What the settings may hold, by its format.
LEMMA WrittenIs ==
  ASSUME NEW s, WrittenLayout(s)
  PROVE  \/ s.format = "none"
         \/ s.format = "list" /\ s.value \in Seq([id : CardId, colSpan : Nat \ {0}])
         \/ s.format = "legacy" /\ FitsUnits(s.value)
         \/ s.format = "current" /\ Fits(s.value)
BY DEF WrittenLayout, FitsUnits, Fits, LayoutInColumns

\* The layouts the client comes with fit.
LEMMA DefaultFits == Fits(DefaultLayout) /\ Fits(KioskLayout)
<1>1. \A c \in GridCardConfig : WellPlaced(c) => InColumns(c)
  BY ColsIs DEF GridCardConfig, WellPlaced, InColumns
<1>2. CardsInColumns(DefaultCards)
  BY <1>1, GridAssumption DEF CardsInColumns
<1>3. CardsInColumns(KioskCards)
  BY <1>1, GridAssumption DEF CardsInColumns
<1> QED
  BY <1>2, <1>3, FitsIs, ColsIs DEF DefaultLayout, KioskLayout, Mode

\* Whatever was saved, the layout that is read from it fits the columns.
LEMMA ReadBackFits ==
  ASSUME NEW s, WrittenLayout(s), NEW rowSpans \in [CardId -> Nat \ {0}]
  PROVE  Fits(LayoutFromSettings(s, rowSpans))
<1> DEFINE migrated == CASE s.format = "list"    -> MigrateOldFormat(s.value, rowSpans)
                         [] s.format = "legacy"  -> ScaleLegacyLayout(s.value)
                         [] s.format = "current" -> s.value
<1>1. s.format # "none" => Fits(migrated)
  <2>1. CASE s.format = "list"
    BY <2>1, MigrateKeeps, WrittenIs
  <2>2. CASE s.format = "legacy"
    BY <2>2, ScaleKeeps, WrittenIs
  <2>3. CASE s.format = "current"
    BY <2>3, WrittenIs
  <2> QED
    BY <2>1, <2>2, <2>3, WrittenIs
<1>2. \/ s.format # "none" /\ LayoutFromSettings(s, rowSpans)
                               = [migrated EXCEPT !.cards = AddMissing(migrated.cards)]
      \/ LayoutFromSettings(s, rowSpans) = DefaultLayout
  BY DEF LayoutFromSettings
<1> HIDE DEF migrated
<1>3. ASSUME s.format # "none"
      PROVE  Fits([migrated EXCEPT !.cards = AddMissing(migrated.cards)])
  BY <1>1, <1>3, FitsCards, AddMissingKeeps, FitsWithCards
<1> QED
  BY <1>2, <1>3, DefaultFits

(***************************************************************************)
(* The editor.                                                             *)
(***************************************************************************)
LayoutsFit ==
    /\ Fits(layout) /\ WrittenLayout(stored)
    /\ answer # NoLayout => WrittenLayout(answer)
    /\ snapshot # NoLayout => Fits(snapshot)
    /\ timer # NoLayout => Fits(timer)
    /\ \A p \in puts : Fits(p)

EditorFlags ==
    /\ wide \in BOOLEAN /\ tall \in BOOLEAN /\ editing \in BOOLEAN /\ raced \in BOOLEAN
    /\ edits \in Nat
    /\ (editing <=> snapshot # NoLayout) /\ (editing => wide)

\* What is written last is waiting, on its way or stored.
LastIsKept ==
    /\ timer # NoLayout => timer = last
    /\ ~raced /\ last # NoLayout /\ timer = NoLayout =>
          \/ puts = {last}
          \/ puts = {} /\ stored = [format |-> "current", value |-> last]

EditorInv == LayoutsFit /\ EditorFlags

\* A layout is not the value that stands for none.
LEMMA LayoutIsNot == \A l : Fits(l) => l # NoLayout
BY EditorAssumption DEF Fits

\* The editor starts with the default layout.
LEMMA EditorInitially == EditorInit => EditorInv /\ LastIsKept
<1> SUFFICES ASSUME EditorInit PROVE EditorInv /\ LastIsKept
  OBVIOUS
<1>1. LayoutsFit
  BY EditorAssumption, DefaultFits DEF EditorInit, LayoutsFit
<1>2. EditorFlags
  BY DEF EditorInit, EditorFlags
<1>3. LastIsKept
  BY DEF EditorInit, LastIsKept
<1> QED
  BY <1>1, <1>2, <1>3 DEF EditorInv

\* A card that is put in the place of another.
LEMMA CardChanged ==
  ASSUME NEW cards, CardsInColumns(cards), NEW id \in DOMAIN cards,
         NEW c \in GridCardConfig, InColumns(c)
  PROVE  CardsInColumns([cards EXCEPT ![id] = c])
BY DEF CardsInColumns

\* A card moved keeps its size.
LEMMA MovedIs ==
  ASSUME NEW c \in GridCardConfig, NEW col \in Int, NEW row \in Int
  PROVE  /\ MoveTo(c, col, row) \in GridCardConfig
         /\ MoveTo(c, col, row).col = col /\ MoveTo(c, col, row).row = row
         /\ MoveTo(c, col, row).colSpan = c.colSpan /\ MoveTo(c, col, row).rowSpan = c.rowSpan
BY DEF MoveTo, GridCardConfig

\* A card moved within the bounds stays in the columns.
LEMMA MovedInColumns ==
  ASSUME NEW c \in GridCardConfig, InColumns(c), NEW col \in Int, NEW row \in Int, NEW rows,
         IsInBounds(MoveTo(c, col, row), rows)
  PROVE  InColumns(MoveTo(c, col, row))
BY MovedIs DEF InColumns, IsInBounds

\* A card resized is cut to the columns.
LEMMA ResizedIs ==
  ASSUME NEW c \in GridCardConfig, InColumns(c), NEW w \in Int, NEW h \in Int, NEW rows \in Nat
  PROVE  Resized(c, w, h, rows) \in GridCardConfig /\ InColumns(Resized(c, w, h, rows))
<1> DEFINE w1 == IF w < 1 THEN 1 ELSE w
           h1 == IF h < 1 THEN 1 ELSE h
           w2 == Lesser(w1, Cols - c.col + 1)
           h2 == IF rows = 0 THEN h1 ELSE Lesser(h1, rows - c.row + 1)
<1>1. /\ c.col \in Int /\ c.row \in Int /\ Cols \in Int /\ c.col >= 1 /\ c.row >= 1
      /\ c.col <= Cols
  BY ColsIs DEF GridCardConfig, InColumns
<1>2. w1 \in Int /\ w1 >= 1 /\ h1 \in Int
  OBVIOUS
<1> HIDE DEF w1, h1
<1>3. w2 \in Int /\ w2 >= 1 /\ w2 <= Cols - c.col + 1
  BY <1>1, <1>2 DEF Lesser
<1>4. h2 \in Int
  BY <1>1, <1>2 DEF Lesser
<1>5. Resized(c, w, h, rows) = [c EXCEPT !.colSpan = w2, !.rowSpan = h2]
  BY DEF Resized, w1, h1
<1> HIDE DEF w2, h2
<1> DEFINE r == [c EXCEPT !.colSpan = w2, !.rowSpan = h2]
<1>6. r \in GridCardConfig /\ r.col = c.col /\ r.row = c.row /\ r.colSpan = w2
  BY <1>3, <1>4 DEF GridCardConfig
<1> HIDE DEF r
<1>7. InColumns(r)
  BY <1>1, <1>3, <1>6 DEF InColumns
<1> QED
  BY <1>5, <1>6, <1>7 DEF r

\* The rows of a dashboard are counted.
LEMMA RowsIs ==
  ASSUME Fits(layout)
  PROVE  Rows \in Nat
BY FitsCards DEF Rows, LastRow

\* What each edit leaves fits.
LEMMA SaveKeeps ==
  ASSUME EditorInv, NEW next, Fits(next), Save(next),
         UNCHANGED <<stored, tall, wide, answer>>,
         UNCHANGED <<editing, snapshot>> \/ (editing' = FALSE /\ snapshot' = NoLayout),
         edits' \in Nat
  PROVE  EditorInv'
<1>1. layout' = next /\ timer' = next /\ UNCHANGED <<puts, raced>>
  BY DEF Save, PersistLayout
<1>2. LayoutsFit'
  BY <1>1 DEF EditorInv, LayoutsFit
<1>3. EditorFlags'
  <2>1. CASE UNCHANGED <<editing, snapshot>>
    BY <1>1, <2>1 DEF EditorInv, EditorFlags
  <2>2. CASE editing' = FALSE /\ snapshot' = NoLayout
    BY <1>1, <2>2 DEF EditorInv, EditorFlags
  <2> QED
    BY <2>1, <2>2
<1> QED
  BY <1>2, <1>3 DEF EditorInv

\* An edit leaves a layout that fits, to be stored.
LEMMA EditKeeps ==
  ASSUME EditorInv, NEW next, Fits(next), Edit(next)
  PROVE  EditorInv'
BY SaveKeeps DEF Edit, EditorInv, EditorFlags

\* A drag or a resize is an edit that fits.
LEMMA DragFits ==
  ASSUME EditorInv, Drag
  PROVE  EditorInv'
<1>1. Fits(layout) /\ CardsInColumns(Shown) /\ Rows \in Nat
  BY FitsCards, RowsIs DEF EditorInv, LayoutsFit, Shown
<1>2. \A i \in DOMAIN Shown : Shown[i] \in GridCardConfig /\ InColumns(Shown[i])
  BY <1>1 DEF CardsInColumns
<1>3. ASSUME NEW cards, CardsInColumns(cards), Edit(WithCards(cards))
      PROVE  EditorInv'
  BY <1>1, <1>3, FitsWithCards, EditKeeps DEF WithCards
<1>4. ASSUME NEW id \in CardId, NEW col \in 1 .. Cols, NEW row \in 1 .. MaxRow, Move(id, col, row)
      PROVE  EditorInv'
  <2> DEFINE c == MoveTo(Shown[id], col, row)
  <2>1. id \in DOMAIN Shown /\ IsInBounds(c, Rows) /\ Edit(WithCards([Shown EXCEPT ![id] = c]))
    BY <1>4 DEF Move, MayMove
  <2>2. col \in Int /\ row \in Int
    BY ColsIs, EditorAssumption
  <2>3. c \in GridCardConfig /\ InColumns(c)
    BY <1>2, <2>1, <2>2, MovedIs, MovedInColumns
  <2> HIDE DEF c
  <2> QED
    BY <1>1, <1>3, <2>1, <2>3, CardChanged
<1>5. ASSUME NEW id \in CardId, NEW other \in CardId, NEW col \in 1 .. Cols, NEW row \in 1 .. MaxRow,
             Swap(id, other, col, row)
      PROVE  EditorInv'
  <2> DEFINE c == MoveTo(Shown[id], col, row)
             s == MoveTo(Shown[other], Shown[id].col, Shown[id].row)
  <2>1. id \in DOMAIN Shown /\ other \in DOMAIN Shown
    BY <1>5 DEF Swap
  <2>2. IsInBounds(c, Rows) /\ IsInBounds(s, Rows)
    BY <1>5 DEF Swap, MaySwap
  <2>3. id # other
    BY <1>5 DEF Swap, MaySwap, Colliders
  <2>4. Edit(WithCards([Shown EXCEPT ![id] = MoveTo(@, col, row),
                                     ![other] = MoveTo(@, Shown[id].col, Shown[id].row)]))
    BY <1>5 DEF Swap
  <2>5. [Shown EXCEPT ![id] = MoveTo(@, col, row),
                      ![other] = MoveTo(@, Shown[id].col, Shown[id].row)]
          = [[Shown EXCEPT ![id] = c] EXCEPT ![other] = s]
    BY <2>1, <2>3
  <2>6. col \in Int /\ row \in Int /\ Shown[id].col \in Int /\ Shown[id].row \in Int
    BY <1>2, <2>1, ColsIs, EditorAssumption DEF GridCardConfig
  <2>7. c \in GridCardConfig /\ InColumns(c) /\ s \in GridCardConfig /\ InColumns(s)
    BY <1>2, <2>1, <2>2, <2>6, MovedIs, MovedInColumns
  <2> HIDE DEF c, s
  <2> DEFINE one == [Shown EXCEPT ![id] = c]
  <2>8. CardsInColumns(one) /\ other \in DOMAIN one
    BY <1>1, <2>1, <2>7, CardChanged
  <2> HIDE DEF one
  <2>9. CardsInColumns([one EXCEPT ![other] = s])
    BY <2>7, <2>8, CardChanged
  <2> QED
    BY <1>3, <2>4, <2>5, <2>9 DEF one
<1>6. ASSUME NEW id \in CardId, NEW w \in 0 .. Cols + 1, NEW h \in 0 .. MaxRow, Resize(id, w, h)
      PROVE  EditorInv'
  <2> DEFINE c == Resized(Shown[id], w, h, Rows)
  <2>1. id \in DOMAIN Shown /\ Edit(WithCards([Shown EXCEPT ![id] = c]))
    BY <1>6 DEF Resize
  <2>2. w \in Int /\ h \in Int
    BY ColsIs, EditorAssumption
  <2>3. c \in GridCardConfig /\ InColumns(c)
    BY <1>1, <1>2, <2>1, <2>2, ResizedIs
  <2> HIDE DEF c
  <2> QED
    BY <1>1, <1>3, <2>1, <2>3, CardChanged
<1> QED
  BY <1>4, <1>5, <1>6 DEF Drag

\* Every step of the dashboard keeps its layouts in the columns.
LEMMA EditorStep ==
  ASSUME EditorInv, [EditorNext]_editorVars
  PROVE  EditorInv'
<1>1. Fits(layout) /\ CardsInColumns(Shown) /\ layout.mode \in Mode /\ edits \in Nat
  BY FitsCards DEF EditorInv, LayoutsFit, EditorFlags, Shown
<1>2. LayoutsFit /\ EditorFlags
  BY DEF EditorInv
<1>3. CASE Drag
  BY <1>3, DragFits
<1>4. ASSUME NEW id \in CardId, RemoveCard(id)
      PROVE  EditorInv'
  <2> DEFINE cards == [i \in DOMAIN Shown \ {id} |-> Shown[i]]
  <2>1. CardsInColumns(cards)
    BY <1>1 DEF CardsInColumns
  <2>2. Edit(WithCards(cards))
    BY <1>4 DEF RemoveCard
  <2> HIDE DEF cards
  <2> QED
    BY <1>1, <2>1, <2>2, FitsWithCards, EditKeeps DEF WithCards
<1>5. ASSUME NEW id \in CardId, Add(id)
      PROVE  EditorInv'
  BY <1>1, <1>5, AddCardKeeps, FitsWithCards, EditKeeps DEF Add, WithCards
<1>6. CASE ToggleMode
  <2> DEFINE mode == IF layout.mode = "fill" THEN "scroll" ELSE "fill"
             next == [cards |-> layout.cards, mode |-> mode, totalRows |-> layout.totalRows]
  <2>1. layout = [cards |-> layout.cards, mode |-> layout.mode, totalRows |-> layout.totalRows]
    BY <1>1, FitsCards
  <2>2. [layout EXCEPT !.mode = mode] = next
    BY <2>1
  <2>3. Fits(next)
    BY <1>1, FitsCards, FitsIs DEF Mode
  <2> HIDE DEF next
  <2> QED
    BY <1>6, <2>2, <2>3, EditKeeps DEF ToggleMode
<1>7. CASE ApplySimpleKiosk
  BY <1>7, DefaultFits, EditKeeps DEF ApplySimpleKiosk
<1>8. CASE StartEditing
  <2>1. LayoutsFit'
    BY <1>1, <1>2, <1>8 DEF StartEditing, saving, LayoutsFit
  <2>2. EditorFlags'
    BY <1>1, <1>2, <1>8, LayoutIsNot DEF StartEditing, saving, EditorFlags
  <2> QED
    BY <2>1, <2>2 DEF EditorInv
<1>9. CASE Done
  BY <1>2, <1>9 DEF Done, saving, EditorInv, LayoutsFit, EditorFlags
<1>10. CASE CancelEditing
  <2>1. Fits(snapshot) /\ Save(snapshot)
    BY <1>2, <1>10 DEF CancelEditing, LayoutsFit, EditorFlags
  <2> QED
    BY <1>1, <1>10, <2>1, SaveKeeps DEF CancelEditing
<1>11. ASSUME NEW w \in BOOLEAN, NEW t \in BOOLEAN, ResizeWindow(w, t)
       PROVE  EditorInv'
  <2>1. LayoutsFit'
    BY <1>2, <1>11 DEF ResizeWindow, saving, LayoutsFit
  <2>2. EditorFlags'
    <3>1. /\ wide' = w /\ tall' = t /\ editing' = (editing /\ w) /\ edits' = edits + 1
          /\ snapshot' = (IF w THEN snapshot ELSE NoLayout) /\ raced' = raced
      BY <1>11 DEF ResizeWindow, saving
    <3>2. edits' \in Nat
      BY <1>1, <3>1
    <3>3. CASE w
      BY <1>2, <3>1, <3>2, <3>3 DEF EditorFlags
    <3>4. CASE ~w
      BY <1>2, <3>1, <3>2, <3>4 DEF EditorFlags
    <3> QED
      BY <3>3, <3>4
  <2> QED
    BY <2>1, <2>2 DEF EditorInv
<1>12. CASE TimerFires
  <2>1. LayoutsFit'
    BY <1>2, <1>12 DEF TimerFires, LayoutsFit
  <2>2. raced' \in BOOLEAN
    BY <1>2, <1>12 DEF TimerFires, EditorFlags
  <2>3. EditorFlags'
    BY <1>2, <1>12, <2>2 DEF TimerFires, EditorFlags
  <2> QED
    BY <2>1, <2>3 DEF EditorInv
<1>13. ASSUME NEW p \in puts, PutArrives(p)
       PROVE  EditorInv'
  <2>1. WrittenLayout([format |-> "current", value |-> p])
    <3>1. Fits(p)
      BY <1>2 DEF LayoutsFit
    <3> QED
      BY <3>1, FitsCards DEF WrittenLayout, LayoutInColumns, Fits, CardsInColumns
  <2>2. LayoutsFit'
    BY <1>2, <1>13, <2>1 DEF PutArrives, LayoutsFit
  <2>3. EditorFlags'
    BY <1>2, <1>13 DEF PutArrives, EditorFlags
  <2> QED
    BY <2>2, <2>3 DEF EditorInv
<1>14. ASSUME NEW p \in puts, PutFails(p)
       PROVE  EditorInv'
  BY <1>2, <1>14 DEF PutFails, EditorInv, LayoutsFit, EditorFlags
<1>15. CASE ServerAnswers
  BY <1>2, <1>15 DEF ServerAnswers, saving, EditorInv, LayoutsFit, EditorFlags
<1>16. CASE DashboardLoaded
  <2>1. Fits(layout')
    BY <1>2, <1>16, ReadBackFits, EditorAssumption DEF DashboardLoaded, LayoutsFit
  <2> QED
    BY <1>2, <1>16, <2>1 DEF DashboardLoaded, saving, EditorInv, LayoutsFit, EditorFlags
<1>17. CASE UNCHANGED editorVars
  BY <1>2, <1>17 DEF editorVars, EditorInv, LayoutsFit, EditorFlags
<1> QED
  BY <1>3, <1>4, <1>5, <1>6, <1>7, <1>8, <1>9, <1>10, <1>11, <1>12, <1>13, <1>14, <1>15, <1>16,
     <1>17 DEF EditorNext

\* An edit or a cancellation starts the timer anew.
LEMMA LastStep ==
  ASSUME LastIsKept, [EditorNext]_editorVars
  PROVE  LastIsKept'
<1>1. ASSUME NEW next, Save(next), stored' = stored
      PROVE  LastIsKept'
  BY <1>1 DEF Save, PersistLayout, LastIsKept
<1>2. ASSUME UNCHANGED <<stored, timer, puts, last, raced>>
      PROVE  LastIsKept'
  BY <1>2 DEF LastIsKept
<1>3. CASE Drag
  BY <1>1, <1>3 DEF Drag, Move, Swap, Resize, Edit
<1>4. CASE (\E id \in CardId : RemoveCard(id) \/ Add(id)) \/ ToggleMode \/ ApplySimpleKiosk
           \/ CancelEditing
  BY <1>1, <1>4 DEF RemoveCard, Add, ToggleMode, ApplySimpleKiosk, CancelEditing, Edit
<1>5. CASE StartEditing \/ Done \/ (\E w, t \in BOOLEAN : ResizeWindow(w, t)) \/ ServerAnswers
           \/ DashboardLoaded \/ UNCHANGED editorVars
  BY <1>2, <1>5 DEF StartEditing, Done, ResizeWindow, ServerAnswers, DashboardLoaded, saving,
                    editorVars
<1>6. CASE TimerFires
  <2>1. /\ timer # NoLayout /\ timer' = NoLayout /\ puts' = puts \cup {timer}
        /\ raced' = (raced \/ puts # {}) /\ UNCHANGED <<stored, last>>
    BY <1>6 DEF TimerFires
  <2>2. timer = last
    BY <2>1 DEF LastIsKept
  <2>3. ~raced' => puts' = {last}
    BY <2>1, <2>2
  <2> QED
    BY <2>1, <2>3 DEF LastIsKept
<1>7. ASSUME NEW p \in puts, PutArrives(p)
      PROVE  LastIsKept'
  BY <1>7 DEF PutArrives, LastIsKept
<1>8. ASSUME NEW p \in puts, PutFails(p)
      PROVE  LastIsKept'
  BY <1>8 DEF PutFails, LastIsKept
<1> QED
  BY <1>3, <1>4, <1>5, <1>6, <1>7, <1>8 DEF EditorNext

\* The invariant of the dashboard and its editor.
LEMMA EditorInvariant == EditorSpec => [](EditorInv /\ LastIsKept)
BY EditorInitially, EditorStep, LastStep, PTL DEF EditorSpec

\* The types of the editor.
THEOREM EditorTypeCorrect == EditorSpec => []EditorTypeOK
<1>1. EditorInv => EditorTypeOK
  <2> SUFFICES ASSUME EditorInv PROVE EditorTypeOK
    OBVIOUS
  <2>1. stored.format \in {"none", "list", "legacy", "current"}
    BY DEF EditorInv, LayoutsFit, WrittenLayout
  <2>2. layout.mode \in Mode /\ layout.totalRows \in Nat
    BY FitsCards DEF EditorInv, LayoutsFit
  <2> QED
    BY <2>1, <2>2 DEF EditorInv, EditorFlags, EditorTypeOK
<1> QED
  BY <1>1, EditorInvariant, PTL

\* Every card of every layout stays in the columns of the grid.
THEOREM CardsStayInColumns == EditorSpec => []ColumnsKept
<1>1. EditorInv => ColumnsKept
  <2> SUFFICES ASSUME EditorInv PROVE ColumnsKept
    OBVIOUS
  <2>1. \A l : Fits(l) => LayoutInColumns(l)
    BY FitsCards DEF LayoutInColumns, CardsInColumns
  <2>2. \A s : WrittenLayout(s) /\ s.format = "current" => LayoutInColumns(s.value)
    BY DEF WrittenLayout
  <2>3. \A l \in {snapshot, timer} \cup puts : l # NoLayout => LayoutInColumns(l)
    BY <2>1 DEF EditorInv, LayoutsFit
  <2>4. \A s \in {stored, answer} : s # NoLayout /\ s.format = "current" => LayoutInColumns(s.value)
    BY <2>2 DEF EditorInv, LayoutsFit
  <2> QED
    BY <2>1, <2>3, <2>4 DEF EditorInv, LayoutsFit, ColumnsKept
<1> QED
  BY <1>1, EditorInvariant, PTL

\* The layout the editor was left with is the one that is stored.
THEOREM LastEditKept == EditorSpec => []LastEditIsStored
<1>1. LastIsKept => LastEditIsStored
  BY DEF LastIsKept, LastEditIsStored
<1> QED
  BY <1>1, EditorInvariant, PTL

-----------------------------------------------------------------------------
\* A card without cells lies on no other; two that have cells lie on one another when
\* their rectangles overlap, and only then.
Empty(c) == c.colSpan <= 0 \/ c.rowSpan <= 0

\* Rectangles overlap exactly when they share a cell, unless one is empty.
LEMMA OverlapIs ==
  ASSUME NEW a \in GridCardConfig, NEW b \in GridCardConfig
  PROVE  /\ Empty(a) => Cells(a) = {}
         /\ ~RectsOverlap(a, b) => Cells(a) \cap Cells(b) = {}
         /\ RectsOverlap(a, b) /\ Cells(a) \cap Cells(b) = {} => Empty(a) \/ Empty(b)
<1>1. /\ a.col \in Int /\ a.row \in Int /\ a.colSpan \in Int /\ a.rowSpan \in Int
      /\ b.col \in Int /\ b.row \in Int /\ b.colSpan \in Int /\ b.rowSpan \in Int
  BY DEF GridCardConfig
<1>2. ASSUME Empty(a), NEW p \in Cells(a) PROVE FALSE
  BY <1>1, <1>2 DEF Empty, Cells
<1>3. ASSUME ~RectsOverlap(a, b), NEW p \in Cells(a) \cap Cells(b) PROVE FALSE
  <2>1. /\ p[1] \in a.col .. a.col + a.colSpan - 1 /\ p[2] \in a.row .. a.row + a.rowSpan - 1
        /\ p[1] \in b.col .. b.col + b.colSpan - 1 /\ p[2] \in b.row .. b.row + b.rowSpan - 1
    BY <1>3 DEF Cells
  <2> QED
    BY <1>1, <1>3, <2>1 DEF RectsOverlap
<1>4. ASSUME RectsOverlap(a, b), ~Empty(a), ~Empty(b) PROVE Cells(a) \cap Cells(b) # {}
  <2> DEFINE x == IF a.col < b.col THEN b.col ELSE a.col
             y == IF a.row < b.row THEN b.row ELSE a.row
  <2>1. /\ x \in a.col .. a.col + a.colSpan - 1 /\ x \in b.col .. b.col + b.colSpan - 1
        /\ y \in a.row .. a.row + a.rowSpan - 1 /\ y \in b.row .. b.row + b.rowSpan - 1
    BY <1>1, <1>4 DEF RectsOverlap, Empty
  <2> HIDE DEF x, y
  <2>2. <<x, y>> \in Cells(a) /\ <<x, y>> \in Cells(b)
    BY <2>1 DEF Cells
  <2> QED
    BY <2>2
<1> QED
  BY <1>2, <1>3, <1>4

\* One card is put where it lies on no other.
LEMMA OneApart ==
  ASSUME NEW cards, CardsInColumns(cards), Apart(cards), NEW id \in DOMAIN cards,
         NEW c \in GridCardConfig, ~HasCollision(id, c, cards)
  PROVE  Apart([cards EXCEPT ![id] = c])
<1> DEFINE now == [cards EXCEPT ![id] = c]
<1>1. \A o \in DOMAIN cards \ {id} : ~RectsOverlap(c, cards[o])
  BY DEF HasCollision, Colliders
<1>2. \A o \in DOMAIN cards \ {id} : Cells(c) \cap Cells(cards[o]) = {}
  BY <1>1, OverlapIs DEF CardsInColumns
<1>3. DOMAIN now = DOMAIN cards /\ now[id] = c /\ \A o \in DOMAIN cards \ {id} : now[o] = cards[o]
  OBVIOUS
<1> HIDE DEF now
<1>4. ASSUME NEW i \in DOMAIN now, NEW j \in DOMAIN now, i # j
      PROVE  Cells(now[i]) \cap Cells(now[j]) = {}
  BY <1>2, <1>3, <1>4 DEF Apart
<1> QED
  BY <1>4 DEF Apart, now

\* Two cards of which only one has moved in fact: one of them has no cells.
LEMMA SwapApart ==
  ASSUME NEW cards, CardsInColumns(cards), Apart(cards),
         NEW id \in DOMAIN cards, NEW other \in DOMAIN cards, id # other,
         NEW c \in GridCardConfig, NEW s \in GridCardConfig,
         c.colSpan = cards[id].colSpan, c.rowSpan = cards[id].rowSpan,
         s = MoveTo(cards[other], cards[id].col, cards[id].row),
         Colliders(id, c, cards) = {other}, Colliders(other, s, cards) \subseteq {id},
         c = cards[id] \/ s = cards[other]
  PROVE  Apart([[cards EXCEPT ![id] = c] EXCEPT ![other] = s])
<1> DEFINE now == [[cards EXCEPT ![id] = c] EXCEPT ![other] = s]
           a == cards[id]
           b == cards[other]
<1>1. a \in GridCardConfig /\ b \in GridCardConfig /\ a.col \in Int /\ a.row \in Int
      /\ Cells(a) \cap Cells(b) = {}
  BY DEF CardsInColumns, Apart, GridCardConfig
<1>2. s.colSpan = b.colSpan /\ s.rowSpan = b.rowSpan /\ s.col = a.col /\ s.row = a.row
  BY <1>1, MovedIs
<1>3. Empty(a) \/ Empty(b)
  <2>1. CASE c = a
    <3>1. RectsOverlap(a, b)
      BY <2>1 DEF Colliders
    <3> QED
      BY <1>1, <3>1, OverlapIs
  <2>2. CASE s = b
    <3>1. RectsOverlap(a, b) \/ Empty(a) \/ Empty(b)
      BY <1>1, <1>2, <2>2 DEF RectsOverlap, Empty, GridCardConfig
    <3> QED
      BY <1>1, <3>1, OverlapIs
  <2> QED
    BY <2>1, <2>2
<1>4. Empty(c) \/ Empty(s)
  BY <1>2, <1>3 DEF Empty
<1>5. Cells(c) \cap Cells(s) = {}
  BY <1>4, OverlapIs
<1>6. \A o \in DOMAIN cards \ {id, other} :
         ~RectsOverlap(c, cards[o]) /\ ~RectsOverlap(s, cards[o])
  BY DEF Colliders
<1>7. \A o \in DOMAIN cards \ {id, other} :
         Cells(c) \cap Cells(cards[o]) = {} /\ Cells(s) \cap Cells(cards[o]) = {}
  BY <1>6, OverlapIs DEF CardsInColumns
<1>8. /\ DOMAIN now = DOMAIN cards /\ now[id] = c /\ now[other] = s
      /\ \A o \in DOMAIN cards \ {id, other} : now[o] = cards[o]
  OBVIOUS
<1> HIDE DEF now
<1>9. ASSUME NEW i \in DOMAIN now, NEW j \in DOMAIN now, i # j
      PROVE  Cells(now[i]) \cap Cells(now[j]) = {}
  <2>1. CASE i \in {id, other} /\ j \in {id, other}
    BY <1>5, <1>8, <1>9, <2>1
  <2>2. CASE i \in {id, other} /\ j \notin {id, other}
    BY <1>7, <1>8, <2>2
  <2>3. CASE i \notin {id, other} /\ j \in {id, other}
    BY <1>7, <1>8, <2>3
  <2>4. CASE i \notin {id, other} /\ j \notin {id, other}
    BY <1>8, <1>9, <2>4 DEF Apart
  <2> QED
    BY <2>1, <2>2, <2>3, <2>4
<1> QED
  BY <1>9 DEF Apart, now

\* A step of the editor that changes one card of a tidy layout leaves it tidy.
LEMMA DragStep ==
  ASSUME EditorInv, EditorNext, layout' # layout, edits' = edits + 1, Apart(Shown),
         DOMAIN Shown' = DOMAIN Shown,
         Cardinality({i \in DOMAIN Shown : Shown'[i] # Shown[i]}) = 1
  PROVE  Apart(Shown')
<1> DEFINE changed == {i \in DOMAIN Shown : Shown'[i] # Shown[i]}
<1>1. Fits(layout) /\ CardsInColumns(Shown) /\ Rows \in Nat /\ edits \in Nat /\ edits' # edits
  BY FitsCards, RowsIs DEF EditorInv, LayoutsFit, EditorFlags, Shown
<1>2. \A i \in DOMAIN Shown : Shown[i] \in GridCardConfig /\ InColumns(Shown[i])
  BY <1>1 DEF CardsInColumns
<1>3. \A i, j \in changed : i = j
  <2>1. IsFiniteSet(changed)
    BY <1>1, GridAssumption, FS_Subset DEF CardsInColumns
  <2>2. PICK x : changed = {x}
    BY <2>1, FS_Singleton
  <2> QED
    BY <2>2
<1>4. changed # {}
  BY FS_EmptySet
<1> HIDE DEF changed
<1>5. ASSUME NEW cards, Edit(WithCards(cards))
      PROVE  Shown' = cards
  <2>1. layout' = [layout EXCEPT !.cards = cards]
    BY <1>5 DEF Edit, Save, WithCards
  <2>2. layout' = [cards |-> cards, mode |-> layout.mode, totalRows |-> layout.totalRows]
    BY <1>1, <2>1, FitsCards
  <2> QED
    BY <2>2 DEF Shown
<1>6. ASSUME NEW id \in CardId, NEW col \in 1 .. Cols, NEW row \in 1 .. MaxRow, Move(id, col, row)
      PROVE  Apart(Shown')
  <2> DEFINE c == MoveTo(Shown[id], col, row)
  <2>1. /\ id \in DOMAIN Shown /\ ~HasCollision(id, c, Shown)
        /\ Edit(WithCards([Shown EXCEPT ![id] = c]))
    BY <1>6 DEF Move, MayMove
  <2>2. col \in Int /\ row \in Int
    BY ColsIs, EditorAssumption
  <2>3. c \in GridCardConfig
    BY <1>2, <2>1, <2>2, MovedIs
  <2> HIDE DEF c
  <2> QED
    BY <1>1, <1>5, <2>1, <2>3, OneApart
<1>7. ASSUME NEW id \in CardId, NEW other \in CardId, NEW col \in 1 .. Cols, NEW row \in 1 .. MaxRow,
             Swap(id, other, col, row)
      PROVE  Apart(Shown')
  <2> DEFINE c == MoveTo(Shown[id], col, row)
             s == MoveTo(Shown[other], Shown[id].col, Shown[id].row)
             now == [[Shown EXCEPT ![id] = c] EXCEPT ![other] = s]
  <2>1. id \in DOMAIN Shown /\ other \in DOMAIN Shown
    BY <1>7 DEF Swap
  <2>2. Colliders(id, c, Shown) = {other} /\ Colliders(other, s, Shown) \subseteq {id}
    BY <1>7 DEF Swap, MaySwap
  <2>3. id # other
    BY <2>2 DEF Colliders
  <2>4. Edit(WithCards([Shown EXCEPT ![id] = MoveTo(@, col, row),
                                     ![other] = MoveTo(@, Shown[id].col, Shown[id].row)]))
    BY <1>7 DEF Swap
  <2>5. [Shown EXCEPT ![id] = MoveTo(@, col, row),
                      ![other] = MoveTo(@, Shown[id].col, Shown[id].row)] = now
    BY <2>1, <2>3
  <2>6. col \in Int /\ row \in Int /\ Shown[id].col \in Int /\ Shown[id].row \in Int
    BY <1>2, <2>1, ColsIs, EditorAssumption DEF GridCardConfig
  <2>7. /\ c \in GridCardConfig /\ s \in GridCardConfig
        /\ c.colSpan = Shown[id].colSpan /\ c.rowSpan = Shown[id].rowSpan
    BY <1>2, <2>1, <2>6, MovedIs
  <2>8. Shown' = now
    BY <1>5, <2>4, <2>5
  <2>9. now[id] = c /\ now[other] = s
    BY <2>1, <2>3
  <2>10. c = Shown[id] \/ s = Shown[other]
    <3> HIDE DEF c, s, now
    <3> QED
      BY <1>3, <2>1, <2>3, <2>8, <2>9 DEF changed
  <2>11. Apart(now)
    <3> HIDE DEF c
    <3> QED
      BY <1>1, <2>1, <2>2, <2>3, <2>7, <2>10, SwapApart
  <2> QED
    BY <2>8, <2>11
<1>8. ASSUME NEW id \in CardId, NEW w \in 0 .. Cols + 1, NEW h \in 0 .. MaxRow, Resize(id, w, h)
      PROVE  Apart(Shown')
  <2> DEFINE c == Resized(Shown[id], w, h, Rows)
  <2>1. /\ id \in DOMAIN Shown /\ ~HasCollision(id, c, Shown)
        /\ Edit(WithCards([Shown EXCEPT ![id] = c]))
    BY <1>8 DEF Resize
  <2>2. w \in Int /\ h \in Int
    BY ColsIs, EditorAssumption
  <2>3. c \in GridCardConfig
    BY <1>1, <1>2, <2>1, <2>2, ResizedIs
  <2> HIDE DEF c
  <2> QED
    BY <1>1, <1>5, <2>1, <2>3, OneApart
<1>9. ASSUME NEW id \in CardId, RemoveCard(id)
      PROVE  FALSE
  <2> DEFINE cards == [i \in DOMAIN Shown \ {id} |-> Shown[i]]
  <2>1. id \in DOMAIN Shown /\ Edit(WithCards(cards))
    BY <1>9 DEF RemoveCard
  <2>2. DOMAIN cards = DOMAIN Shown \ {id}
    OBVIOUS
  <2> HIDE DEF cards
  <2> QED
    BY <1>5, <2>1, <2>2
<1>10. ASSUME NEW id \in CardId, Add(id)
       PROVE  FALSE
  <2>1. id \notin DOMAIN Shown /\ Edit(WithCards(AddCard(Shown, id)))
    BY <1>10 DEF Add
  <2>2. id \in DOMAIN AddCard(Shown, id)
    BY DEF AddCard, Place
  <2> QED
    BY <1>5, <2>1, <2>2
<1>11. CASE ToggleMode
  <2> DEFINE mode == IF layout.mode = "fill" THEN "scroll" ELSE "fill"
  <2>1. layout = [cards |-> layout.cards, mode |-> layout.mode, totalRows |-> layout.totalRows]
    BY <1>1, FitsCards
  <2>2. [layout EXCEPT !.mode = mode]
          = [cards |-> layout.cards, mode |-> mode, totalRows |-> layout.totalRows]
    BY <2>1
  <2>3. layout' = [layout EXCEPT !.mode = mode]
    BY <1>11 DEF ToggleMode, Edit, Save
  <2>4. Shown' = Shown
    BY <2>2, <2>3 DEF Shown
  <2> QED
    BY <1>4, <2>4 DEF changed
<1>12. CASE ApplySimpleKiosk
  <2>1. layout' = KioskLayout
    BY <1>12 DEF ApplySimpleKiosk, Edit, Save
  <2>2. Shown' = KioskCards
    BY <2>1 DEF Shown, KioskLayout
  <2> QED
    BY <2>2, EditorAssumption
<1>13. CASE (\E w, t \in BOOLEAN : ResizeWindow(w, t))
  BY <1>13 DEF ResizeWindow
<1>14. CASE StartEditing \/ Done \/ CancelEditing \/ TimerFires
            \/ (\E p \in puts : PutArrives(p) \/ PutFails(p)) \/ ServerAnswers \/ DashboardLoaded
  BY <1>1, <1>14 DEF StartEditing, Done, CancelEditing, TimerFires, PutArrives, PutFails,
     ServerAnswers, DashboardLoaded
<1> QED
  BY <1>6, <1>7, <1>8, <1>9, <1>10, <1>11, <1>12, <1>13, <1>14 DEF EditorNext, Drag

\* A drag or a resize of one card of a tidy layout never puts it over another; a swap
\* that moves two is exempt.
THEOREM DragsKeepApart == EditorSpec => DragKeepsApart
<1>1. EditorInv /\ [EditorNext]_editorVars =>
        [layout' # layout /\ edits' = edits + 1 /\ Apart(Shown) /\ DOMAIN Shown' = DOMAIN Shown
           /\ Cardinality({i \in DOMAIN Shown : Shown'[i] # Shown[i]}) = 1
         => Apart(Shown')]_editorVars
  BY DragStep
<1> QED
  BY <1>1, EditorInvariant, PTL DEF EditorSpec, DragKeepsApart

-----------------------------------------------------------------------------
(***************************************************************************)
(* The cameras.  Each of the parts has an invariant of its own; the other  *)
(* parts leave its variables alone.                                        *)
(***************************************************************************)
PlayerActions == Play \/ StaggerOver \/ Stop \/ SocketOpens \/ MseAnswer \/ SocketCloses
                 \/ OldSocketCloses
ChunkActions == ChunkArrives \/ UpdateOver \/ FlushQueue
TalkActions == \/ HoldTalk \/ LetGo \/ TalkFails \/ SwitchCamera \/ ToggleListening \/ ListenFails
               \/ \E a \in asking : MicAllowed(a) \/ MicRefused(a)
OrderActions == \/ \E o \in GridOrders : DragCamera(o)
                \/ \E s \in orderSaves : OrderSaved(s) \/ OrderNotSaved(s)
TrayActions == (\E c \in Cam : Motion(c)) \/ (\E a \in alerts : DismissCard(a)) \/ DismissAll

\* A step is of one of the parts.
LEMMA PartsOfCameras ==
  ASSUME [CameraNext]_cameraVars
  PROVE  /\ PlayerActions \/ UNCHANGED <<part, playerVars>>
         /\ PlayerActions \/ ChunkActions \/ UNCHANGED chunkVars
         /\ TalkActions \/ UNCHANGED talkVars
         /\ OrderActions \/ UNCHANGED orderVars
         /\ TrayActions \/ UNCHANGED trayVars
<1>1. CASE PlayerActions
  BY <1>1 DEF PlayerActions, Play, StaggerOver, Stop, SocketOpens, MseAnswer, SocketCloses,
     OldSocketCloses
<1>2. CASE ChunkActions
  BY <1>2 DEF ChunkActions, ChunkArrives, UpdateOver, FlushQueue
<1>3. CASE TalkActions
  BY <1>3 DEF TalkActions, HoldTalk, LetGo, TalkFails, SwitchCamera, ToggleListening, ListenFails,
     MicAllowed, MicRefused
<1>4. CASE OrderActions
  BY <1>4 DEF OrderActions, DragCamera, OrderSaved, OrderNotSaved
<1>5. CASE TrayActions
  BY <1>5 DEF TrayActions, Motion, DismissCard, DismissAll
<1>6. CASE UNCHANGED cameraVars
  BY <1>6 DEF cameraVars
<1> QED
  BY <1>1, <1>2, <1>3, <1>4, <1>5, <1>6
  DEF CameraNext, PlayerActions, ChunkActions, TalkActions, OrderActions, TrayActions

\* A player on the screen has a stage, and no socket but its own.
PlayerInv ==
    /\ begun \in Nat /\ showing \in 0 .. begun
    /\ stage \in {"none", "stagger", "connecting", "open", "over"}
    /\ stage # "none" => showing # 0
    /\ \A s \in sockets : s = showing /\ s # 0

\* A snapshot is shown by a player that has failed, or in full after one has.
SnapshotInv ==
    /\ fallback \in BOOLEAN
    /\ (fallback = TRUE /\ part = "full") => earned # {}
    /\ (fallback = TRUE /\ part # "full" /\ showing # 0) => showing \in earned

\* Every step keeps the sockets of a player to the one it shows.
LEMMA PlayerStep ==
  ASSUME PlayerInv, [CameraNext]_cameraVars
  PROVE  PlayerInv'
<1> USE DEF PlayerInv
<1>1. CASE Play
  BY <1>1 DEF Play
<1>2. CASE StaggerOver
  BY <1>2 DEF StaggerOver
<1>3. CASE Stop
  BY <1>3 DEF Stop
<1>4. CASE SocketOpens
  BY <1>4 DEF SocketOpens
<1>5. CASE MseAnswer \/ SocketCloses
  <2>1. /\ stage' \in {stage, "over"} /\ UNCHANGED <<showing, begun>> /\ showing # 0
        /\ sockets' \subseteq sockets
    BY <1>5 DEF MseAnswer, SocketCloses, GiveUp
  <2> QED
    BY <2>1
<1>6. CASE OldSocketCloses
  BY <1>6 DEF OldSocketCloses
<1>7. CASE UNCHANGED <<part, playerVars>>
  BY <1>7 DEF playerVars
<1> QED
  BY <1>1, <1>2, <1>3, <1>4, <1>5, <1>6, <1>7, PartsOfCameras DEF PlayerActions

\* Every step keeps snapshots to players that have failed.
LEMMA SnapshotStep ==
  ASSUME PlayerInv, SnapshotInv, [CameraNext]_cameraVars
  PROVE  SnapshotInv'
<1>1. CASE Play
  <2>1. part' = part /\ earned' = earned /\ fallback' = (part = "full" /\ fallback)
    BY <1>1 DEF Play
  <2>2. CASE part = "full"
    BY <2>1, <2>2 DEF SnapshotInv
  <2>3. CASE part # "full"
    <3>1. fallback' = FALSE
      BY <2>1, <2>3
    <3> QED
      BY <3>1 DEF SnapshotInv
  <2> QED
    BY <2>2, <2>3
<1>2. CASE Stop
  <2>1. fallback' \in {fallback, FALSE} /\ showing' = 0 /\ UNCHANGED <<part, earned>>
    BY <1>2 DEF Stop
  <2>2. fallback' \in BOOLEAN /\ (fallback' = TRUE => fallback = TRUE)
    BY <2>1 DEF SnapshotInv
  <2> QED
    BY <2>1, <2>2 DEF SnapshotInv
<1>3. ASSUME GiveUp, UNCHANGED <<part, showing>>
      PROVE  SnapshotInv'
  BY <1>3 DEF GiveUp, SnapshotInv
<1>4. ASSUME UNCHANGED <<part, showing, fallback, earned>>
      PROVE  SnapshotInv'
  BY <1>4 DEF SnapshotInv
<1>5. CASE MseAnswer \/ SocketCloses
  BY <1>3, <1>4, <1>5 DEF MseAnswer, SocketCloses
<1>6. CASE StaggerOver \/ SocketOpens \/ OldSocketCloses \/ UNCHANGED <<part, playerVars>>
  BY <1>4, <1>6 DEF StaggerOver, SocketOpens, OldSocketCloses, playerVars
<1> QED
  BY <1>1, <1>2, <1>5, <1>6, PartsOfCameras DEF PlayerActions

\* The chunks that wait are in the order they came; what was given up came before
\* them, and what was appended is none of them.
ChunksInv ==
    /\ buffer \in {"none", "ready", "updating", "ended"}
    /\ queue \in Seq(Nat) /\ arrived \in Nat /\ dropped \subseteq Nat /\ appended \subseteq Nat
    /\ \A i, j \in 1 .. Len(queue) : i < j => queue[i] < queue[j]
    /\ \A i \in 1 .. Len(queue) : queue[i] <= arrived
    /\ \A c \in dropped : c < arrived /\ \A i \in 1 .. Len(queue) : c < queue[i]
    /\ \A c \in appended : c <= arrived /\ \A i \in 1 .. Len(queue) : c # queue[i]

\* The oldest chunk leaves the queue.
LEMMA OldestLeaves ==
  ASSUME ChunksInv, queue # <<>>, queue' = Tail(queue), arrived' = arrived,
         buffer' \in {"none", "ready", "updating", "ended"},
         dropped' \in {dropped, dropped \cup {Head(queue)}},
         appended' \in {appended, appended \cup {Head(queue)}},
         Head(queue) \in dropped' => Head(queue) < arrived
  PROVE  ChunksInv'
<1> USE DEF ChunksInv
<1>1. /\ Len(queue) \in Nat /\ Len(queue) > 0 /\ Head(queue) = queue[1] /\ 1 \in 1 .. Len(queue)
      /\ queue' \in Seq(Nat) /\ Len(queue') = Len(queue) - 1
      /\ \A i \in 1 .. Len(queue') : queue'[i] = queue[i + 1] /\ i + 1 \in 1 .. Len(queue) /\ 1 < i + 1
  OBVIOUS
<1>2. \A i \in 1 .. Len(queue') : Head(queue) < queue'[i]
  BY <1>1
<1>3. Head(queue) \in Nat /\ Head(queue) <= arrived
  BY <1>1
<1>4. \A i, j \in 1 .. Len(queue') : i < j => queue'[i] < queue'[j]
  BY <1>1
<1>5. \A i \in 1 .. Len(queue') : queue'[i] <= arrived' /\ queue'[i] \in Nat
  BY <1>1
<1>6. \A c \in dropped' : c < arrived' /\ \A i \in 1 .. Len(queue') : c < queue'[i]
  BY <1>1, <1>2, <1>3
<1>7. \A c \in appended' : c <= arrived' /\ \A i \in 1 .. Len(queue') : c # queue'[i]
  BY <1>1, <1>2, <1>3, <1>5
<1> QED
  BY <1>1, <1>3, <1>4, <1>5, <1>6, <1>7

\* A chunk is queued behind the others.
LEMMA ChunkQueued ==
  ASSUME ChunksInv, NEW q, q = Append(queue, arrived + 1)
  PROVE  /\ q \in Seq(Nat) /\ Len(q) = Len(queue) + 1
         /\ \A i, j \in 1 .. Len(q) : i < j => q[i] < q[j]
         /\ \A i \in 1 .. Len(q) : q[i] <= arrived + 1
         /\ \A c \in dropped : \A i \in 1 .. Len(q) : c < q[i]
         /\ \A c \in appended : \A i \in 1 .. Len(q) : c # q[i]
<1> USE DEF ChunksInv
<1>1. /\ q \in Seq(Nat) /\ Len(q) = Len(queue) + 1 /\ Len(queue) \in Nat
      /\ \A i \in 1 .. Len(q) : \/ i \in 1 .. Len(queue) /\ q[i] = queue[i]
                                \/ i = Len(queue) + 1 /\ q[i] = arrived + 1
  OBVIOUS
<1>2. \A i \in 1 .. Len(queue) : queue[i] \in Nat /\ queue[i] < arrived + 1
  OBVIOUS
<1>3. \A i, j \in 1 .. Len(q) : i < j => q[i] < q[j]
  BY <1>1, <1>2
<1> QED
  BY <1>1, <1>2, <1>3

\* Every step keeps the newest chunks and their order.
LEMMA ChunksStep ==
  ASSUME ChunksInv, [CameraNext]_cameraVars
  PROVE  ChunksInv'
<1> USE DEF ChunksInv
<1>1. CASE ChunkArrives
  <2>1. arrived' = arrived + 1 /\ buffer' \in {"none", "ready", "updating", "ended"}
    BY <1>1 DEF ChunkArrives
  <2>2. CASE appended' = appended \cup {arrived'} /\ UNCHANGED <<queue, dropped>>
    BY <2>1, <2>2
  <2>3. CASE PushChunk(arrived') /\ UNCHANGED <<buffer, appended>>
    <3> DEFINE q == Append(queue, arrived + 1)
    <3>1. /\ q \in Seq(Nat) /\ Len(q) = Len(queue) + 1 /\ Len(queue) \in Nat
          /\ \A i, j \in 1 .. Len(q) : i < j => q[i] < q[j]
          /\ \A i \in 1 .. Len(q) : q[i] <= arrived + 1
          /\ \A c \in dropped : \A i \in 1 .. Len(q) : c < q[i]
          /\ \A c \in appended : \A i \in 1 .. Len(q) : c # q[i]
      BY ChunkQueued
    <3>2. CASE Len(q) > MaxQueuedChunks
      <4>1. queue' = Tail(q) /\ dropped' = dropped \cup {Head(q)}
        BY <2>1, <2>3, <3>2 DEF PushChunk
      <4>2. Len(q) >= 2 /\ Head(q) = q[1] /\ q[1] \in Nat
        BY <3>1, <3>2, CameraPagesAssumption
      <4>3. q[1] = queue[1] /\ q[1] <= arrived
        BY <3>1, <4>2
      <4> HIDE DEF q
      <4> HIDE DEF ChunksInv
      <4>4. /\ queue' \in Seq(Nat) /\ Len(queue') = Len(q) - 1 /\ Len(queue') \in Nat
            /\ \A i \in 1 .. Len(queue') : queue'[i] = q[i + 1] /\ i + 1 \in 1 .. Len(q) /\ 1 < i + 1
        BY <3>1, <4>1, <4>2
      <4>5. \A i \in 1 .. Len(queue') : q[1] < queue'[i]
        BY <3>1, <4>2, <4>4
      <4>6. \A i, j \in 1 .. Len(queue') : i < j => queue'[i] < queue'[j]
        <5> SUFFICES ASSUME NEW i \in 1 .. Len(queue'), NEW j \in 1 .. Len(queue'), i < j
                     PROVE  queue'[i] < queue'[j]
          OBVIOUS
        <5>1. i + 1 < j + 1 /\ i + 1 \in 1 .. Len(q) /\ j + 1 \in 1 .. Len(q)
          BY <4>4
        <5>2. q[i + 1] < q[j + 1]
          BY <3>1, <5>1
        <5> QED
          BY <4>4, <5>2
      <4>7. \A c \in dropped' : c < arrived' /\ \A i \in 1 .. Len(queue') : c < queue'[i]
        <5>1. arrived \in Nat /\ \A c \in dropped : c \in Nat /\ c < arrived
          BY DEF ChunksInv
        <5>2. \A c \in dropped' : c < arrived'
          BY <2>1, <4>1, <4>2, <4>3, <5>1
        <5>3. \A c \in dropped' : \A i \in 1 .. Len(queue') : c < queue'[i]
          BY <3>1, <4>1, <4>2, <4>4, <4>5
        <5> QED
          BY <5>2, <5>3
      <4>8. \A c \in appended' : c <= arrived' /\ \A i \in 1 .. Len(queue') : c # queue'[i]
        <5>1. \A c \in appended : c \in Nat /\ c <= arrived + 1
          BY DEF ChunksInv
        <5> QED
          BY <2>1, <2>3, <3>1, <4>4, <5>1
      <4>9. \A i \in 1 .. Len(queue') : queue'[i] <= arrived'
        BY <2>1, <3>1, <4>4
      <4>10. /\ dropped' \subseteq Nat /\ appended' \subseteq Nat /\ arrived' \in Nat
        <5>1. appended' = appended /\ arrived' \in Nat
          BY <2>1, <2>3 DEF ChunksInv
        <5>2. dropped' \subseteq Nat
          BY <4>1, <4>2 DEF ChunksInv
        <5> QED
          BY <5>1, <5>2 DEF ChunksInv
      <4> QED
        BY <2>1, <4>4, <4>6, <4>7, <4>8, <4>9, <4>10 DEF ChunksInv
    <3>3. CASE ~(Len(q) > MaxQueuedChunks)
      <4>1. queue' = q /\ dropped' = dropped
        BY <2>1, <2>3, <3>3 DEF PushChunk
      <4> HIDE DEF q
      <4> QED
        BY <2>1, <2>3, <3>1, <4>1
    <3> QED
      BY <3>2, <3>3
  <2> QED
    BY <1>1, <2>2, <2>3 DEF ChunkArrives
<1>2. CASE UpdateOver
  BY <1>2 DEF UpdateOver
<1>3. CASE FlushQueue
  <2>1. CASE queue = <<>>
    BY <1>3, <2>1 DEF FlushQueue
  <2>2. CASE queue # <<>>
    <3>1. /\ queue' = Tail(queue) /\ dropped' = dropped /\ arrived' = arrived
          /\ appended' \in {appended, appended \cup {Head(queue)}}
          /\ buffer' \in {"none", "ready", "updating", "ended"}
      BY <1>3, <2>2 DEF FlushQueue
    <3>2. Head(queue) \notin dropped
      BY <2>2
    <3> QED
      BY <2>2, <3>1, <3>2, OldestLeaves
  <2> QED
    BY <2>1, <2>2
<1>4. CASE Play
  BY <1>4 DEF Play
<1>5. CASE PlayerActions /\ ~Play
  BY <1>5 DEF PlayerActions, StaggerOver, Stop, SocketOpens, MseAnswer, SocketCloses,
     OldSocketCloses, chunkVars
<1>6. CASE UNCHANGED chunkVars
  BY <1>6 DEF chunkVars
<1> QED
  BY <1>1, <1>2, <1>3, <1>4, <1>5, <1>6, PartsOfCameras DEF ChunkActions

\* A microphone is of a press.
TalkTyped ==
    /\ presses \in Nat /\ talkMic \in 0 .. presses /\ \A m \in mics : m \in 1 .. presses
    /\ \A a \in asking : a.press \in 1 .. presses

\* Until one has strayed, the only microphone that is open is the one Talk holds.
MicInv ==
    /\ {talkHeld, talking, listening, listenSocket, strayed} \subseteq BOOLEAN
    /\ MicIsHeld

\* Every step keeps microphones to the presses made.
LEMMA TalkStep ==
  ASSUME TalkTyped, [CameraNext]_cameraVars
  PROVE  TalkTyped'
<1> USE DEF TalkTyped
<1>1. CASE HoldTalk
  <2>1. CASE talkMic # 0
    BY <1>1, <2>1 DEF HoldTalk
  <2>2. CASE talkMic = 0
    <3> DEFINE a == [press |-> presses + 1, of |-> speaker]
    <3>1. presses' = presses + 1 /\ asking' = asking \cup {a} /\ UNCHANGED <<mics, talkMic>>
      BY <1>1, <2>2 DEF HoldTalk
    <3>2. a.press = presses'
      BY <3>1
    <3> HIDE DEF a
    <3> QED
      BY <3>1, <3>2
  <2> QED
    BY <2>1, <2>2
<1>2. CASE LetGo \/ ToggleListening \/ ListenFails \/ UNCHANGED talkVars
  BY <1>2 DEF LetGo, ToggleListening, ListenFails, talkVars
<1>3. CASE TalkFails \/ SwitchCamera
  <2>1. asking' = asking /\ presses' = presses /\ mics' \subseteq mics /\ talkMic' = 0
    BY <1>3 DEF TalkFails, SwitchCamera, CloseTalk
  <2> QED
    BY <2>1
<1>4. ASSUME NEW a \in asking, MicAllowed(a) \/ MicRefused(a)
      PROVE  TalkTyped'
  <2>1. /\ asking' = asking \ {a} /\ presses' = presses /\ mics' \subseteq mics \cup {a.press}
        /\ talkMic' \in {talkMic, a.press}
    BY <1>4 DEF MicAllowed, MicRefused
  <2> QED
    BY <2>1
<1> QED
  BY <1>1, <1>2, <1>3, <1>4, PartsOfCameras DEF TalkActions

\* Every step keeps a microphone to a button that is held.
LEMMA MicStep ==
  ASSUME TalkTyped, MicInv, [CameraNext]_cameraVars
  PROVE  MicInv'
<1>1. CASE HoldTalk
  BY <1>1 DEF HoldTalk, MicInv, MicIsHeld
<1>2. CASE LetGo
  BY <1>2 DEF LetGo, MicInv, MicIsHeld
<1>3. CASE TalkFails
  BY <1>3 DEF TalkFails, CloseTalk, MicInv, MicIsHeld
<1>4. CASE SwitchCamera
  BY <1>4 DEF SwitchCamera, CloseTalk, MicInv, MicIsHeld
<1>5. CASE ToggleListening \/ ListenFails
  <2>1. UNCHANGED <<talkHeld, talking, mics, talkMic, strayed>>
        /\ listenSocket' \in BOOLEAN /\ listening' \in BOOLEAN
    BY <1>5 DEF ToggleListening, ListenFails
  <2> QED
    BY <2>1 DEF MicInv, MicIsHeld
<1>6. ASSUME NEW a \in asking, MicAllowed(a)
      PROVE  MicInv'
  <2>1. /\ mics' = mics \cup {a.press} /\ talkMic' = a.press /\ talking' = TRUE
        /\ strayed' = (strayed \/ ~talkHeld \/ a.of # speaker \/ talkMic # 0)
        /\ UNCHANGED <<talkHeld, listening, listenSocket>>
    BY <1>6 DEF MicAllowed
  <2>2. strayed' \in BOOLEAN
    BY <2>1
  <2>3. \A m \in mics : m # 0
    BY DEF TalkTyped
  <2>4. MicIsHeld'
    BY <2>1, <2>3 DEF MicInv, MicIsHeld
  <2> QED
    BY <2>1, <2>2, <2>4 DEF MicInv
<1>7. CASE (\E a \in asking : MicRefused(a)) \/ UNCHANGED talkVars
  BY <1>7 DEF MicRefused, talkVars, MicInv, MicIsHeld
<1> QED
  BY <1>1, <1>2, <1>3, <1>4, <1>5, <1>6, <1>7, PartsOfCameras DEF TalkActions

\* The order on the grid is stored or the newest that is on its way, unless a save failed
\* or was overtaken.
OrderInv ==
    /\ shownOrder \in GridOrders /\ storedOrder \in GridOrders /\ orderSent \in Nat
    /\ orderLost \in BOOLEAN /\ orderSaves \subseteq [no : 1 .. orderSent, order : GridOrders]
    /\ \A s, t \in orderSaves : s.no = t.no => s = t
    /\ \/ orderLost
       \/ orderSaves = {} /\ shownOrder = storedOrder
       \/ \E s \in orderSaves : s.no = orderSent /\ s.order = shownOrder

\* Every step keeps the order on the grid stored or on its way.
LEMMA OrderStep ==
  ASSUME OrderInv, [CameraNext]_cameraVars
  PROVE  OrderInv'
<1> USE DEF OrderInv
<1>1. ASSUME NEW o \in GridOrders, DragCamera(o)
      PROVE  OrderInv'
  <2> DEFINE s == [no |-> orderSent + 1, order |-> o]
  <2>1. /\ orderSent' = orderSent + 1 /\ shownOrder' = o /\ orderSaves' = orderSaves \cup {s}
        /\ UNCHANGED <<storedOrder, orderLost>>
    BY <1>1 DEF DragCamera
  <2>2. s.no = orderSent' /\ s.order = o /\ s \in [no : 1 .. orderSent', order : GridOrders]
    BY <2>1
  <2>3. \A t \in orderSaves : t \in [no : 1 .. orderSent', order : GridOrders] /\ t.no # s.no
    BY <2>1
  <2> HIDE DEF s
  <2>4. \A t, u \in orderSaves' : t.no = u.no => t = u
    BY <2>1, <2>3
  <2> QED
    BY <2>1, <2>2, <2>3, <2>4
<1>2. ASSUME NEW s \in orderSaves, OrderSaved(s)
      PROVE  OrderInv'
  <2>1. /\ orderSaves' = orderSaves \ {s} /\ storedOrder' = s.order
        /\ orderLost' = (orderLost \/ \E t \in orderSaves : t.no < s.no)
        /\ UNCHANGED <<shownOrder, orderSent>>
    BY <1>2 DEF OrderSaved
  <2>2. orderLost' \in BOOLEAN
    BY <2>1
  <2>3. \/ orderLost'
        \/ orderSaves' = {} /\ shownOrder' = storedOrder'
        \/ \E t \in orderSaves' : t.no = orderSent' /\ t.order = shownOrder'
    <3>1. CASE orderLost
      BY <2>1, <3>1
    <3>2. ASSUME NEW t \in orderSaves, t.no = orderSent, t.order = shownOrder
          PROVE  <2>3
      <4>1. CASE t # s
        BY <2>1, <3>2, <4>1
      <4>2. CASE t = s
        <5>1. \A u \in orderSaves : u # s => u.no < s.no
          BY <3>2, <4>2
        <5> QED
          BY <2>1, <3>2, <4>2, <5>1
      <4> QED
        BY <4>1, <4>2
    <3> QED
      BY <3>1, <3>2
  <2> QED
    BY <2>1, <2>2, <2>3
<1>3. ASSUME NEW s \in orderSaves, OrderNotSaved(s)
      PROVE  OrderInv'
  BY <1>3 DEF OrderNotSaved
<1>4. CASE UNCHANGED orderVars
  BY <1>4 DEF orderVars
<1> QED
  BY <1>1, <1>2, <1>3, <1>4, PartsOfCameras DEF OrderActions

\* A camera has one card.
TrayInv == \A a, b \in alerts : a.cam = b.cam => a = b

\* Every step keeps a camera to one card.
LEMMA TrayStep ==
  ASSUME TrayInv, [CameraNext]_cameraVars
  PROVE  TrayInv'
<1>1. ASSUME NEW c \in Cam, Motion(c)
      PROVE  TrayInv'
  <2> DEFINE n == [cam |-> c, event |-> events']
  <2>1. alerts' = {a \in alerts : a.cam # c} \cup {n} /\ n.cam = c
    BY <1>1 DEF Motion
  <2> HIDE DEF n
  <2> QED
    BY <2>1 DEF TrayInv
<1>2. CASE (\E a \in alerts : DismissCard(a)) \/ DismissAll \/ UNCHANGED trayVars
  BY <1>2 DEF DismissCard, DismissAll, trayVars, TrayInv
<1> QED
  BY <1>1, <1>2, PartsOfCameras DEF TrayActions

CamerasInv ==
    PlayerInv /\ SnapshotInv /\ ChunksInv /\ TalkTyped /\ MicInv /\ OrderInv /\ TrayInv

\* The cameras start with nothing open.
LEMMA CamerasInit == CameraInit => CamerasInv
<1> SUFFICES ASSUME CameraInit PROVE CamerasInv
  OBVIOUS
<1>1. PlayerInv /\ SnapshotInv
  <2>1. PlayerInv
    BY DEF CameraInit, PlayerInv
  <2>2. SnapshotInv
    BY DEF CameraInit, SnapshotInv
  <2> QED
    BY <2>1, <2>2
<1>2. ChunksInv
  <2>1. queue = <<>> /\ Len(queue) = 0 /\ queue \in Seq(Nat)
    BY DEF CameraInit
  <2> QED
    BY <2>1 DEF CameraInit, ChunksInv
<1>3. TalkTyped /\ MicInv
  <2>1. TalkTyped
    BY DEF CameraInit, TalkTyped
  <2>2. MicInv
    BY DEF CameraInit, MicInv, MicIsHeld
  <2> QED
    BY <2>1, <2>2
<1>4. OrderInv
  <2>1. storedOrder \in GridOrders
    BY CameraPagesAssumption DEF CameraInit
  <2> QED
    BY <2>1 DEF CameraInit, OrderInv
<1>5. TrayInv
  BY DEF CameraInit, TrayInv
<1> QED
  BY <1>1, <1>2, <1>3, <1>4, <1>5 DEF CamerasInv

\* The invariant of the cameras and the intercom.
LEMMA CamerasInvariant == CameraSpec => []CamerasInv
<1>1. CamerasInv /\ [CameraNext]_cameraVars => CamerasInv'
  BY PlayerStep, SnapshotStep, ChunksStep, TalkStep, MicStep, OrderStep, TrayStep DEF CamerasInv
<1> QED
  BY <1>1, CamerasInit, PTL DEF CameraSpec

\* The types of the parts of the cameras.
THEOREM CamerasTypeCorrect == CameraSpec => []CameraTypeOK
<1>1. CamerasInv => CameraTypeOK
  BY DEF CamerasInv, PlayerInv, ChunksInv, TalkTyped, MicInv, OrderInv, CameraTypeOK
<1> QED
  BY <1>1, CamerasInvariant, PTL

\* A socket is of the player on the screen and a snapshot is earned; a full queue gives
\* up its oldest chunks and appends none twice; the microphone that is open is the one
\* Talk holds; the grid shows what is stored and the tray one card of a camera.
THEOREM CamerasAreOwned ==
  CameraSpec => [](StreamsAreOwned /\ NewestIsKept /\ MicIsHeld /\ GridAndTrayAgree)
<1>1. PlayerInv /\ SnapshotInv => StreamsAreOwned
  BY DEF PlayerInv, SnapshotInv, StreamsAreOwned
<1>2. ChunksInv => NewestIsKept
  <2> SUFFICES ASSUME ChunksInv PROVE NewestIsKept
    OBVIOUS
  <2>1. ToSet(queue) = {queue[i] : i \in 1 .. Len(queue)}
    BY DEF ChunksInv, ToSet
  <2>2. arrived \notin dropped
    BY DEF ChunksInv
  <2>3. \A c \in dropped, d \in ToSet(queue) : c < d
    BY <2>1 DEF ChunksInv
  <2>4. appended \cap ToSet(queue) = {}
    BY <2>1 DEF ChunksInv
  <2> QED
    BY <2>2, <2>3, <2>4 DEF NewestIsKept
<1>3. OrderInv /\ TrayInv => GridAndTrayAgree
  BY DEF OrderInv, TrayInv, GridAndTrayAgree
<1> QED
  BY <1>1, <1>2, <1>3, CamerasInvariant, PTL DEF CamerasInv, MicInv

-----------------------------------------------------------------------------
(***************************************************************************)
(* The screensaver.  The list the handlers read is empty only when the one *)
(* that is shown is; so a turn always finds a photo, and goes on to the    *)
(* next one, or waits for a photo that is loading.                         *)
(***************************************************************************)
Album == SeqOf(Photo, Cardinality(Photo))
Loading == [way : {"next", "previous"}, photo : Photo, index : Nat]

\* The photos of an album.
LEMMA AlbumIs ==
  ASSUME NEW s \in Album
  PROVE  /\ s \in Seq(Photo) /\ Len(s) \in Nat /\ (Len(s) = 0 <=> s = <<>>)
         /\ \A i \in Nat : PhotoAt(s, i) \in Photo \cup {NoPhoto}
<1>1. PICK m \in 0 .. Cardinality(Photo) : s \in [1 .. m -> Photo]
  BY DEF Album, SeqOf
<1>2. Cardinality(Photo) \in Nat
  BY ScreensaverAssumption, FS_CardinalityType
<1>3. s \in Seq(Photo) /\ Len(s) = m
  BY <1>1, <1>2
<1>4. Len(s) \in Nat /\ (Len(s) = 0 <=> s = <<>>)
  BY <1>3
<1>5. ASSUME NEW i \in Nat PROVE PhotoAt(s, i) \in Photo \cup {NoPhoto}
  BY <1>3, <1>4 DEF PhotoAt
<1> QED
  BY <1>3, <1>4, <1>5

\* An album may have no photos.
LEMMA NoAlbum == <<>> \in Album
<1>1. 0 \in 0 .. Cardinality(Photo) /\ <<>> \in [1 .. 0 -> Photo]
  BY ScreensaverAssumption, FS_CardinalityType
<1> QED
  BY <1>1 DEF Album, SeqOf

\* A shuffle is a list of the photos, and empty only when there are none.
LEMMA ShuffleIs ==
  ASSUME NEW S \in SUBSET Photo, NEW avoid, NEW s \in Shuffles(S, avoid)
  PROVE  s \in Album /\ (S # {} => s # <<>>)
<1>1. /\ IsFiniteSet(S) /\ Cardinality(S) \in Nat /\ Cardinality(Photo) \in Nat
      /\ Cardinality(S) <= Cardinality(Photo)
  BY ScreensaverAssumption, FS_CardinalityType, FS_Subset
<1>2. s \in [1 .. Cardinality(S) -> S]
  BY DEF Shuffles, SetToSeqs
<1>3. s \in [1 .. Cardinality(S) -> Photo]
  BY <1>2
<1>4. s \in Album
  BY <1>1, <1>3 DEF Album, SeqOf
<1>5. S # {} => Cardinality(S) # 0
  BY <1>1, FS_EmptySet
<1>6. Cardinality(S) # 0 => s # <<>>
  <2>1. s = <<>> => DOMAIN s = {}
    OBVIOUS
  <2>2. DOMAIN s = 1 .. Cardinality(S)
    BY <1>2
  <2>3. Cardinality(S) # 0 => 1 \in 1 .. Cardinality(S)
    BY <1>1
  <2> QED
    BY <2>1, <2>2, <2>3
<1> QED
  BY <1>4, <1>5, <1>6

ListsKept ==
    /\ photos \in Album /\ photosRef \in Album
    /\ photosRef = <<>> => photos = <<>>

SaverTyped ==
    /\ currentIndex \in Nat /\ lastShown \in Photo \cup {NoPhoto}
    /\ preloads \subseteq Loading
    /\ IsFiniteSet(preloads) /\ Cardinality(preloads) <= MaxPreloads

FlagsTyped ==
    /\ idle \in BOOLEAN /\ rotateTimer \in BOOLEAN /\ inflight \in BOOLEAN
    /\ albumStale \in BOOLEAN /\ stuckBack \in BOOLEAN
    /\ albums \in 0 .. MaxAlbums

SaverInv == ListsKept /\ SaverTyped /\ FlagsTyped /\ RotationGoesOn

\* The screen starts awake.
LEMMA SaverInitially == SaverInit => SaverInv
<1> SUFFICES ASSUME SaverInit PROVE SaverInv
  OBVIOUS
<1>1. ListsKept
  BY NoAlbum DEF SaverInit, ListsKept
<1>2. SaverTyped
  BY ScreensaverAssumption, FS_EmptySet DEF SaverInit, SaverTyped
<1>3. FlagsTyped
  <2>1. 0 \in 0 .. MaxAlbums
    BY ScreensaverAssumption
  <2> QED
    BY <2>1 DEF SaverInit, FlagsTyped
<1>4. RotationGoesOn
  BY DEF SaverInit, RotationGoesOn
<1> QED
  BY <1>1, <1>2, <1>3, <1>4 DEF SaverInv

\* The effects leave the flags flags.
LEMMA EffectsTyped ==
  ASSUME NEW held \in BOOLEAN, NEW due \in 0 .. MaxAlbums, NEW running \in BOOLEAN,
         RunEffects(held, due, running)
  PROVE  rotateTimer' \in BOOLEAN /\ inflight' \in BOOLEAN /\ albums' \in 0 .. MaxAlbums
<1>1. rotateTimer' \in BOOLEAN /\ inflight' \in BOOLEAN
  BY DEF RunEffects
<1>2. albums' = due \/ (due < MaxAlbums /\ albums' = due + 1)
  BY DEF RunEffects
<1>3. albums' \in 0 .. MaxAlbums
  BY <1>2, ScreensaverAssumption
<1> QED
  BY <1>1, <1>3

\* The effects start the rotation of an idle screen with photos, and hold the buttons
\* no more than they were held.
LEMMA EffectsRotate ==
  ASSUME NEW held \in BOOLEAN, NEW due \in 0 .. MaxAlbums, NEW running \in BOOLEAN,
         RunEffects(held, due, running)
  PROVE  (idle' /\ photos' # <<>> => rotateTimer') /\ (inflight' => held)
BY DEF RunEffects

\* What the effects that watch the photos and the screen leave.
LEMMA PhotosChangedIs ==
  ASSUME NEW held \in BOOLEAN, NEW due \in 0 .. MaxAlbums, NEW running \in BOOLEAN,
         PhotosChanged(held, due, running)
  PROVE  /\ rotateTimer' \in BOOLEAN /\ inflight' \in BOOLEAN /\ albums' \in 0 .. MaxAlbums
         /\ inflight' => held
         /\ Len(photos') # Len(photos) /\ idle' /\ photos' # <<>> => rotateTimer'
         /\ Len(photos') = Len(photos) => (rotateTimer' <=> running)
<1>1. CASE Len(photos') # Len(photos)
  BY <1>1, EffectsTyped, EffectsRotate DEF PhotosChanged
<1>2. CASE Len(photos') = Len(photos)
  BY <1>2 DEF PhotosChanged
<1> QED
  BY <1>1, <1>2

\* A photo is due for.
LEMMA LoadKeeps ==
  ASSUME SaverTyped, NEW way \in {"next", "previous"}, NEW photo \in Photo, NEW index \in Nat,
         Cardinality(preloads) < MaxPreloads, UNCHANGED <<currentIndex, lastShown>>,
         preloads' = preloads \cup {[way |-> way, photo |-> photo, index |-> index]}
  PROVE  SaverTyped' /\ preloads' # {}
<1> DEFINE p == [way |-> way, photo |-> photo, index |-> index]
<1>1. p \in Loading
  BY DEF Loading
<1>2. preloads' = preloads \cup {p}
  OBVIOUS
<1> HIDE DEF p
<1>3. IsFiniteSet(preloads') /\ Cardinality(preloads') <= MaxPreloads
  <2>1. /\ IsFiniteSet(preloads')
        /\ Cardinality(preloads') = IF p \in preloads THEN Cardinality(preloads)
                                    ELSE Cardinality(preloads) + 1
    BY <1>2, FS_AddElement DEF SaverTyped
  <2>2. Cardinality(preloads) \in Nat
    BY FS_CardinalityType DEF SaverTyped
  <2> QED
    BY <2>1, <2>2, ScreensaverAssumption
<1> QED
  BY <1>1, <1>2, <1>3 DEF SaverTyped

\* A photo has come, or will not.
LEMMA LoadedKeeps ==
  ASSUME SaverTyped, NEW p \in preloads, preloads' = preloads \ {p},
         currentIndex' \in {currentIndex, p.index}, lastShown' \in {lastShown, p.photo}
  PROVE  SaverTyped'
<1>1. IsFiniteSet(preloads') /\ Cardinality(preloads') <= Cardinality(preloads)
  BY FS_Subset DEF SaverTyped
<1>2. Cardinality(preloads') \in Nat /\ Cardinality(preloads) \in Nat
  BY <1>1, FS_CardinalityType DEF SaverTyped
<1>3. p \in Loading
  BY DEF SaverTyped
<1>4. currentIndex' \in Nat /\ lastShown' \in Photo \cup {NoPhoto}
  BY <1>3 DEF SaverTyped, Loading
<1>5. Cardinality(preloads') <= MaxPreloads
  BY <1>1, <1>2, ScreensaverAssumption DEF SaverTyped
<1> QED
  BY <1>1, <1>4, <1>5 DEF SaverTyped

\* A turn, or a press of a button.
LEMMA NextPhotoKeeps ==
  ASSUME SaverInv, photosRef # <<>>, NEW running \in BOOLEAN, NextPhoto(running)
  PROVE  SaverInv'
<1> DEFINE current == PhotoAt(photosRef, currentIndex)
           next == currentIndex + 1
           turn == next >= Len(photosRef)
           index == IF turn THEN 0 ELSE next
           photo == PhotoAt(photosRef', index)
<1>1. /\ UNCHANGED <<idle, currentIndex, lastShown, albumStale, stuckBack>>
      /\ IF turn THEN photosRef' \in Shuffles(ToSet(photosRef), current) /\ photos' = photosRef'
         ELSE UNCHANGED <<photosRef, photos>>
      /\ IF photo \in {NoPhoto, current}
         THEN UNCHANGED preloads /\ PhotosChanged(FALSE, albums, TRUE)
         ELSE /\ Cardinality(preloads) < MaxPreloads
              /\ preloads' = preloads \cup {[way |-> "next", photo |-> photo, index |-> index]}
              /\ PhotosChanged(TRUE, albums, running)
  BY DEF NextPhoto
<1>2. currentIndex \in Nat /\ index \in Nat
  BY DEF SaverInv, SaverTyped
<1>3. ListsKept' /\ photosRef' # <<>> /\ photosRef' \in Album
  <2>1. CASE ~turn
    BY <1>1, <2>1 DEF SaverInv, ListsKept
  <2>2. CASE turn
    <3>1. ToSet(photosRef) \in SUBSET Photo /\ ToSet(photosRef) # {}
      <4>1. photosRef \in Seq(Photo) /\ Len(photosRef) \in Nat /\ Len(photosRef) # 0
        BY AlbumIs DEF SaverInv, ListsKept
      <4>2. 1 \in DOMAIN photosRef
        BY <4>1
      <4> QED
        BY <4>1, <4>2 DEF ToSet
    <3>2. photosRef' \in Shuffles(ToSet(photosRef), current) /\ photos' = photosRef'
      BY <1>1, <2>2
    <3>3. photosRef' \in Album /\ photosRef' # <<>>
      BY <3>1, <3>2, ShuffleIs
    <3> QED
      BY <3>2, <3>3 DEF ListsKept
  <2> QED
    BY <2>1, <2>2
<1>4. photo \in Photo \cup {NoPhoto}
  BY <1>2, <1>3, AlbumIs
<1>5. albums \in 0 .. MaxAlbums /\ stuckBack \in BOOLEAN /\ idle \in BOOLEAN /\ albumStale \in BOOLEAN
  BY DEF SaverInv, FlagsTyped
<1> HIDE DEF current, next, turn, index, photo
<1>6. CASE photo \in {NoPhoto, current}
  <2>1. PhotosChanged(FALSE, albums, TRUE) /\ preloads' = preloads
    BY <1>1, <1>6
  <2>2. /\ rotateTimer' \in BOOLEAN /\ inflight' \in BOOLEAN /\ albums' \in 0 .. MaxAlbums
        /\ ~inflight' /\ (idle' /\ photos' # <<>> => rotateTimer')
    BY <1>5, <2>1, PhotosChangedIs
  <2>3. SaverTyped' /\ RotationGoesOn'
    BY <1>1, <2>1, <2>2 DEF SaverInv, SaverTyped, RotationGoesOn
  <2> QED
    BY <1>1, <1>3, <1>5, <2>2, <2>3 DEF SaverInv, FlagsTyped
<1>7. CASE photo \notin {NoPhoto, current}
  <2>1. /\ Cardinality(preloads) < MaxPreloads
        /\ preloads' = preloads \cup {[way |-> "next", photo |-> photo, index |-> index]}
        /\ PhotosChanged(TRUE, albums, running)
    BY <1>1, <1>7
  <2>2. rotateTimer' \in BOOLEAN /\ inflight' \in BOOLEAN /\ albums' \in 0 .. MaxAlbums
    BY <1>5, <2>1, PhotosChangedIs
  <2>3. SaverTyped' /\ preloads' # {}
    BY <1>1, <1>2, <1>4, <1>7, <2>1, LoadKeeps DEF SaverInv
  <2> QED
    BY <1>1, <1>3, <1>5, <2>2, <2>3 DEF SaverInv, FlagsTyped, RotationGoesOn
<1> QED
  BY <1>6, <1>7

\* Every step of the screensaver keeps its photos and its timer.
LEMMA SaverStep ==
  ASSUME SaverInv, [SaverNext]_saverVars
  PROVE  SaverInv'
<1>1. /\ ListsKept /\ SaverTyped /\ FlagsTyped /\ RotationGoesOn
      /\ idle \in BOOLEAN /\ rotateTimer \in BOOLEAN /\ inflight \in BOOLEAN
      /\ albumStale \in BOOLEAN /\ stuckBack \in BOOLEAN /\ albums \in 0 .. MaxAlbums
  BY DEF SaverInv, FlagsTyped
<1>2. ASSUME UNCHANGED <<photos, photosRef>> PROVE ListsKept'
  BY <1>1, <1>2 DEF ListsKept
<1>3. ASSUME UNCHANGED <<currentIndex, lastShown, preloads>> PROVE SaverTyped'
  BY <1>1, <1>3 DEF SaverTyped
<1>4. CASE FallIdle
  <2>1. /\ RunEffects(inflight, albums, rotateTimer) /\ idle' = TRUE /\ stuckBack' = FALSE
        /\ UNCHANGED <<photos, photosRef, currentIndex, lastShown, preloads, albumStale>>
    BY <1>4 DEF FallIdle
  <2>2. rotateTimer' \in BOOLEAN /\ inflight' \in BOOLEAN /\ albums' \in 0 .. MaxAlbums
    BY <1>1, <2>1, EffectsTyped
  <2>3. (idle' /\ photos' # <<>> => rotateTimer') /\ (inflight' => inflight)
    BY <1>1, <2>1, EffectsRotate
  <2>4. RotationGoesOn'
    BY <1>1, <2>1, <2>3 DEF RotationGoesOn
  <2> QED
    BY <1>1, <1>2, <1>3, <2>1, <2>2, <2>4 DEF SaverInv, FlagsTyped
<1>5. CASE Wake
  <2>1. /\ RunEffects(FALSE, albums, rotateTimer) /\ idle' = FALSE
        /\ UNCHANGED <<photos, photosRef, currentIndex, lastShown, preloads, albumStale, stuckBack>>
    BY <1>5 DEF Wake
  <2>2. rotateTimer' \in BOOLEAN /\ inflight' \in BOOLEAN /\ albums' \in 0 .. MaxAlbums
    BY <1>1, <2>1, EffectsTyped
  <2>3. ~inflight'
    BY <1>1, <2>1, EffectsRotate
  <2> QED
    BY <1>1, <1>2, <1>3, <2>1, <2>2, <2>3 DEF SaverInv, FlagsTyped, RotationGoesOn
<1>6. CASE HourPasses \/ UNCHANGED saverVars
  <2>1. /\ albumStale' \in BOOLEAN
        /\ UNCHANGED <<idle, photos, photosRef, currentIndex, lastShown, rotateTimer, inflight,
                       preloads, albums, stuckBack>>
    BY <1>1, <1>6 DEF HourPasses, saverVars
  <2> QED
    BY <1>1, <1>2, <1>3, <2>1 DEF SaverInv, FlagsTyped, RotationGoesOn
<1>7. CASE AlbumArrives
  <2>1. PICK S \in SUBSET Photo : \E s \in Shuffles(S, lastShown) :
          photos' = s /\ photosRef' = s /\ currentIndex' = 0 /\ lastShown' = PhotoAt(s, 0)
    BY <1>7 DEF AlbumArrives
  <2>2. PICK s \in Shuffles(S, lastShown) :
          photos' = s /\ photosRef' = s /\ currentIndex' = 0 /\ lastShown' = PhotoAt(s, 0)
    BY <2>1
  <2>3. /\ PhotosChanged(inflight, albums - 1, rotateTimer) /\ albums > 0 /\ albumStale' = FALSE
        /\ UNCHANGED <<idle, preloads, stuckBack>>
    BY <1>7 DEF AlbumArrives
  <2>4. s \in Album /\ lastShown' \in Photo \cup {NoPhoto}
    BY <2>2, ShuffleIs, AlbumIs
  <2>5. albums - 1 \in 0 .. MaxAlbums
    BY <1>1, <2>3, ScreensaverAssumption
  <2>6. /\ rotateTimer' \in BOOLEAN /\ inflight' \in BOOLEAN /\ albums' \in 0 .. MaxAlbums
        /\ inflight' => inflight
        /\ Len(photos') # Len(photos) /\ idle' /\ photos' # <<>> => rotateTimer'
        /\ Len(photos') = Len(photos) => (rotateTimer' <=> rotateTimer)
    BY <1>1, <2>3, <2>5, PhotosChangedIs
  <2>7. Len(photos') = Len(photos) => (photos' = <<>> <=> photos = <<>>)
    BY <1>1, <2>2, <2>4, AlbumIs DEF ListsKept
  <2>8. RotationGoesOn'
    BY <1>1, <2>3, <2>6, <2>7 DEF RotationGoesOn
  <2>9. ListsKept' /\ SaverTyped'
    BY <1>1, <2>2, <2>3, <2>4 DEF ListsKept, SaverTyped
  <2> QED
    BY <1>1, <2>3, <2>6, <2>8, <2>9 DEF SaverInv, FlagsTyped
<1>8. CASE AlbumFails
  <2>1. /\ PhotosChanged(inflight, albums - 1, rotateTimer) /\ albums > 0 /\ photos' = <<>>
        /\ UNCHANGED <<idle, photosRef, currentIndex, lastShown, preloads, albumStale, stuckBack>>
    BY <1>8 DEF AlbumFails
  <2>2. albums - 1 \in 0 .. MaxAlbums
    BY <1>1, <2>1, ScreensaverAssumption
  <2>3. /\ rotateTimer' \in BOOLEAN /\ inflight' \in BOOLEAN /\ albums' \in 0 .. MaxAlbums
        /\ inflight' => inflight
    BY <1>1, <2>1, <2>2, PhotosChangedIs
  <2>4. RotationGoesOn' /\ ListsKept'
    BY <1>1, <2>1, <2>3, NoAlbum DEF RotationGoesOn, ListsKept
  <2> QED
    BY <1>1, <1>3, <2>1, <2>3, <2>4 DEF SaverInv, FlagsTyped
<1>9. CASE TurnComes
  <2>1. CASE Blocked
    <3>1. /\ rotateTimer' = FALSE
          /\ UNCHANGED <<idle, photos, photosRef, currentIndex, lastShown, inflight, preloads,
                         albums, albumStale, stuckBack>>
      BY <1>9, <2>1 DEF TurnComes
    <3>2. RotationGoesOn'
      BY <1>1, <2>1, <3>1 DEF RotationGoesOn, Blocked, ListsKept
    <3> QED
      BY <1>1, <1>2, <1>3, <3>1, <3>2 DEF SaverInv, FlagsTyped
  <2>2. CASE ~Blocked
    BY <1>9, <2>2, NextPhotoKeeps DEF TurnComes, Blocked
  <2> QED
    BY <2>1, <2>2
<1>10. CASE PressNext
  BY <1>1, <1>10, NextPhotoKeeps DEF PressNext, Blocked
<1>11. CASE PressPrevious
  <2> DEFINE index == IF currentIndex > 0 THEN currentIndex - 1 ELSE Len(photosRef) - 1
             photo == PhotoAt(photosRef, index)
  <2>1. /\ photosRef # <<>> /\ photo # NoPhoto /\ Cardinality(preloads) < MaxPreloads
        /\ preloads' = preloads \cup {[way |-> "previous", photo |-> photo, index |-> index]}
        /\ inflight' = TRUE
        /\ UNCHANGED <<idle, photos, photosRef, currentIndex, lastShown, rotateTimer, albums,
                       albumStale, stuckBack>>
    BY <1>11 DEF PressPrevious, Blocked
  <2>2. index \in Nat
    <3>1. Len(photosRef) \in Nat /\ Len(photosRef) # 0 /\ currentIndex \in Nat
      BY <1>1, <2>1, AlbumIs DEF ListsKept, SaverTyped
    <3> QED
      BY <3>1
  <2>3. photo \in Photo
    BY <1>1, <2>1, <2>2, AlbumIs DEF ListsKept
  <2> HIDE DEF index, photo
  <2>4. SaverTyped' /\ preloads' # {}
    BY <1>1, <2>1, <2>2, <2>3, LoadKeeps
  <2> QED
    BY <1>1, <1>2, <2>1, <2>4 DEF SaverInv, FlagsTyped, RotationGoesOn
<1>12. ASSUME NEW p \in preloads, Preloaded(p)
       PROVE  SaverInv'
  <2>1. /\ preloads' = preloads \ {p} /\ currentIndex' = p.index /\ lastShown' = p.photo
        /\ inflight' = FALSE /\ rotateTimer' = TRUE
        /\ UNCHANGED <<idle, photos, photosRef, albums, albumStale, stuckBack>>
    BY <1>12 DEF Preloaded
  <2>2. SaverTyped'
    BY <1>1, <2>1, LoadedKeeps
  <2> QED
    BY <1>1, <1>2, <2>1, <2>2 DEF SaverInv, FlagsTyped, RotationGoesOn
<1>13. ASSUME NEW p \in preloads, PreloadFails(p)
       PROVE  SaverInv'
  <2>1. /\ preloads' = preloads \ {p} /\ inflight' = FALSE
        /\ rotateTimer' = (rotateTimer \/ p.way = "next")
        /\ stuckBack' = (stuckBack \/ p.way = "previous")
        /\ UNCHANGED <<idle, photos, photosRef, currentIndex, lastShown, albums, albumStale>>
    BY <1>13 DEF PreloadFails
  <2>2. SaverTyped'
    BY <1>1, <2>1, LoadedKeeps
  <2>3. p.way \in {"next", "previous"}
    BY <1>1 DEF SaverTyped, Loading
  <2>4. rotateTimer' \in BOOLEAN /\ stuckBack' \in BOOLEAN /\ (rotateTimer' \/ stuckBack')
    BY <2>1, <2>3
  <2> QED
    BY <1>1, <1>2, <2>1, <2>2, <2>4 DEF SaverInv, FlagsTyped, RotationGoesOn
<1> QED
  BY <1>4, <1>5, <1>6, <1>7, <1>8, <1>9, <1>10, <1>11, <1>12, <1>13 DEF SaverNext

\* The invariant of the screensaver.
LEMMA SaverInvariant == SaverSpec => []SaverInv
  BY SaverInitially, SaverStep, PTL DEF SaverSpec

\* The types of the screensaver.
THEOREM SaverTypeCorrect == SaverSpec => []SaverTypeOK
<1>1. SaverInv => SaverTypeOK
  BY DEF SaverInv, ListsKept, SaverTyped, FlagsTyped, Album, Loading, SaverTypeOK
<1> QED
  BY <1>1, SaverInvariant, PTL

\* The photos of an idle screen go on turning, unless going back has failed.
THEOREM RotationIsKept == SaverSpec => []RotationGoesOn
<1>1. SaverInv => RotationGoesOn
  BY DEF SaverInv
<1> QED
  BY <1>1, SaverInvariant, PTL

-----------------------------------------------------------------------------
(***************************************************************************)
(* The views of the calendar.  An event takes place on days that follow    *)
(* one another, so that a bar from its first to its last day is drawn on   *)
(* the days it takes place on and on no other.                             *)
(***************************************************************************)
\* The day of a tick begins before it and ends after it.
LEMMA DayLine ==
  ASSUME NEW t \in Nat
  PROVE  /\ DayOf(t) \in Nat /\ DayOf(t) * TicksPerDay <= t
         /\ t < (DayOf(t) + 1) * TicksPerDay
<1>1. TicksPerDay \in Nat \ {0}
  BY CalendarViewsAssumption
<1>2. \A w \in Nat \ {0} : LET q == t \div w IN q \in Nat /\ q * w <= t /\ t < (q + 1) * w
  OBVIOUS
<1> QED
  BY <1>1, <1>2 DEF DayOf

\* Days begin in their order.
LEMMA DaysInOrder ==
  ASSUME NEW a \in Nat, NEW b \in Nat, a <= b
  PROVE  a * TicksPerDay <= b * TicksPerDay /\ a * TicksPerDay \in Nat
<1>1. TicksPerDay \in Nat
  BY CalendarViewsAssumption
<1>2. \A w \in Nat : a * w <= b * w /\ a * w \in Nat
  OBVIOUS
<1> QED
  BY <1>1, <1>2

Takes(e, d) == e.start < (d + 1) * TicksPerDay /\ e.end > d * TicksPerDay

\* The ticks and days of an event are counted.
LEMMA EventIs ==
  ASSUME NEW e \in Event
  PROVE  /\ e.start \in Nat /\ e.end \in Nat /\ e.start < e.end
         /\ StartDay(e) \in Nat /\ EndDay(e) \in Nat
<1>1. e.start \in Tick /\ e.end \in Tick /\ e.start < e.end
  BY DEF Event
<1>2. e.start \in Nat /\ e.end \in Nat
  BY <1>1 DEF Tick
<1> QED
  BY <1>1, <1>2, DayLine DEF StartDay, EndDay

\* What the code asks of an event and a day is whether it takes place on it.
LEMMA SpansIs ==
  ASSUME NEW e \in Event, NEW d \in Nat
  PROVE  SpansDate(e, d) <=> Takes(e, d)
<1> DEFINE s == StartDay(e)
           T == TicksPerDay
<1>1. /\ e.start \in Nat /\ e.end \in Nat /\ e.start < e.end /\ s \in Nat /\ EndDay(e) \in Nat
      /\ T \in Nat
  BY EventIs, CalendarViewsAssumption
<1>2. /\ s * T <= e.start /\ e.start < (s + 1) * T
      /\ EndDay(e) * T <= e.end /\ e.end < (EndDay(e) + 1) * T
  BY <1>1, DayLine DEF StartDay, EndDay
<1>3. CASE s = d
  <2>1. d * T \in Nat
    BY DaysInOrder
  <2> QED
    BY <1>1, <1>2, <1>3, <2>1 DEF SpansDate, Takes
<1>4. CASE s # d /\ IsMultiDay(e)
  BY <1>4 DEF SpansDate, Takes
<1>5. CASE s # d /\ ~IsMultiDay(e)
  <2>1. EndDay(e) = s
    BY <1>5 DEF IsMultiDay
  <2>2. ~SpansDate(e, d)
    BY <1>5 DEF SpansDate
  <2>3. CASE s < d
    <3>1. (s + 1) * T <= d * T /\ (s + 1) * T \in Nat /\ d * T \in Nat
      BY <1>1, <2>3, DaysInOrder
    <3> QED
      BY <1>1, <1>2, <2>1, <2>2, <3>1 DEF Takes
  <2>4. CASE d < s
    <3>1. (d + 1) * T <= s * T /\ (d + 1) * T \in Nat /\ s * T \in Nat
      BY <1>1, <2>4, DaysInOrder
    <3> QED
      BY <1>1, <1>2, <2>2, <3>1 DEF Takes
  <2> QED
    BY <1>1, <1>5, <2>3, <2>4
<1> QED
  BY <1>3, <1>4, <1>5

\* The days of an event follow one another.
LEMMA DaysFollow ==
  ASSUME NEW e \in Event, NEW a \in Nat, NEW b \in Nat, NEW c \in Nat, a <= b, b <= c,
         Takes(e, a), Takes(e, c)
  PROVE  Takes(e, b)
<1>1. e.start \in Nat /\ e.end \in Nat
  BY EventIs
<1>2. (a + 1) * TicksPerDay <= (b + 1) * TicksPerDay /\ b * TicksPerDay <= c * TicksPerDay
  BY DaysInOrder
<1>3. /\ (a + 1) * TicksPerDay \in Nat /\ (b + 1) * TicksPerDay \in Nat
      /\ b * TicksPerDay \in Nat /\ c * TicksPerDay \in Nat
  BY DaysInOrder
<1> QED
  BY <1>1, <1>2, <1>3 DEF Takes

\* An event takes place on its first day, and on none before it.
LEMMA FirstDayIs ==
  ASSUME NEW e \in Event
  PROVE  Takes(e, StartDay(e)) /\ \A d \in Nat : Takes(e, d) => StartDay(e) <= d
<1>1. /\ e.start \in Nat /\ e.end \in Nat /\ e.start < e.end /\ StartDay(e) \in Nat
  BY EventIs
<1>2. Takes(e, StartDay(e))
  BY <1>1, SpansIs DEF SpansDate
<1>3. ASSUME NEW d \in Nat, d < StartDay(e) PROVE ~Takes(e, d)
  <2>1. StartDay(e) * TicksPerDay <= e.start /\ StartDay(e) * TicksPerDay \in Nat
    BY <1>1, DayLine, DaysInOrder DEF StartDay
  <2>2. (d + 1) * TicksPerDay <= StartDay(e) * TicksPerDay /\ (d + 1) * TicksPerDay \in Nat
    BY <1>1, <1>3, DaysInOrder
  <2> QED
    BY <1>1, <2>1, <2>2 DEF Takes
<1> QED
  BY <1>1, <1>2, <1>3

\* The least and the greatest of a set of days.
LEMMA EndsOfRow ==
  ASSUME NEW D \in SUBSET Row, D # {}
  PROVE  /\ Min(D) \in D /\ Max(D) \in D
         /\ \A d \in D : Min(D) <= d /\ d <= Max(D)
<1>1. First \in Nat /\ Columns \in Nat /\ \A d \in Row : d \in Nat /\ d <= First + Columns
  BY CalendarViewsAssumption DEF Row, First
<1>2. D \in SUBSET Nat
  BY <1>1
<1>3. \E m \in D : \A d \in D : m <= d
  BY <1>2, LeastNat
<1>4. \E m \in D : \A d \in D : m >= d
  <2> DEFINE top == First + Columns
             U == {top - d : d \in D}
  <2>1. top \in Nat /\ \A d \in D : d \in Nat /\ d <= top
    BY <1>1
  <2> HIDE DEF top
  <2>2. U \in SUBSET Nat /\ U # {}
    BY <2>1
  <2>3. PICK u \in U : \A v \in U : u <= v
    BY <2>2, LeastNat
  <2>4. PICK m \in D : u = top - m
    BY <2>3
  <2>5. ASSUME NEW d \in D PROVE m >= d
    <3>1. u <= top - d
      BY <2>3
    <3> QED
      BY <2>1, <2>4, <3>1
  <2> QED
    BY <2>5
<1> QED
  BY <1>3, <1>4 DEF Min, Max

DaysOf(e) == {d \in Row : Takes(e, d)}

\* The bar of an event covers the days of the row it takes place on.
LEMMA SegmentIs ==
  ASSUME NEW e \in Event, DaysOf(e) # {}
  PROVE  LET s == Segment(e)
         IN  /\ s.event = e /\ s.from \in Row /\ s.to \in Row /\ s.from <= s.to
             /\ s.from .. s.to = DaysOf(e)
<1> DEFINE D == DaysOf(e)
           s == Segment(e)
<1>1. \A d \in Row : d \in Nat
  BY CalendarViewsAssumption DEF Row, First
<1>2. {d \in Row : SpansDate(e, d)} = D
  BY <1>1, SpansIs DEF DaysOf
<1>3. s = [event |-> e, from |-> Min(D), to |-> Max(D)]
  BY <1>2 DEF Segment
<1>4. D \in SUBSET Row
  BY DEF DaysOf
<1>5. s.event = e /\ s.from \in D /\ s.to \in D /\ \A d \in D : s.from <= d /\ d <= s.to
  BY <1>3, <1>4, EndsOfRow
<1> HIDE DEF s
<1>6. ASSUME NEW d \in s.from .. s.to PROVE d \in D
  <2>1. s.from \in Nat /\ s.to \in Nat /\ d \in Nat /\ s.from <= d /\ d <= s.to /\ d \in Row
    BY <1>1, <1>4, <1>5, CalendarViewsAssumption DEF Row, First
  <2>2. Takes(e, s.from) /\ Takes(e, s.to)
    BY <1>5 DEF DaysOf
  <2> QED
    BY <2>1, <2>2, DaysFollow DEF DaysOf
<1>7. ASSUME NEW d \in D PROVE d \in s.from .. s.to
  BY <1>1, <1>4, <1>5
<1> QED
  BY <1>1, <1>4, <1>5, <1>6, <1>7 DEF s

\* Induction over the subsets of a finite set.
LEMMA SetInduction ==
  ASSUME NEW S, IsFiniteSet(S), NEW Good \in SUBSET SUBSET S,
         \A T \in SUBSET S : (\A U \in SUBSET T : U # T => U \in Good) => T \in Good
  PROVE  \A T \in SUBSET S : T \in Good
<1> SUFFICES ASSUME (SUBSET S) \ Good # {} PROVE FALSE
  OBVIOUS
<1>1. IsWellFoundedOn(StrictSubsetOrdering(S), SUBSET S)
  <2>1. FiniteSubsetsOf(S) = SUBSET S
    BY FS_FiniteSubsetsOfFinite
  <2>2. IsWellFoundedOn(StrictSubsetOrdering(S), FiniteSubsetsOf(S))
    BY FS_StrictSubsetOrderingWellFounded
  <2> QED
    BY <2>1, <2>2
<1> DEFINE Bad == (SUBSET S) \ Good
           R == StrictSubsetOrdering(S)
<1>2. \E T \in Bad : \A U \in Bad : ~(<<U, T>> \in R)
  <2>1. Bad \subseteq SUBSET S /\ Bad # {} /\ IsWellFoundedOn(R, SUBSET S)
    BY <1>1
  <2> HIDE DEF Bad, R
  <2> QED
    BY <2>1, WFMin
<1>4. PICK T \in Bad : \A U \in Bad : <<U, T>> \notin R
  BY <1>2
<1>3. \A U \in SUBSET T : U # T => U \in Good
  BY <1>4 DEF StrictSubsetOrdering
<1> QED
  BY <1>4, <1>3

-----------------------------------------------------------------------------
(***************************************************************************)
(* The bars can be sorted, since of finitely many one comes last.          *)
(***************************************************************************)
IsBars(S) == IsFiniteSet(S) /\ \A s \in S : s.from \in Int /\ s.to \in Int

\* Some bar comes before no other.
LEMMA LastBar ==
  ASSUME NEW S, IsBars(S), S # {}
  PROVE  \E x \in S : \A y \in S : ~Before(x, y)
<1> DEFINE HasLast(T) == T = {} \/ \E x \in T : \A y \in T : ~Before(x, y)
           Good == {T \in SUBSET S : HasLast(T)}
<1>1. Good \in SUBSET SUBSET S /\ IsFiniteSet(S)
  BY DEF IsBars
<1>2. ASSUME NEW T \in SUBSET S, \A U \in SUBSET T : U # T => U \in Good
      PROVE  T \in Good
  <2>1. CASE T = {}
    BY <2>1
  <2>2. CASE T # {}
    <3>1. PICK z \in T : TRUE
      BY <2>2
    <3>2. HasLast(T \ {z})
      <4>1. T \ {z} \in SUBSET T /\ T \ {z} # T
        OBVIOUS
      <4> QED
        BY <1>2, <4>1
    <3>3. \A y \in T : y.from \in Int /\ y.to \in Int
      BY DEF IsBars
    <3>4. CASE T \ {z} = {}
      <4>1. \A y \in T : y = z
        BY <3>4
      <4>2. ~Before(z, z)
        BY <3>3 DEF Before
      <4> QED
        BY <4>1, <4>2
    <3>5. CASE \E x \in T \ {z} : \A y \in T \ {z} : ~Before(x, y)
      <4>1. PICK x \in T \ {z} : \A y \in T \ {z} : ~Before(x, y)
        BY <3>5
      <4>2. CASE Before(x, z)
        <5>1. ASSUME NEW y \in T PROVE ~Before(z, y)
          <6>1. CASE y = z
            BY <3>3, <6>1 DEF Before
          <6>2. CASE y # z
            BY <3>3, <4>1, <4>2, <6>2 DEF Before
          <6> QED
            BY <6>1, <6>2
        <5> QED
          BY <5>1
      <4>3. CASE ~Before(x, z)
        BY <4>1, <4>3
      <4> QED
        BY <4>2, <4>3
    <3> QED
      BY <3>2, <3>4, <3>5
  <2> QED
    BY <2>1, <2>2
<1> HIDE DEF Good
<1>3. S \in Good
  BY <1>1, <1>2, SetInduction
<1> QED
  BY <1>3 DEF Good

Sorted(q) == \A i, j \in DOMAIN q : i < j => ~Before(q[j], q[i])

\* The lists of a set, each of its members once.
LEMMA ListsOf ==
  ASSUME NEW S, IsFiniteSet(S)
  PROVE  /\ Cardinality(S) \in Nat
         /\ \A q : q \in SetToSeqs(S) <=>
                /\ q \in [1 .. Cardinality(S) -> S]
                /\ \A i, j \in 1 .. Cardinality(S) : i # j => q[i] # q[j]
  BY FS_CardinalityType DEF SetToSeqs

\* Bars can be sorted.
LEMMA SortedExists ==
  ASSUME NEW S, IsBars(S)
  PROVE  \E q \in SetToSeqs(S) : Sorted(q)
<1> DEFINE Sorts(T) == \E q \in SetToSeqs(T) : Sorted(q)
           Good == {T \in SUBSET S : Sorts(T)}
<1>1. Good \in SUBSET SUBSET S /\ IsFiniteSet(S)
  BY DEF IsBars
<1>2. ASSUME NEW T \in SUBSET S, \A U \in SUBSET T : U # T => U \in Good
      PROVE  T \in Good
  <2>0. IsFiniteSet(T) /\ IsBars(T)
    BY <1>1, FS_Subset DEF IsBars
  <2>1. CASE T = {}
    <3> DEFINE q == [i \in 1 .. 0 |-> {}]
    <3>1. Cardinality(T) = 0
      BY <2>1, FS_EmptySet
    <3>2. q \in [1 .. 0 -> T] /\ DOMAIN q = {} /\ \A i \in 1 .. 0 : FALSE
      OBVIOUS
    <3> HIDE DEF q
    <3>3. q \in SetToSeqs(T)
      BY <2>0, <3>1, <3>2, ListsOf
    <3>4. Sorted(q)
      BY <3>2 DEF Sorted
    <3> QED
      BY <3>3, <3>4
  <2>2. CASE T # {}
    <3>1. PICK x \in T : \A y \in T : ~Before(x, y)
      BY <2>0, <2>2, LastBar
    <3> DEFINE U == T \ {x}
               n == Cardinality(U)
    <3>2. IsFiniteSet(U) /\ n \in Nat /\ Cardinality(T) = n + 1
      <4>1. IsFiniteSet(U) /\ Cardinality(U) = Cardinality(T) - 1
        BY <2>0, FS_RemoveElement
      <4>2. Cardinality(U) \in Nat /\ Cardinality(T) \in Nat
        BY <2>0, <4>1, FS_CardinalityType
      <4> QED
        BY <4>1, <4>2
    <3>3. PICK q \in SetToSeqs(U) : Sorted(q)
      <4>1. U \in SUBSET T /\ U # T
        OBVIOUS
      <4> QED
        BY <1>2, <4>1
    <3>4. /\ q \in [1 .. n -> U]
          /\ \A i, j \in 1 .. n : i # j => q[i] # q[j]
      BY <3>2, <3>3, ListsOf
    <3> HIDE DEF n
    <3> DEFINE r == [i \in 1 .. n + 1 |-> IF i = n + 1 THEN x ELSE q[i]]
    <3>5. /\ DOMAIN r = 1 .. n + 1 /\ r[n + 1] = x
          /\ \A i \in 1 .. n + 1 : i # n + 1 => i \in 1 .. n /\ r[i] = q[i] /\ r[i] \in U
      BY <3>2, <3>4
    <3>6. r \in [1 .. n + 1 -> T]
      BY <3>2, <3>4
    <3> HIDE DEF r
    <3>7. ASSUME NEW i \in 1 .. n + 1, NEW j \in 1 .. n + 1, i # j PROVE r[i] # r[j]
      BY <3>4, <3>5, <3>7
    <3>8. ASSUME NEW i \in 1 .. n + 1, NEW j \in 1 .. n + 1, i < j PROVE ~Before(r[j], r[i])
      <4>1. i # n + 1 /\ i \in 1 .. n /\ r[i] = q[i] /\ r[i] \in T
        BY <3>2, <3>5, <3>8
      <4>2. CASE j = n + 1
        BY <3>1, <3>5, <4>1, <4>2
      <4>3. CASE j # n + 1
        BY <3>3, <3>4, <3>5, <3>8, <4>1, <4>3 DEF Sorted
      <4> QED
        BY <4>2, <4>3
    <3>9. r \in SetToSeqs(T)
      BY <2>0, <3>2, <3>6, <3>7, ListsOf
    <3>10. Sorted(r)
      BY <3>5, <3>8 DEF Sorted
    <3> QED
      BY <3>9, <3>10
  <2> QED
    BY <2>1, <2>2
<1> HIDE DEF Good
<1>3. \A T \in SUBSET S : T \in Good
  BY <1>1, <1>2, SetInduction
<1> QED
  BY <1>3 DEF Good

\* A list of all its members leaves none out.
LEMMA ListIsOnto ==
  ASSUME NEW S, IsFiniteSet(S), NEW q \in SetToSeqs(S), NEW s \in S
  PROVE  \E i \in DOMAIN q : q[i] = s
<1> DEFINE n == Cardinality(S)
<1>1. n \in Nat /\ q \in [1 .. n -> S] /\ \A i, j \in 1 .. n : i # j => q[i] # q[j]
  BY ListsOf
<1>2. q \in Injection(1 .. n, S)
  BY <1>1 DEF Injection, IsInjective
<1>3. Cardinality(1 .. n) = n
  BY <1>1, FS_Interval
<1>4. q \in Surjection(1 .. n, S)
  BY <1>2, <1>3, FS_Injection
<1> QED
  BY <1>1, <1>4 DEF Surjection

-----------------------------------------------------------------------------
(***************************************************************************)
(* The lanes.  A bar is put in the first lane in which no earlier one      *)
(* meets it, so the lanes below hold one each that does; and an earlier    *)
(* one that meets it, starting no later, is drawn on its first day.        *)
(***************************************************************************)
\* What has been placed of a list of bars, up to one of them.
PlacedOf(segs, k, p) ==
    /\ p = [i \in 1 .. k |-> p[i]]
    /\ \A i \in 1 .. k : p[i].seg = segs[i] /\ p[i].lane \in 0 .. i - 1
    /\ \A i, j \in 1 .. k : i < j /\ p[i].lane = p[j].lane => ~Meet(segs[i], segs[j])
    /\ \A i \in 1 .. k : \A l \in 0 .. p[i].lane - 1 :
           \E j \in 1 .. k : j < i /\ p[j].lane = l /\ Meet(segs[j], segs[i])

\* There is always a lane that is free: the next one.
LEMMA FreeLaneIs ==
  ASSUME NEW segs, NEW k \in Nat, NEW p, PlacedOf(segs, k, p), NEW s
  PROVE  LET l == FirstFreeLane(p, s)
         IN  /\ l \in 0 .. k
             /\ \A i \in 1 .. k : p[i].lane = l => ~Meet(segs[i], s)
             /\ \A m \in 0 .. l - 1 : \E i \in 1 .. k : p[i].lane = m /\ Meet(segs[i], s)
<1> DEFINE Free == {l \in 0 .. Len(p) : \A i \in DOMAIN p : p[i].lane = l => ~Meet(p[i].seg, s)}
<1>1. DOMAIN p = 1 .. k /\ Len(p) = k
  BY DEF PlacedOf
<1>2. \A i \in 1 .. k : p[i].seg = segs[i] /\ p[i].lane \in 0 .. i - 1
  BY DEF PlacedOf
<1>3. k \in Free
  BY <1>1, <1>2
<1>4. Free \in SUBSET Nat
  BY <1>1
<1>5. \A l : l \in Free <=> l \in 0 .. k /\ \A i \in 1 .. k : p[i].lane = l => ~Meet(segs[i], s)
  BY <1>1, <1>2
<1>6. FirstFreeLane(p, s) = Min(Free)
  BY DEF FirstFreeLane
<1> HIDE DEF Free
<1>7. \E m \in Free : \A l \in Free : m <= l
  BY <1>3, <1>4, LeastNat
<1>8. Min(Free) \in Free /\ \A l \in Free : Min(Free) <= l
  BY <1>7 DEF Min
<1>9. ASSUME NEW m \in 0 .. Min(Free) - 1
      PROVE  \E i \in 1 .. k : p[i].lane = m /\ Meet(segs[i], s)
  <2>1. m \in 0 .. k /\ m \notin Free
    BY <1>4, <1>5, <1>8
  <2> QED
    BY <1>5, <2>1
<1> QED
  BY <1>5, <1>6, <1>8, <1>9

\* One more bar is placed.
LEMMA PlaceNext ==
  ASSUME NEW segs, NEW k \in Nat, NEW p, PlacedOf(segs, k, p)
  PROVE  PlacedOf(segs, k + 1, PlaceBar(p, segs[k + 1]))
<1> DEFINE s == segs[k + 1]
           l == FirstFreeLane(p, s)
           q == PlaceBar(p, s)
<1>1. /\ l \in 0 .. k
      /\ \A i \in 1 .. k : p[i].lane = l => ~Meet(segs[i], s)
      /\ \A m \in 0 .. l - 1 : \E i \in 1 .. k : p[i].lane = m /\ Meet(segs[i], s)
  BY FreeLaneIs
<1>2. DOMAIN p = 1 .. k /\ Len(p) = k
  BY DEF PlacedOf
<1>3. /\ \A i \in 1 .. k : p[i].seg = segs[i] /\ p[i].lane \in 0 .. i - 1
      /\ \A i, j \in 1 .. k : i < j /\ p[i].lane = p[j].lane => ~Meet(segs[i], segs[j])
      /\ \A i \in 1 .. k : \A m \in 0 .. p[i].lane - 1 :
             \E j \in 1 .. k : j < i /\ p[j].lane = m /\ Meet(segs[j], segs[i])
  BY DEF PlacedOf
<1> HIDE DEF l
<1>4. /\ q = [i \in 1 .. k + 1 |-> q[i]] /\ q[k + 1] = [seg |-> s, lane |-> l]
      /\ \A i \in 1 .. k : q[i] = p[i]
  <2> DEFINE new == [seg |-> s, lane |-> l]
             W == {p[i] : i \in 1 .. k} \cup {new}
  <2>1. p \in [1 .. k -> W]
    BY DEF PlacedOf
  <2>2. p \in Seq(W) /\ new \in W
    BY <2>1
  <2>3. q = Append(p, new)
    BY DEF PlaceBar, l
  <2> HIDE DEF q, W, new
  <2>4. /\ q \in Seq(W) /\ Len(q) = k + 1 /\ q[k + 1] = new
        /\ \A i \in 1 .. k : q[i] = p[i]
    BY <1>2, <2>2, <2>3, AppendProperties
  <2>5. q = [i \in 1 .. k + 1 |-> q[i]]
    BY <2>4
  <2> QED
    BY <2>4, <2>5 DEF new
<1> HIDE DEF q
<1>5. /\ q[k + 1].seg = s /\ q[k + 1].lane = l
      /\ \A i \in 1 .. k : q[i] = p[i] /\ i \in 1 .. k + 1
  BY <1>4
<1>6. \A i \in 1 .. k + 1 : i = k + 1 \/ i \in 1 .. k
  OBVIOUS
<1>7. ASSUME NEW i \in 1 .. k + 1 PROVE q[i].seg = segs[i] /\ q[i].lane \in 0 .. i - 1
  <2>1. CASE i = k + 1
    <3>1. l \in 0 .. (k + 1) - 1
      BY <1>1
    <3> QED
      BY <1>5, <2>1, <3>1
  <2>2. CASE i \in 1 .. k
    BY <1>3, <1>5, <2>2
  <2> QED
    BY <1>6, <2>1, <2>2
<1>8. ASSUME NEW i \in 1 .. k + 1, NEW j \in 1 .. k + 1, i < j, q[i].lane = q[j].lane
      PROVE  ~Meet(segs[i], segs[j])
  <2>1. i \in 1 .. k
    BY <1>8
  <2> QED
    BY <1>1, <1>3, <1>5, <1>6, <1>8, <2>1
<1>9. ASSUME NEW i \in 1 .. k + 1, NEW m \in 0 .. q[i].lane - 1
      PROVE  \E j \in 1 .. k + 1 : j < i /\ q[j].lane = m /\ Meet(segs[j], segs[i])
  <2>1. CASE i = k + 1
    <3>1. PICK j \in 1 .. k : p[j].lane = m /\ Meet(segs[j], s)
      BY <1>1, <1>5, <2>1
    <3> QED
      BY <1>5, <2>1, <3>1
  <2>2. CASE i \in 1 .. k
    <3>1. PICK j \in 1 .. k : j < i /\ p[j].lane = m /\ Meet(segs[j], segs[i])
      BY <1>3, <1>5, <2>2
    <3> QED
      BY <1>5, <3>1
  <2> QED
    BY <1>6, <2>1, <2>2
<1>10. PlacedOf(segs, k + 1, q)
  BY <1>4, <1>7, <1>8, <1>9 DEF PlacedOf
<1> QED
  BY <1>10 DEF q, l

\* assignLanes places every bar.
LEMMA LanesPlaced ==
  ASSUME NEW segs, Len(segs) \in Nat
  PROVE  PlacedOf(segs, Len(segs), AssignLanes(segs))
<1> DEFINE top == Len(segs)
           Step(g, k) == IF k = 0 THEN <<>>
                         ELSE PlaceBar(g[k - 1], segs[k])
           Runs(g, n) == g = [k \in 0 .. n |-> Step(g, k)]
           placed == CHOOSE g : Runs(g, top)
<1>1. top \in Nat
  OBVIOUS
<1>2. AssignLanes(segs) = placed[top]
  BY DEF AssignLanes
<1>3. \E g : Runs(g, top)
  <2> DEFINE T == {n \in 0 .. top : \E g : Runs(g, n)}
  <2>1. 0 \in T
    <3> DEFINE g == [k \in 0 .. 0 |-> <<>>]
    <3>1. g = [k \in 0 .. 0 |-> Step(g, k)]
      OBVIOUS
    <3>2. \E f : Runs(f, 0)
      BY <3>1
    <3> QED
      BY <1>1, <3>2
  <2>2. ASSUME NEW n \in T, n \in Nat, n < top PROVE n + 1 \in T
    <3>1. PICK g : Runs(g, n)
      OBVIOUS
    <3> DEFINE h == [k \in 0 .. n + 1 |-> IF k = n + 1 THEN Step(g, n + 1) ELSE g[k]]
    <3>2. \A k \in 0 .. n : h[k] = g[k] /\ g[k] = Step(g, k)
      BY <2>2, <3>1
    <3>3. ASSUME NEW k \in 0 .. n + 1 PROVE h[k] = Step(h, k)
      <4>1. k # 0 => k - 1 \in 0 .. n
        BY <2>2
      <4>2. k # 0 => h[k - 1] = g[k - 1]
        BY <3>2, <4>1
      <4>3. Step(h, k) = Step(g, k)
        BY <4>2
      <4>4. h[k] = IF k = n + 1 THEN Step(g, n + 1) ELSE g[k]
        OBVIOUS
      <4>5. k # n + 1 => k \in 0 .. n
        BY <2>2
      <4> HIDE DEF Step
      <4> QED
        BY <3>2, <4>3, <4>4, <4>5
    <3>4. h = [k \in 0 .. n + 1 |-> Step(h, k)]
      <4>1. h = [k \in 0 .. n + 1 |-> h[k]]
        OBVIOUS
      <4> HIDE DEF h, Step
      <4> QED
        BY <3>3, <4>1
    <3> HIDE DEF h
    <3> QED
      BY <1>1, <2>2, <3>4
  <2> HIDE DEF T
  <2>3. 0 .. top \subseteq T
    BY <1>1, <2>1, <2>2, UpTo
  <2> QED
    BY <1>1, <2>3 DEF T
<1>4. Runs(placed, top)
  BY <1>3
<1>5. \A k \in 0 .. top : placed[k] = Step(placed, k)
  BY <1>4
<1> HIDE DEF placed
<1> DEFINE T == {k \in 0 .. top : PlacedOf(segs, k, placed[k])}
<1>6. 0 \in T
  <2>1. placed[0] = <<>>
    BY <1>1, <1>5
  <2>2. PlacedOf(segs, 0, <<>>)
    BY DEF PlacedOf
  <2> QED
    BY <1>1, <2>1, <2>2
<1>7. ASSUME NEW k \in T, k \in Nat, k < top PROVE k + 1 \in T
  <2>1. k + 1 \in 0 .. top /\ k + 1 # 0 /\ (k + 1) - 1 = k
    BY <1>1, <1>7
  <2>2. placed[k + 1] = PlaceBar(placed[k], segs[k + 1])
    BY <1>5, <2>1
  <2>3. PlacedOf(segs, k, placed[k])
    OBVIOUS
  <2> QED
    BY <1>7, <2>1, <2>2, <2>3, PlaceNext
<1> HIDE DEF T
<1>8. 0 .. top \subseteq T
  BY <1>1, <1>6, <1>7, UpTo
<1> QED
  BY <1>1, <1>2, <1>8 DEF T

-----------------------------------------------------------------------------
(***************************************************************************)
(* The row on the screen: every event that is drawn as a bar has one, in   *)
(* the order of the list and in a lane of its own.                         *)
(***************************************************************************)
\* There are finitely many events.
ViewsInv == ViewsTypeOK /\ IsFiniteSet(drawn)

\* The events of the row that are drawn as bars.
Barred == {e \in drawn : InBars(e) /\ DaysOf(e) # {}}

LEMMA BarredIs ==
  ASSUME ViewsInv
  PROVE  /\ IsBars({Segment(e) : e \in Barred})
         /\ Barred = {e \in drawn : InBars(e) /\ \E d \in Row : SpansDate(e, d)}
<1> DEFINE S == {Segment(e) : e \in Barred}
           f == [e \in Barred |-> Segment(e)]
<1>1. Barred \in SUBSET drawn /\ drawn \in SUBSET Event /\ IsFiniteSet(drawn)
  BY DEF ViewsInv, ViewsTypeOK, Barred
<1>2. IsFiniteSet(Barred)
  BY <1>1, FS_Subset
<1>3. f \in Surjection(Barred, S)
  BY DEF Surjection
<1>4. IsFiniteSet(S)
  BY <1>2, <1>3, FS_Surjection
<1>5. \A d \in Row : d \in Nat
  BY CalendarViewsAssumption DEF Row, First
<1>6. ASSUME NEW e \in Barred PROVE Segment(e).from \in Int /\ Segment(e).to \in Int
  <2>1. e \in Event /\ DaysOf(e) # {}
    BY <1>1 DEF Barred
  <2>2. Segment(e).from \in Row /\ Segment(e).to \in Row
    BY <2>1, SegmentIs
  <2> QED
    BY <1>5, <2>2
<1>7. \A e \in drawn : DaysOf(e) # {} <=> \E d \in Row : SpansDate(e, d)
  BY <1>1, <1>5, SpansIs DEF DaysOf
<1> QED
  BY <1>4, <1>6, <1>7 DEF IsBars, Barred

\* The bars of the row: each of an event, sorted, none twice and none left out.
LEMMA SegmentsAre ==
  ASSUME ViewsInv
  PROVE  LET q == Segments(drawn)
         IN  /\ Len(q) \in Nat /\ DOMAIN q = 1 .. Len(q) /\ Sorted(q)
             /\ \A i \in DOMAIN q : q[i].event \in Barred /\ q[i] = Segment(q[i].event)
             /\ \A i, j \in DOMAIN q : i # j => q[i] # q[j]
             /\ \A e \in Barred : \E i \in DOMAIN q : q[i] = Segment(e)
<1> DEFINE S == {Segment(e) : e \in Barred}
           q == Segments(drawn)
           n == Cardinality(S)
<1>1. IsBars(S) /\ IsFiniteSet(S)
  BY BarredIs DEF IsBars
<1>2. q = CHOOSE r \in SetToSeqs(S) : Sorted(r)
  BY BarredIs DEF Segments, Sorted
<1>3. q \in SetToSeqs(S) /\ Sorted(q)
  BY <1>1, <1>2, SortedExists
<1>4. n \in Nat /\ q \in [1 .. n -> S] /\ \A i, j \in 1 .. n : i # j => q[i] # q[j]
  BY <1>1, <1>3, ListsOf
<1>5. DOMAIN q = 1 .. n /\ Len(q) = n
  BY <1>4
<1>6. ASSUME NEW i \in DOMAIN q
      PROVE  q[i].event \in Barred /\ q[i] = Segment(q[i].event)
  <2>1. PICK e \in Barred : q[i] = Segment(e)
    BY <1>4, <1>5
  <2>2. Segment(e).event = e
    BY DEF Segment
  <2> QED
    BY <2>1, <2>2
<1>7. \A e \in Barred : \E i \in DOMAIN q : q[i] = Segment(e)
  BY <1>1, <1>3, ListIsOnto
<1> HIDE DEF q, n
<1> QED
  BY <1>3, <1>4, <1>5, <1>6, <1>7 DEF q

\* The bar at a place of the row.
LEMMA BarIs ==
  ASSUME ViewsInv, NEW i \in DOMAIN Lanes
  PROVE  LET b == Lanes[i].seg
         IN  /\ b = Segments(drawn)[i] /\ b = Segment(b.event)
             /\ b.event \in drawn /\ InBars(b.event) /\ DaysOf(b.event) # {}
             /\ b.from \in Row /\ b.to \in Row /\ b.from <= b.to
             /\ b.from .. b.to = DaysOf(b.event)
<1> DEFINE q == Segments(drawn)
<1>1. PlacedOf(q, Len(q), Lanes) /\ DOMAIN q = 1 .. Len(q)
  BY SegmentsAre, LanesPlaced DEF Lanes
<1>2. DOMAIN Lanes = DOMAIN q /\ Lanes[i].seg = q[i]
  BY <1>1 DEF PlacedOf
<1>3. q[i].event \in Barred /\ q[i] = Segment(q[i].event)
  BY <1>2, SegmentsAre
<1> HIDE DEF q
<1>4. q[i].event \in Event /\ q[i].event \in drawn /\ InBars(q[i].event) /\ DaysOf(q[i].event) # {}
  BY <1>3 DEF Barred, ViewsInv, ViewsTypeOK
<1>5. LET s == Segment(q[i].event)
      IN  s.from \in Row /\ s.to \in Row /\ s.from <= s.to /\ s.from .. s.to = DaysOf(q[i].event)
  BY <1>4, SegmentIs
<1> QED
  BY <1>2, <1>3, <1>4, <1>5 DEF q

\* The lanes of the row, told by the places of its bars.
LEMMA LanesAre ==
  ASSUME ViewsInv
  PROVE  \E n \in Nat :
             /\ DOMAIN Lanes = 1 .. n
             /\ \A i \in 1 .. n : Lanes[i].lane \in 0 .. i - 1
             /\ \A i, j \in 1 .. n : i < j =>
                    /\ Lanes[i].lane = Lanes[j].lane => ~Meet(Lanes[i].seg, Lanes[j].seg)
                    /\ ~Before(Lanes[j].seg, Lanes[i].seg)
             /\ \A i \in 1 .. n : \A l \in 0 .. Lanes[i].lane - 1 : \E j \in 1 .. n :
                    j < i /\ Lanes[j].lane = l /\ Meet(Lanes[j].seg, Lanes[i].seg)
<1> DEFINE q == Segments(drawn)
           n == Len(q)
<1>1. n \in Nat /\ DOMAIN q = 1 .. n /\ Sorted(q) /\ PlacedOf(q, n, Lanes)
  BY SegmentsAre, LanesPlaced DEF Lanes
<1> HIDE DEF q, n
<1>2. DOMAIN Lanes = 1 .. n /\ \A i \in 1 .. n : Lanes[i].seg = q[i]
  BY <1>1 DEF PlacedOf
<1>3. \A i \in 1 .. n : Lanes[i].lane \in 0 .. i - 1
  BY <1>1 DEF PlacedOf
<1>4. \A i, j \in 1 .. n : i < j /\ Lanes[i].lane = Lanes[j].lane => ~Meet(q[i], q[j])
  BY <1>1 DEF PlacedOf
<1>5. \A i \in 1 .. n : \A l \in 0 .. Lanes[i].lane - 1 : \E j \in 1 .. n :
          j < i /\ Lanes[j].lane = l /\ Meet(q[j], q[i])
  BY <1>1 DEF PlacedOf
<1>6. \A i, j \in 1 .. n : i < j => ~Before(q[j], q[i])
  BY <1>1 DEF Sorted
<1>7. \A i, j \in 1 .. n : i < j =>
          /\ Lanes[i].lane = Lanes[j].lane => ~Meet(Lanes[i].seg, Lanes[j].seg)
          /\ ~Before(Lanes[j].seg, Lanes[i].seg)
  BY <1>2, <1>4, <1>6
<1>8. \A i \in 1 .. n : \A l \in 0 .. Lanes[i].lane - 1 : \E j \in 1 .. n :
          j < i /\ Lanes[j].lane = l /\ Meet(Lanes[j].seg, Lanes[i].seg)
  BY <1>2, <1>5
<1> QED
  BY <1>1, <1>2, <1>3, <1>7, <1>8

\* No two bars lie over one another, and a bar in a lane has one in each lane above it on
\* its first day: the row is no higher than the most bars of a day.
LEMMA LanesStayFew == ViewsInv => LanesApartAndFew
<1> SUFFICES ASSUME ViewsInv PROVE LanesApartAndFew
  OBVIOUS
<1>1. PICK n \in Nat :
          /\ DOMAIN Lanes = 1 .. n
          /\ \A i \in 1 .. n : Lanes[i].lane \in 0 .. i - 1
          /\ \A i, j \in 1 .. n : i < j =>
                 /\ Lanes[i].lane = Lanes[j].lane => ~Meet(Lanes[i].seg, Lanes[j].seg)
                 /\ ~Before(Lanes[j].seg, Lanes[i].seg)
          /\ \A i \in 1 .. n : \A l \in 0 .. Lanes[i].lane - 1 : \E j \in 1 .. n :
                 j < i /\ Lanes[j].lane = l /\ Meet(Lanes[j].seg, Lanes[i].seg)
  BY LanesAre
<1>2. \A i \in 1 .. n : /\ Lanes[i].seg.from \in Row /\ Lanes[i].seg.to \in Row
                        /\ Lanes[i].seg.from <= Lanes[i].seg.to
  BY <1>1, BarIs
<1>3. \A d \in Row : d \in Nat
  BY CalendarViewsAssumption DEF Row, First
<1> DEFINE On(d) == {i \in DOMAIN Lanes : d \in Lanes[i].seg.from .. Lanes[i].seg.to}
<1>4. ASSUME NEW d \in Row, NEW i \in On(d), NEW j \in On(d), i < j
      PROVE  Lanes[i].lane # Lanes[j].lane
  <2>1. i \in 1 .. n /\ j \in 1 .. n
    BY <1>1
  <2>2. /\ Lanes[i].seg.from \in Nat /\ Lanes[i].seg.to \in Nat
        /\ Lanes[j].seg.from \in Nat /\ Lanes[j].seg.to \in Nat
    BY <1>2, <1>3, <2>1
  <2>3. /\ Lanes[i].seg.from <= d /\ d <= Lanes[i].seg.to
        /\ Lanes[j].seg.from <= d /\ d <= Lanes[j].seg.to
    BY <2>2
  <2>4. Meet(Lanes[i].seg, Lanes[j].seg)
    BY <1>3, <2>2, <2>3 DEF Meet
  <2> QED
    BY <1>1, <1>4, <2>1, <2>4
<1>5. ASSUME NEW d \in Row, NEW i \in On(d), NEW j \in On(d), Lanes[i].lane = Lanes[j].lane
      PROVE  i = j
  BY <1>1, <1>4, <1>5
<1>6. ASSUME NEW i \in DOMAIN Lanes PROVE \E d \in Row : Lanes[i].lane < Cardinality(On(d))
  <2> DEFINE d == Lanes[i].seg.from
             l == Lanes[i].lane
             f == [m \in 0 .. l |-> CHOOSE j \in On(d) : Lanes[j].lane = m]
  <2>1. d \in Row /\ d \in Nat /\ l \in Nat
    BY <1>1, <1>2, <1>3
  <2>0. i \in 1 .. n
    BY <1>1
  <2>2. i \in On(d)
    BY <1>2, <1>3, <2>0
  <2>3. ASSUME NEW m \in 0 .. l - 1 PROVE \E j \in On(d) : Lanes[j].lane = m
    <3>1. PICK j \in 1 .. n : j < i /\ Lanes[j].lane = m /\ Meet(Lanes[j].seg, Lanes[i].seg)
      BY <1>1, <2>0
    <3>2. ~Before(Lanes[i].seg, Lanes[j].seg)
      BY <1>1, <2>0, <3>1
    <3>3. Lanes[j].seg.from <= d /\ d <= Lanes[j].seg.to
      BY <1>2, <1>3, <2>0, <3>1, <3>2 DEF Before, Meet
    <3>4. j \in On(d)
      BY <1>1, <1>2, <1>3, <2>1, <3>1, <3>3
    <3> QED
      BY <3>1, <3>4
  <2>4. ASSUME NEW m \in 0 .. l PROVE \E j \in On(d) : Lanes[j].lane = m
    BY <2>1, <2>2, <2>3
  <2>5. IsFiniteSet(On(d)) /\ Cardinality(On(d)) \in Nat
    <3>1. IsFiniteSet(1 .. n) /\ On(d) \in SUBSET (1 .. n)
      BY <1>1, FS_Interval
    <3> QED
      BY <3>1, FS_Subset, FS_CardinalityType
  <2> HIDE DEF On, d, l
  <2>6. \A m \in 0 .. l : f[m] \in On(d) /\ Lanes[f[m]].lane = m
    BY <2>4
  <2>7. f \in Injection(0 .. l, On(d))
    BY <2>6 DEF Injection, IsInjective
  <2>8. Cardinality(0 .. l) = l + 1
    BY <2>1, FS_Interval
  <2>9. l + 1 <= Cardinality(On(d))
    BY <2>5, <2>7, <2>8, FS_Injection
  <2>10. l < Cardinality(On(d))
    BY <2>1, <2>5, <2>9
  <2> QED
    BY <2>1, <2>10 DEF l
<1> QED
  BY <1>5, <1>6 DEF LanesApartAndFew

\* The lists name an event of the row once.
LEMMA NamedOnce ==
  ASSUME NEW e \in Event
  PROVE  Cardinality({d \in Row : AgendaDay(e, d)}) = (IF DaysOf(e) = {} THEN 0 ELSE 1)
<1> DEFINE A == {d \in Row : AgendaDay(e, d)}
<1>1. First \in Nat /\ Columns \in Nat \ {0} /\ First \in Row /\ \A d \in Row : d \in Nat /\ First <= d
  BY CalendarViewsAssumption DEF Row, First
<1>2. \A d \in Row : SpansDate(e, d) <=> d \in DaysOf(e)
  BY <1>1, SpansIs DEF DaysOf
<1>3. StartDay(e) \in Nat /\ Takes(e, StartDay(e)) /\ \A d \in Nat : Takes(e, d) => StartDay(e) <= d
  BY EventIs, FirstDayIs
<1>4. CASE DaysOf(e) = {}
  <2>1. A = {}
    BY <1>2, <1>4 DEF AgendaDay
  <2> QED
    BY <1>4, <2>1, FS_EmptySet
<1>5. ASSUME NEW c \in DaysOf(e) PROVE \E x : A = {x}
  <2>1. c \in Row /\ c \in Nat /\ Takes(e, c) /\ StartDay(e) <= c
    BY <1>1, <1>3 DEF DaysOf
  <2>2. CASE ~IsMultiDay(e)
    <3>1. \A d \in Row : AgendaDay(e, d) <=> d = StartDay(e)
      BY <2>2 DEF AgendaDay, SpansDate
    <3>2. StartDay(e) \in Row
      BY <1>2, <2>1, <2>2 DEF SpansDate
    <3>3. A = {StartDay(e)}
      BY <3>1, <3>2
    <3> QED
      BY <3>3
  <2>3. CASE IsMultiDay(e) /\ First <= StartDay(e)
    <3>1. StartDay(e) \in Row
      BY <1>1, <1>3, <2>1, <2>3 DEF Row
    <3>2. \A d \in Row : AgendaDay(e, d) <=> d = StartDay(e)
      BY <1>1, <1>3, <2>3 DEF AgendaDay, SpansDate
    <3>3. A = {StartDay(e)}
      BY <3>1, <3>2
    <3> QED
      BY <3>3
  <2>4. CASE IsMultiDay(e) /\ StartDay(e) < First
    <3>1. Takes(e, First)
      BY <1>1, <1>3, <2>1, <2>4, DaysFollow
    <3>2. First \in DaysOf(e)
      BY <1>1, <3>1 DEF DaysOf
    <3>3. \A d \in Row : AgendaDay(e, d) <=> d = First
      BY <1>1, <1>2, <1>3, <2>4, <3>2 DEF AgendaDay
    <3>4. A = {First}
      BY <1>1, <3>3
    <3> QED
      BY <3>4
  <2>5. First <= StartDay(e) \/ StartDay(e) < First
    BY <1>1, <1>3
  <2> HIDE DEF A
  <2> QED
    BY <2>2, <2>3, <2>4, <2>5
<1> HIDE DEF A
<1>6. CASE DaysOf(e) # {}
  <2>1. PICK c \in DaysOf(e) : TRUE
    BY <1>6
  <2>2. PICK x : A = {x}
    BY <1>5, <2>1
  <2>3. Cardinality(A) = 1
    BY <2>2, FS_Singleton
  <2> QED
    BY <1>6, <2>3 DEF A
<1> QED
  BY <1>4, <1>6 DEF A

\* An event is drawn on the days it takes place on, as a bar or in their cells.
LEMMA EventsDrawn == ViewsInv => DrawnWhereItIs
<1> SUFFICES ASSUME ViewsInv, NEW e \in drawn
             PROVE  LET bars == {i \in DOMAIN Lanes : Lanes[i].seg.event = e}
                        barDays == UNION {Lanes[i].seg.from .. Lanes[i].seg.to : i \in bars}
                    IN IF looking = "agenda"
                       THEN Cardinality({d \in Row : AgendaDay(e, d)})
                                = (IF DaysOf(e) = {} THEN 0 ELSE 1)
                       ELSE /\ barDays \cup CellsOf(e) = DaysOf(e)
                            /\ Cardinality(bars) <= 1 /\ (bars = {} \/ CellsOf(e) = {})
  BY DEF DrawnWhereItIs, DaysOf, Takes
<1> DEFINE bars == {i \in DOMAIN Lanes : Lanes[i].seg.event = e}
           barDays == UNION {Lanes[i].seg.from .. Lanes[i].seg.to : i \in bars}
<1>1. e \in Event
  BY DEF ViewsInv, ViewsTypeOK
<1>2. InCells(e) <=> ~InBars(e)
  BY DEF InCells, InBars, InMonthCells, InMonthBars
<1>3. CellsOf(e) = IF InCells(e) THEN DaysOf(e) ELSE {}
  <2>1. \A d \in Row : d \in Nat
    BY CalendarViewsAssumption DEF Row, First
  <2> QED
    BY <1>1, <2>1, SpansIs DEF CellsOf, DaysOf
<1>4. \A i \in bars : InBars(e) /\ DaysOf(e) # {}
  BY BarIs
<1>5. CASE InBars(e) /\ DaysOf(e) # {}
  <2> DEFINE q == Segments(drawn)
  <2>1. e \in Barred
    BY <1>5 DEF Barred
  <2>2. DOMAIN Lanes = DOMAIN q
    BY SegmentsAre, LanesPlaced DEF Lanes, PlacedOf
  <2>3. PICK i \in DOMAIN Lanes : q[i] = Segment(e)
    BY <2>1, <2>2, SegmentsAre
  <2>4. Segment(e).event = e
    BY DEF Segment
  <2>5. i \in bars
    BY <2>3, <2>4, BarIs
  <2>6. ASSUME NEW j \in bars PROVE j = i
    <3>1. q[j] = Segment(e)
      BY BarIs
    <3> QED
      BY <2>2, <2>3, <3>1, SegmentsAre
  <2>7. bars = {i}
    BY <2>5, <2>6
  <2>8. Lanes[i].seg.from .. Lanes[i].seg.to = DaysOf(e)
    BY <2>5, BarIs
  <2> HIDE DEF bars
  <2>9. barDays = DaysOf(e)
    BY <2>7, <2>8
  <2>10. Cardinality(bars) = 1
    BY <2>7, FS_Singleton
  <2> HIDE DEF barDays
  <2>11. /\ barDays \cup CellsOf(e) = DaysOf(e) /\ Cardinality(bars) <= 1
         /\ bars = {} \/ CellsOf(e) = {}
    BY <1>2, <1>3, <1>5, <2>9, <2>10
  <2> QED
    BY <1>1, <2>11, NamedOnce DEF bars, barDays
<1>6. CASE ~(InBars(e) /\ DaysOf(e) # {})
  <2>1. bars = {}
    BY <1>4, <1>6
  <2> HIDE DEF bars
  <2>2. barDays = {} /\ Cardinality(bars) = 0
    BY <2>1, FS_EmptySet
  <2> HIDE DEF barDays
  <2>3. /\ barDays \cup CellsOf(e) = DaysOf(e) /\ Cardinality(bars) <= 1
        /\ bars = {} \/ CellsOf(e) = {}
    BY <1>2, <1>3, <1>6, <2>1, <2>2
  <2> QED
    BY <1>1, <2>3, NamedOnce DEF bars, barDays
<1> QED
  BY <1>5, <1>6

\* The inductive invariant of the views.
LEMMA ViewsInvariant == ViewsSpec => []ViewsInv
<1>1. ViewsInit => ViewsInv
  BY FS_EmptySet DEF ViewsInit, ViewsInv, ViewsTypeOK
<1>2. ASSUME ViewsInv, [ViewsNext]_viewsVars PROVE ViewsInv'
  <2>1. CASE EventComes
    <3>1. PICK e \in Event : drawn' = drawn \cup {e} /\ looking' = looking
      BY <2>1 DEF EventComes
    <3>2. IsFiniteSet(drawn \cup {e})
      BY <1>2, FS_AddElement DEF ViewsInv
    <3> QED
      BY <1>2, <3>1, <3>2 DEF ViewsInv, ViewsTypeOK
  <2>2. CASE ViewPicked
    BY <1>2, <2>2 DEF ViewPicked, ViewsInv, ViewsTypeOK
  <2>3. CASE UNCHANGED viewsVars
    BY <1>2, <2>3 DEF viewsVars, ViewsInv, ViewsTypeOK
  <2> QED
    BY <1>2, <2>1, <2>2, <2>3 DEF ViewsNext
<1> QED
  BY <1>1, <1>2, PTL DEF ViewsSpec

-----------------------------------------------------------------------------
(***************************************************************************)
(* The pages together: a step is of the page on the screen and leaves the  *)
(* others alone, so that what holds of a page by itself holds of it here.  *)
(***************************************************************************)
\* Every page starts as it starts by itself.
LEMMA PagesInit ==
  WebPagesInit => /\ visited \in Pages
                  /\ EditorInit /\ MoneyInit /\ ViewsInit /\ SettingsInit /\ ListsInit
                  /\ ChoreScreensInit /\ CameraInit /\ SaverInit
  BY DEF WebPagesInit

\* Every step is a step of each page or leaves it alone.
LEMMA PagesStep ==
  [WebPagesNext]_pageVars =>
      /\ visited' = visited
      /\ [EditorNext]_editorVars /\ [MoneyNext]_moneyVars /\ [ViewsNext]_viewsVars
      /\ [SettingsNext]_formStateVars /\ [ListsNext]_listVars
      /\ [ChoreScreensNext]_choreScreenVars /\ [CameraNext]_cameraVars /\ [SaverNext]_saverVars
  BY DEF WebPagesNext, pageVars

\* Each page behaves as it does by itself, and the page on the screen stays.
THEOREM PagesApart ==
  WebPagesSpec => /\ [](visited \in Pages)
                  /\ EditorSpec /\ MoneySpec /\ ViewsSpec /\ SettingsSpec /\ ListsSpec
                  /\ ChoreScreensSpec /\ CameraSpec /\ SaverSpec
<1>1. visited \in Pages /\ visited' = visited => (visited \in Pages)'
  OBVIOUS
<1>2. WebPagesSpec => [](visited \in Pages)
  BY <1>1, PagesInit, PagesStep, PTL DEF WebPagesSpec
<1>3. WebPagesSpec => EditorSpec /\ MoneySpec
  BY PagesInit, PagesStep, PTL DEF WebPagesSpec, EditorSpec, MoneySpec
<1>4. WebPagesSpec => ViewsSpec /\ SettingsSpec
  BY PagesInit, PagesStep, PTL DEF WebPagesSpec, ViewsSpec, SettingsSpec
<1>5. WebPagesSpec => ListsSpec /\ ChoreScreensSpec
  BY PagesInit, PagesStep, PTL DEF WebPagesSpec, ListsSpec, ChoreScreensSpec
<1>6. WebPagesSpec => CameraSpec /\ SaverSpec
  BY PagesInit, PagesStep, PTL DEF WebPagesSpec, CameraSpec, SaverSpec
<1> QED
  BY <1>2, <1>3, <1>4, <1>5, <1>6, PTL

\* The types of every page, whichever is on the screen.
THEOREM PagesTypeCorrect == WebPagesSpec => []WebPagesTypeOK
<1>1. visited \in Pages
      /\ EditorTypeOK /\ MoneyTypeOK /\ ViewsTypeOK /\ SettingsTypeOK
      /\ ListsTypeOK /\ ChoreScreensTypeOK /\ CameraTypeOK /\ SaverTypeOK
      => WebPagesTypeOK
  BY DEF Pages, WebPagesTypeOK
<1>2. ViewsInv => ViewsTypeOK
  BY DEF ViewsInv
<1> QED
  BY <1>1, <1>2, PagesApart, EditorTypeCorrect, MoneyTypeCorrect, ViewsInvariant, FormTypeCorrect,
     ListsTypeCorrect, ScreensTypeCorrect, CamerasTypeCorrect, SaverTypeCorrect, PTL

\* No card of the dashboard leaves the columns and the last edit is the one that is stored,
\* as long as no write failed or was overtaken (lib/gridLayout.ts, pages/Home.tsx).
THEOREM LayoutIsKept == WebPagesSpec => []LayoutKept
<1>1. ColumnsKept /\ LastEditIsStored => LayoutKept
  BY DEF LayoutKept
<1> QED
  BY <1>1, PagesApart, CardsStayInColumns, LastEditKept, PTL

\* Dragging or resizing a card of a tidy dashboard never puts it over another, but for
\* a swap that moves both (dashboard/GridCard.tsx, pages/Home.tsx).
THEOREM DragsStayApart == WebPagesSpec => DragKeepsApart
  BY PagesApart, DragsKeepApart, PTL

\* A page with nothing under way shows what the server has, but for the losses its parts
\* name (SandersCashKid.tsx, components/settings, Chores.tsx, Tasks.tsx).
THEOREM PagesAreCurrent == WebPagesSpec => []QuietIsCurrent
<1>1. QuietPageIsCurrent /\ QuietListIsCurrent /\ ScreenIsCurrent /\ FormComesBack
      => QuietIsCurrent
  BY DEF QuietIsCurrent
<1> QED
  BY <1>1, PagesApart, MoneyIsCurrent, ListsAreCurrent, ScreensAreCurrent,
     ScreensKeepTheirWord, PTL

\* A dialogue or a button adds, pays or counts once, but for answers that were lost
\* (AwardModal.tsx, the forms of the settings, api/tasks.go).
THEOREM PagesSendOnce == WebPagesSpec => []SentOnce
<1>1. AwardOnce /\ AddOnce /\ CountedOnce => SentOnce
  BY DEF SentOnce
<1> QED
  BY <1>1, PagesApart, AwardsOnce, AddedOnce, ScreensKeepTheirWord, PTL

\* What is saved is what was typed, picked and tested, and what a test or a code on the
\* screen says is so (IntegrationsTab.tsx, Chores.tsx, AIProviderSettings.tsx,
\* SourceManager.tsx, KiosksTab.tsx).
THEOREM PagesKeepAsTyped == WebPagesSpec => []KeptAsTyped
<1>1. UntouchedIsKept /\ EditIsItsOwn /\ SavedWasTested /\ AddedIsTyped /\ TestIsOfTheForm
      /\ QrIsLive => KeptAsTyped
  BY DEF KeptAsTyped
<1> QED
  BY <1>1, PagesApart, UntouchedKept, ScreensKeepTheirWord, DraftsAsTyped, TestOfTheForm,
     QrStaysLive, PTL

\* The calendar draws an event on the days of the row it takes place on and on no other,
\* as one bar or in cells, the lists name it once, and no two bars lie over one another,
\* in no more lanes than bars meet on a day (lib/calendar.ts, calendar/WeekView.tsx,
\* MonthView.tsx, MonthAgendaView.tsx).
THEOREM ViewsAreFaithful == WebPagesSpec => []ViewsFaithful
<1>1. ViewsInv => ViewsFaithful
  BY LanesStayFew, EventsDrawn DEF ViewsFaithful
<1> QED
  BY <1>1, PagesApart, ViewsInvariant, PTL

\* Streams, microphones, the order of the cameras, alerts and the turning of the photos
\* belong to what is on the screen (LiveStream.tsx, CameraGrid.tsx, useCameraIntercom.ts,
\* MotionAlert.tsx, Screensaver.tsx).
THEOREM PagesOwnTheirMedia == WebPagesSpec => []MediaAreOwned
<1>1. StreamsAreOwned /\ NewestIsKept /\ MicIsHeld /\ GridAndTrayAgree /\ RotationGoesOn
      => MediaAreOwned
  BY DEF MediaAreOwned
<1> QED
  BY <1>1, PagesApart, CamerasAreOwned, RotationIsKept, PTL
===============================================================================
