---------------------------- MODULE CalendarViews ----------------------------
(***************************************************************************)
(* Where the calendar draws an event: web/src/lib/calendar.ts and the      *)
(* week, month and agenda views.  Time is counted in ticks, TicksPerDay to *)
(* a day of the family's timezone; a view shows the days First .. First +  *)
(* Columns - 1, a row of the month or a week.  An event of a feed ends at  *)
(* a midnight when it lasts all day, one of the form in the last tick of   *)
(* its day.                                                                *)
(***************************************************************************)
EXTENDS Integers, Sequences, FiniteSets, SequencesExt, FiniteSetsExt

CONSTANTS
    TicksPerDay,
    Columns,        \* days of a row
    Margin,         \* bound: days before and after the row an event may reach
    MaxEvents       \* bound: events of the row

ASSUME CalendarViewsAssumption ==
    /\ TicksPerDay \in Nat \ {0, 1} /\ Columns \in Nat \ {0}
    /\ Margin \in Nat /\ MaxEvents \in Nat

VARIABLES
    drawn,          \* the events the query returned
    looking         \* the view on the screen: "week", "month" or "agenda"

viewsVars == <<drawn, looking>>
First == Margin
Row == First .. First + Columns - 1
Tick == 0 .. (Columns + 2 * Margin) * TicksPerDay - 1
Event == {e \in [start : Tick, end : Tick, allDay : BOOLEAN] :
             /\ e.start < e.end
             /\ e.allDay => e.start % TicksPerDay = 0}

\* getDateKey; for an event that lasts all day the date of its stamp.
DayOf(t) == t \div TicksPerDay
StartDay(e) == DayOf(e.start)
EndDay(e) == DayOf(e.end)

IsMultiDay(e) == StartDay(e) # EndDay(e)

SpansDate(e, d) ==
    \/ StartDay(e) = d
    \/ IsMultiDay(e) /\ e.start < (d + 1) * TicksPerDay /\ e.end > d * TicksPerDay

-----------------------------------------------------------------------------
(***************************************************************************)
(* Bars: the events of several days, packed into lanes.                    *)
(***************************************************************************)
\* What MonthView calls multiDay and singleDay; WeekView packs every event
\* of several days.
InMonthBars(e) == IsMultiDay(e) /\ ~e.allDay

InMonthCells(e) == ~IsMultiDay(e) \/ e.allDay

InBars(e) == IF looking = "month" THEN InMonthBars(e) ELSE IsMultiDay(e)
InCells(e) == IF looking = "month" THEN InMonthCells(e) ELSE ~IsMultiDay(e)

\* The columns of an event, from the first day it spans to the last.
Segment(e) ==
    LET days == {d \in Row : SpansDate(e, d)}
    IN [event |-> e, from |-> Min(days), to |-> Max(days)]

Before(s, t) ==
    \/ s.from < t.from
    \/ s.from = t.from /\ s.to > t.to

\* The bars of a row, sorted.  Two of the same columns stay in the order of the answer,
\* which the set does not tell: they are in some order.
Segments(events) ==
    LET bars == {e \in events : InBars(e) /\ \E d \in Row : SpansDate(e, d)}
    IN CHOOSE q \in SetToSeqs({Segment(e) : e \in bars}) :
           \A i, j \in DOMAIN q : i < j => ~Before(q[j], q[i])

Meet(s, t) == s.from <= t.to /\ t.from <= s.to

\* The first lane that has the columns free.
\* Mutant: only the lane of the last bar is tried before a new one is opened.
LastLane(placed, s) ==
    LET Taken(l) == \E i \in DOMAIN placed : placed[i].lane = l /\ Meet(placed[i].seg, s)
        last == IF placed = <<>> THEN 0 ELSE placed[Len(placed)].lane
    IN IF Taken(last) THEN Len(placed) ELSE last

FirstFreeLane(placed, s) ==
    Min({l \in 0 .. Len(placed) : \A i \in DOMAIN placed :
            placed[i].lane = l => ~Meet(placed[i].seg, s)})

PlaceBar(placed, s) == Append(placed, [seg |-> s, lane |-> FirstFreeLane(placed, s)])

AssignLanes(segs) ==
    LET placed[k \in 0 .. Len(segs)] ==
            IF k = 0 THEN <<>> ELSE PlaceBar(placed[k - 1], segs[k])
    IN placed[Len(segs)]

Lanes == AssignLanes(Segments(drawn))

-----------------------------------------------------------------------------
(***************************************************************************)
(* Lists: MonthAgendaView and the compact week name an event of several    *)
(* days once, on its first day or on the first day of the view.            *)
(***************************************************************************)
AgendaDay(e, d) ==
    /\ SpansDate(e, d)
    /\ IsMultiDay(e) => \/ StartDay(e) = d
                        \/ StartDay(e) < First /\ d = First

\* A cell of the month names its first two events and counts the others: in
\* either case they are its events.
CellsOf(e) == {d \in Row : InCells(e) /\ SpansDate(e, d)}

ViewsInit == drawn = {} /\ looking \in {"week", "month", "agenda"}

\* The query answers with one more event, or a synchronisation removed one.
EventComes ==
    /\ Cardinality(drawn) < MaxEvents
    /\ \E e \in Event \ drawn : drawn' = drawn \cup {e}
    /\ UNCHANGED looking

ViewPicked == looking' \in {"week", "month", "agenda"} \ {looking} /\ UNCHANGED drawn

ViewsNext == EventComes \/ ViewPicked
ViewsSpec == ViewsInit /\ [][ViewsNext]_viewsVars

-----------------------------------------------------------------------------
ViewsTypeOK == drawn \subseteq Event /\ looking \in {"week", "month", "agenda"}

\* No two bars of a row are drawn over one another, and the row is no higher
\* than the most bars that meet on a day: what assignLanes packs.
LanesApartAndFew ==
    looking # "agenda" =>
        LET lanes == Lanes
            On(d) == {i \in DOMAIN lanes : d \in lanes[i].seg.from .. lanes[i].seg.to}
        IN /\ \A d \in Row : \A i, j \in On(d) : lanes[i].lane = lanes[j].lane => i = j
           /\ \A i \in DOMAIN lanes : \E d \in Row : lanes[i].lane < Cardinality(On(d))

\* An event that takes place on a day of the row is drawn on every such day, as
\* a bar or in a cell, whichever view is on the screen; the lists name it once.
DrawnWhereItIs ==
    LET lanes == Lanes IN \A e \in drawn :
        LET days == {d \in Row : e.start < (d + 1) * TicksPerDay /\ e.end > d * TicksPerDay}
            bars == {i \in DOMAIN lanes : lanes[i].seg.event = e}
            barDays == UNION {lanes[i].seg.from .. lanes[i].seg.to : i \in bars}
        IN IF looking = "agenda"
           THEN Cardinality({d \in Row : AgendaDay(e, d)}) = (IF days = {} THEN 0 ELSE 1)
           ELSE /\ barDays \cup CellsOf(e) = days
                /\ Cardinality(bars) <= 1 /\ (bars = {} \/ CellsOf(e) = {})
=============================================================================
