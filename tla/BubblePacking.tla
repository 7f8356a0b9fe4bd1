---------------------------- MODULE BubblePacking ----------------------------
(***************************************************************************)
(* packBubbleGroups of dashboard.js: the groups are placed on a grid of    *)
(* Columns columns, largest span first, each in the first slot that is     *)
(* free.  One action is one round of the loop (dashboard.js:578-599).      *)
(***************************************************************************)
EXTENDS Integers, Sequences

CONSTANTS
    Names,      \* groups, numbered in the order of localeCompare
    Columns,    \* columns of the grid: 12
    LastRow     \* last row that allBubblePlacements offers: 24

ASSUME PackingConstants ==
    /\ Names \subseteq Nat
    /\ Columns \in Nat /\ Columns >= 4
    /\ LastRow \in Nat

VARIABLES
    todo,       \* items not placed yet, records [name, count, span]
    placed,     \* items placed, records [name, span, col, row]
    occupied,   \* cells taken
    height      \* occupied.length: one more than the largest row taken

packVars == <<todo, placed, occupied, height>>

-----------------------------------------------------------------------------
\* round(4 * sqrt(count / most)), kept within 2..4.
BubbleSpan(count, most) ==
    IF 64 * count >= 49 * most THEN 4
    ELSE IF 64 * count >= 25 * most THEN 3 ELSE 2

PreferredBubblePlacements(span) ==
    CASE span = 4 -> <<<<3,1>>, <<7,3>>, <<1,1>>, <<5,1>>, <<1,3>>, <<9,1>>>>
      [] span = 3 -> <<<<7,1>>, <<10,1>>, <<1,3>>, <<5,4>>, <<9,4>>, <<1,1>>>>
      [] OTHER    -> <<<<1,1>>, <<1,3>>, <<7,1>>, <<9,1>>, <<11,1>>, <<7,3>>,
                       <<11,3>>, <<1,5>>, <<3,5>>, <<5,5>>, <<10,5>>>>

\* Every slot of the first LastRow rows, row by row.
AllBubblePlacements(span) ==
    LET width == Columns - span + 1 IN
    [i \in 1..(LastRow * width) |-> <<1 + ((i - 1) % width), 1 + ((i - 1) \div width)>>]

Candidates(span) == PreferredBubblePlacements(span) \o AllBubblePlacements(span)

Cells(col, row, span) == (col .. col + span - 1) \X (row .. row + span - 1)

BubbleSlotFits(col, row, span) ==
    /\ col >= 1 /\ col + span - 1 <= Columns
    /\ Cells(col, row, span) \cap occupied = {}

\* Mutant: only the first row of the bubble makes the grid longer.
OccupyBubbleSlotFlat(col, row, span) ==
    /\ occupied' = occupied \cup Cells(col, row, span)
    /\ height' = IF row + 1 > height THEN row + 1 ELSE height
OccupyBubbleSlot(col, row, span) ==
    /\ occupied' = occupied \cup Cells(col, row, span)
    /\ height' = IF row + span > height THEN row + span ELSE height

-----------------------------------------------------------------------------
Items(counts) ==
    LET present == {n \in Names : counts[n] > 0}
        most == CHOOSE m \in {counts[n] : n \in present} :
                    \A n \in present : counts[n] <= m
    IN {[name |-> n, count |-> counts[n], span |-> BubbleSpan(counts[n], most)] :
            n \in present}

\* The sort of the items (dashboard.js:568-572).
Before(a, b) ==
    \/ a.span > b.span
    \/ a.span = b.span /\ a.count > b.count
    \/ a.span = b.span /\ a.count = b.count /\ a.name < b.name

Put(item, col, row) ==
    /\ OccupyBubbleSlot(col, row, item.span)
    /\ placed' = placed \cup
           {[name |-> item.name, span |-> item.span, col |-> col, row |-> row]}
    /\ todo' = todo \ {item}

Fits(span, i) ==
    BubbleSlotFits(Candidates(span)[i][1], Candidates(span)[i][2], span)

PlaceInFirstSlot(item) ==
    \E i \in DOMAIN Candidates(item.span) :
        /\ Fits(item.span, i)
        /\ \A j \in DOMAIN Candidates(item.span) : j < i => ~Fits(item.span, j)
        /\ Put(item, Candidates(item.span)[i][1], Candidates(item.span)[i][2])

\* No slot left: below everything placed so far.
PlaceBelow(item) ==
    /\ \A i \in DOMAIN Candidates(item.span) : ~Fits(item.span, i)
    /\ Put(item, 1, height + 1)

PackInit(counts) ==
    /\ todo = Items(counts)
    /\ placed = {} /\ occupied = {} /\ height = 0

PackNext ==
    \E item \in todo :
        /\ \A other \in todo \ {item} : Before(item, other)
        /\ PlaceInFirstSlot(item) \/ PlaceBelow(item)

PackSpec ==
    /\ \E counts \in [Names -> Nat] : PackInit(counts)
    /\ [][PackNext]_packVars

-----------------------------------------------------------------------------
\* No two bubbles share a cell and none leaves the columns, also once the
\* rows that allBubblePlacements offers are full and the placement falls back
\* to "below everything": the fallback row is computed from the length of a
\* sparse array (dashboard.js:584).
WellPacked ==
    /\ \A b \in placed : b.col >= 1 /\ b.row >= 1 /\ b.col + b.span - 1 <= Columns
    /\ \A b, c \in placed :
           b # c => Cells(b.col, b.row, b.span) \cap Cells(c.col, c.row, c.span) = {}
=============================================================================
