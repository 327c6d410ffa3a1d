------------------------------- MODULE Dashboard -------------------------------
(***************************************************************************)
(* The dashboard of one cluster (internal/ui/app.go over pkg/tui/grid).    *)
(* Bubble Tea calls Update and then View for every message: each action    *)
(* here is a message, and Redraw is the View that follows it.  What the    *)
(* panes have to show changes as the watchers publish, so View measures    *)
(* live data; it draws from each pane's highest appetite of late           *)
(* (appetites), and keeps the geometry on screen until the new one is      *)
(* materially different (settle).                                          *)
(***************************************************************************)
EXTENDS Grid

CONSTANTS
    Catalogs,     \* the sequences of panes a dashboard may be built of
    Sizes,        \* the terminal's sizes, [w, h]
    Contents(_),  \* what a pane's data may fill, [w, h]
    MaxPresses,   \* bound: keys pressed
    PeakHold,     \* ticks a pane's peak is held (2 minutes in the code)
    None

ASSUME DashboardAssumption == PeakHold \in Nat \ {0}

ChromeRows == 3       \* two header rows and a footer
StableSlack == 4

VARIABLES
    panes,     \* the catalogue, by priority
    size, content,
    focused, zoomed, override,
    peak,      \* per pane: the appetite held, and for how long
    settled,   \* the geometry that was adopted last, or None
    fresh,     \* the layout last computed
    shown,     \* the layout on screen
    presses

keys == <<focused, zoomed, override, presses>>
screen == <<peak, settled, fresh, shown>>
vars == <<panes, size, content, keys, screen>>

Ids == {panes[i].id : i \in DOMAIN panes}
Pane(id) == CHOOSE p \in ToSet(panes) : p.id = id
IndexOf(id) == CHOOSE i \in DOMAIN panes : panes[i].id = id
Blank == Layout(<<>>, <<>>)

Init ==
    /\ \E ps \in Catalogs : panes = Sorted(ps)
    /\ size = [w |-> 0, h |-> 0]
    /\ content = [id \in Ids |-> [w |-> 0, h |-> 0]]
    /\ focused = Head(panes).id /\ zoomed = FALSE /\ override = 0 /\ presses = 0
    /\ peak = [id \in Ids |-> [want |-> 0, age |-> PeakHold]]
    /\ settled = None /\ fresh = Blank /\ shown = Blank

(* effectiveCols, of a terminal w wide. *)
EffectiveCols(w, over) ==
    LET c == IF over = 0 THEN ColumnCount(w) ELSE over
    IN AtLeast(Min({c, MaxColumns, Len(panes)}), 1)

-------------------------------------------------------------------------------
(* appetites: a pane's peak stands until it is reached again or has been     *)
(* held long enough.                                                         *)
Appetites(cont) ==
    [id \in Ids |-> IF cont[id].w >= peak[id].want \/ peak[id].age >= PeakHold
                    THEN [want |-> cont[id].w, age |-> 0] ELSE peak[id]]

(* contentDemand: what the hungriest pane of a tile would use. *)
Demand(tile, pk) ==
    Highest({IF pk[id].want = 0 THEN 0 ELSE AtLeast(pk[id].want + ChromeH, Pane(id).minW) : id \in ToSet(tile.ids)})

(* structureOf: which cell each tile is in, whatever the cells' sizes. *)
Structure(tiles) ==
    LET rank(v, S) == Cardinality({u \in S : u < v}) IN
    {<<tiles[i].ids, rank(tiles[i].y, {tiles[j].y : j \in DOMAIN tiles}),
                     rank(tiles[i].x, {tiles[j].x : j \in DOMAIN tiles})>> : i \in DOMAIN tiles}

TileOf(tiles, ids) == tiles[CHOOSE i \in DOMAIN tiles : tiles[i].ids = ids]

(* Faulty variant of Moved: a tile is short of room if the new layout would  *)
(* leave it so.                                                              *)
MovedInVain(was, new, pk) ==
    \/ new.y - was.y >= StableSlack \/ was.y - new.y >= StableSlack
    \/ new.h - was.h >= StableSlack \/ was.h - new.h >= StableSlack
    \/ new.w - was.w >= StableSlack /\ Demand(new, pk) - new.w >= StableSlack

(* A tile's place or height is out by the slack, or it is short of room by   *)
(* that much and would get it.                                               *)
Moved(was, new, pk) ==
    \/ new.y - was.y >= StableSlack \/ was.y - new.y >= StableSlack
    \/ new.h - was.h >= StableSlack \/ was.h - new.h >= StableSlack
    \/ new.w - was.w >= StableSlack /\ Demand(new, pk) - was.w >= StableSlack

(* adopt: whether the new layout is to replace the one on screen. *)
Adopt(key, next, pk) ==
    \/ settled = None
    \/ settled.frame # key.frame
    \/ settled.structure # key.structure
    \/ ~settled.measured /\ key.measured
    \/ \E i \in DOMAIN next.tiles : Moved(TileOf(settled.tiles, next.tiles[i].ids), next.tiles[i], pk)

(* View, and settle: what was adopted is kept, nothing of a layout that was  *)
(* not, and nothing is drawn before the terminal's size is known.            *)
Redraw ==
    IF size'.w = 0 THEN UNCHANGED screen
    ELSE \E pk \in {Appetites(content')} :
         \E next \in {Compute([width |-> size'.w, height |-> size'.h, header |-> ChromeRows,
                               panes |-> panes, focused |-> focused', override |-> override',
                               zoomed |-> IF zoomed' THEN focused' ELSE "",
                               appetite |-> [id \in Ids |-> pk[id].want], content |-> content'])} :
         \E key \in {[frame |-> <<size', EffectiveCols(size'.w, override'), zoomed'>>,
                      structure |-> Structure(next.tiles),
                      measured |-> \E i \in DOMAIN next.tiles : Demand(next.tiles[i], pk) > 0,
                      tiles |-> next.tiles]} :
         \E adopted \in {Adopt(key, next, pk)} :
            /\ peak' = pk
            /\ fresh' = next
            /\ settled' = IF adopted THEN key ELSE settled
            /\ shown' = IF adopted THEN next
                        ELSE [next EXCEPT !.tiles = [i \in DOMAIN @ |-> TileOf(settled.tiles, @[i].ids)]]

-------------------------------------------------------------------------------
(* WindowSizeMsg. *)
Resize ==
    /\ size' \in Sizes \ {size}
    /\ UNCHANGED <<panes, content, keys>>
    /\ Redraw

(* dataUpdateMsg: a pane has more or less to show than before. *)
NewData ==
    /\ \E id \in Ids : \E c \in Contents(id) \ {content[id]} : content' = [content EXCEPT ![id] = c]
    /\ UNCHANGED <<panes, size, keys>>
    /\ Redraw

Press == presses < MaxPresses /\ presses' = presses + 1

(* Tab, shift-tab and the jump digits. *)
MoveFocus ==
    /\ Press
    /\ LET n == Len(panes)
           at == IndexOf(focused) IN
       \E i \in {(at % n) + 1, ((at + n - 2) % n) + 1} \cup (1..AtMost(n, 9)) : focused' = panes[i].id
    /\ UNCHANGED <<panes, size, content, zoomed, override>>
    /\ Redraw

Zoom ==
    /\ Press
    /\ zoomed' = ~zoomed
    /\ UNCHANGED <<panes, size, content, focused, override>>
    /\ Redraw

(* The columns asked for: one more, one fewer, or as the width has it. *)
ChangeColumns ==
    /\ Press
    /\ LET c == EffectiveCols(size.w, override) IN
       override' \in {AtMost(c + 1, MaxColumns), AtLeast(c - 1, 1), 0}
    /\ UNCHANGED <<panes, size, content, focused, zoomed>>
    /\ Redraw

Tick ==
    /\ \E id \in Ids : peak[id].age < PeakHold
    /\ peak' = [id \in Ids |-> [peak[id] EXCEPT !.age = AtMost(@ + 1, PeakHold)]]
    /\ UNCHANGED <<panes, size, content, keys, settled, fresh, shown>>

Next == Resize \/ NewData \/ MoveFocus \/ Zoom \/ ChangeColumns \/ Tick

Spec == Init /\ [][Next]_vars

-------------------------------------------------------------------------------
Drawn == shown.tiles
BodyH == size.h - ChromeRows

DashboardTypeOK ==
    /\ focused \in Ids /\ zoomed \in BOOLEAN /\ override \in 0..MaxColumns
    /\ \A id \in Ids : peak[id].want >= 0 /\ peak[id].age \in 0..PeakHold

(* renderBody: the tiles of body line y that are passed over because one to  *)
(* their left reaches past where they begin.                                 *)
Skipped(y) ==
    LET on == {i \in DOMAIN Drawn : y \in Drawn[i].y..(Drawn[i].y + Drawn[i].h - 1)}
    IN {i \in on : \E j \in on \ {i} : /\ Drawn[j].x < Drawn[i].x \/ (Drawn[j].x = Drawn[i].x /\ j < i)
                                       /\ Drawn[j].x + Drawn[j].w > Drawn[i].x}

(* Whatever the panes, the terminal and the keys pressed, and whichever      *)
(* frame's geometry is kept, every tile is drawn whole: it lies in the body  *)
(* and no line of it is skipped for a tile that overlaps it.                 *)
DrawnWhole ==
    BodyH >= 1 =>
        /\ \A i \in DOMAIN Drawn : /\ Drawn[i].x >= 0 /\ Drawn[i].x + Drawn[i].w <= size.w
                                   /\ Drawn[i].y >= ChromeRows /\ Drawn[i].y + Drawn[i].h <= size.h
        /\ \A y \in ChromeRows..(size.h - 1) : Skipped(y) = {}

(* No pane is dropped silently: of all there are, each is in one tile or is  *)
(* counted as hidden.                                                        *)
NobodyDropped ==
    size.w > 0 =>
        LET ids == FlattenSeq([i \in DOMAIN Drawn |-> Drawn[i].ids]) \o shown.hidden IN
        Len(ids) = Len(panes) /\ ToSet(ids) = Ids

(* No pane of the grid starts above a more important one. *)
ImportantFirst ==
    \A i, j \in DOMAIN fresh.tiles :
        LET p == Pane(fresh.tiles[i].ids[1])
            q == Pane(fresh.tiles[j].ids[1]) IN
        p.fixedH = 0 /\ q.fixedH = 0 /\ IndexOf(p.id) < IndexOf(q.id)
        => fresh.tiles[i].y <= fresh.tiles[j].y

(* However long the screen has held still, it is never far from what would   *)
(* be drawn now: no tile is out by the slack in its height or place, nor     *)
(* short of room by it when there is more to be had.                         *)
ShownIsCurrent ==
    \A i \in DOMAIN Drawn :
        LET s == Drawn[i]
            f == fresh.tiles[i] IN
        /\ s.ids = f.ids
        /\ (f.y - s.y) \in (1 - StableSlack)..(StableSlack - 1)
        /\ (f.h - s.h) \in (1 - StableSlack)..(StableSlack - 1)
        /\ f.w - s.w < StableSlack \/ Demand(f, peak) - s.w < StableSlack

(* A pane whose width comes and goes moves the screen once: while its peak   *)
(* is held, data that asks for no more than that, in as many lines, leaves   *)
(* every tile where it is.                                                   *)
FlappingMovesNothing ==
    [][/\ UNCHANGED <<size, keys>>
       /\ settled # None
       /\ \A id \in Ids : /\ peak[id].age < PeakHold
                          /\ content'[id].w <= peak[id].want
                          /\ content'[id].h = content[id].h
       => shown' = shown]_vars

(* The tiles are packed soundly: whole, with nobody dropped, the important   *)
(* ones first (renderBody, Compute).                                         *)
PackingIsSound == DrawnWhole /\ NobodyDropped /\ ImportantFirst

(* The screen settles: it holds still, and never on an old picture.          *)
ScreenSettles == [][ShownIsCurrent']_vars /\ FlappingMovesNothing

===============================================================================
