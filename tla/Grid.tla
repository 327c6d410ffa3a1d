--------------------------------- MODULE Grid ---------------------------------
(***************************************************************************)
(* Where each pane of a dashboard goes (pkg/tui/grid): Compute is a pure   *)
(* function of the terminal's size, the panes and what they say of         *)
(* themselves.  Sizes are terminal cells.                                  *)
(*                                                                         *)
(* A pane is a record of what its interfaces answer, with 0 (and "" for    *)
(* under) where it does not implement one:                                 *)
(*   id, priority, minW, minH, weight                                      *)
(*   span, spanFloor   columns asked for, and from how many on             *)
(*   rows              rows asked for                                      *)
(*   fixedH, fixedW    the height of a pane above the grid, and its width  *)
(*   under, ratio      the pane it shares a tile with, and how much of it, *)
(*                     in thirtieths                                       *)
(* and content[id] = [w, h] is what its data would fill at this moment.    *)
(***************************************************************************)
EXTENDS Integers, Sequences, FiniteSets, SequencesExt

ChromeH == 4        \* cells a frame takes from its pane
ChromeV == 2
VPad == 2
MinRowHeight == 8
MaxColumns == 8

AtLeast(a, b) == IF a > b THEN a ELSE b
AtMost(a, b) == IF a < b THEN a ELSE b
CeilDiv(n, d) == IF n <= 0 \/ d <= 0 THEN 0 ELSE (n + d - 1) \div d
Sum(f, S) == FoldSet(LAMBDA i, n : n + f[i], 0, S)
Highest(S) == Max(S \cup {0})
Ordered(S, before(_, _)) ==
    [k \in 1..Cardinality(S) |-> CHOOSE i \in S : Cardinality({j \in S : before(j, i)}) = k - 1]

ColumnCount(w) == CASE w < 120 -> 1 [] w \in 120..179 -> 2 [] w \in 180..259 -> 3 [] OTHER -> 4

(* By priority, and as given within one. *)
Sorted(ps) ==
    LET before(i, j) == \/ ps[i].priority < ps[j].priority
                        \/ ps[i].priority = ps[j].priority /\ i < j
        at == Ordered(DOMAIN ps, before)
    IN [k \in DOMAIN ps |-> ps[at[k]]]

SpanOf(p, cols) == IF cols < p.spanFloor THEN 1 ELSE AtMost(AtLeast(p.span, 1), cols)
RowSpanOf(p, rows, cols) == IF cols < 4 THEN 1 ELSE AtMost(AtLeast(p.rows, 1), rows)

-------------------------------------------------------------------------------
(* The rows of fixed height above the grid: a pane of a fixed width joins    *)
(* the row before it if all of that row have one too and it fits.            *)
FixedRows(ps, width) ==
    LET add(rows, p) ==
          LET w == AtMost(p.fixedW, width)
              h == Max({p.fixedH, p.minH - ChromeV, 1}) + ChromeV
              tile == [id |-> p.id, w |-> w]
              joins == /\ w > 0 /\ rows # <<>>
                       /\ LET ts == Last(rows).tiles IN
                            /\ \A i \in DOMAIN ts : ts[i].w > 0
                            /\ Sum([i \in DOMAIN ts |-> ts[i].w], DOMAIN ts) + w <= width
          IN IF joins
             THEN [rows EXCEPT ![Len(rows)] = [tiles |-> Append(@.tiles, tile), h |-> AtLeast(@.h, h)]]
             ELSE Append(rows, [tiles |-> <<tile>>, h |-> h])
    IN FoldLeft(add, <<>>, ps)

HeightOf(rows) == Sum([i \in DOMAIN rows |-> rows[i].h], DOMAIN rows)

(* As many of them, from the top, as the body holds. *)
Fitting(rows, bodyH) ==
    SubSeq(rows, 1, Max({n \in 0..Len(rows) : HeightOf(SubSeq(rows, 1, n)) <= bodyH}))

-------------------------------------------------------------------------------
(* No pane starts above the last one placed. *)
Above(st) == st.from

(* The row each pane starts in: the first, not above the last one's, with    *)
(* room in every row it covers; a pane with no such row is left out.         *)
InRows(ps, gridRows, cols) ==
    LET place(st, p) ==
          LET cs == SpanOf(p, cols)
              rs == RowSpanOf(p, gridRows, cols)
              free == {r \in Above(st)..(gridRows - rs) : \A k \in r..(r + rs - 1) : st.room[k] >= cs}
          IN IF free = {} THEN st
             ELSE [room |-> [k \in DOMAIN st.room |->
                               IF k \in Min(free)..(Min(free) + rs - 1) THEN st.room[k] - cs ELSE st.room[k]],
                   from |-> Min(free),
                   placed |-> Append(st.placed, [p |-> p, row |-> Min(free), cs |-> cs, rs |-> rs])]
    IN FoldLeft(place, [room |-> [r \in 0..(gridRows - 1) |-> cols], from |-> 0, placed |-> <<>>], ps).placed

(* Faulty variant of Cells: a tile takes its columns in its first row only. *)
CellsOfFirstRow(row, rs, from, to) == {row} \X (from..(to - 1))

Cells(row, rs, from, to) == (row..(row + rs - 1)) \X (from..(to - 1))

(* The columns of each: the first free ones, in order of priority; then, row *)
(* by row and from the left, each grows over the free columns to its right.  *)
InColumns(placed, cols) ==
    LET put(st, pl) ==
          LET free == {c \in 0..(cols - pl.cs) :
                         Cells(pl.row, pl.rs, c, c + pl.cs) \cap st.taken = {}}
          IN IF free = {} THEN st
             ELSE [taken |-> st.taken \cup Cells(pl.row, pl.rs, Min(free), Min(free) + pl.cs),
                   tiles |-> Append(st.tiles, [p |-> pl.p, row |-> pl.row, rs |-> pl.rs,
                                               col |-> Min(free), end |-> Min(free) + pl.cs])]
        put1 == FoldLeft(put, [taken |-> {}, tiles |-> <<>>], placed)
        before(i, j) == \/ put1.tiles[i].row < put1.tiles[j].row
                        \/ put1.tiles[i].row = put1.tiles[j].row /\ put1.tiles[i].col < put1.tiles[j].col
        grow(st, i) ==
          LET t == put1.tiles[i]
              end == Max({e \in t.end..cols : Cells(t.row, t.rs, t.end, e) \cap st.taken = {}})
          IN [taken |-> st.taken \cup Cells(t.row, t.rs, t.end, end),
              tiles |-> Append(st.tiles, [t EXCEPT !.end = end])]
    IN FoldLeft(grow, [taken |-> put1.taken, tiles |-> <<>>],
                Ordered(DOMAIN put1.tiles, before)).tiles

-------------------------------------------------------------------------------
(* liftToFloors: a cell at a time from the column with the most to spare to  *)
(* the one that is shortest of its floor, the first of each.                 *)
RECURSIVE LiftToFloors(_, _, _)
LiftToFloors(w, floor, covered) ==
    LET short == [c \in DOMAIN w |-> IF c \in covered THEN floor[c] - w[c] ELSE 0]
        spare == [c \in DOMAIN w |-> w[c] - floor[c]]
        first(f) == CHOOSE c \in DOMAIN f : \A d \in DOMAIN f : f[d] < f[c] \/ (f[d] = f[c] /\ d >= c)
        need == first(short)
        from == first(spare)
    IN IF (\A c \in covered : w[c] >= floor[c]) \/ spare[from] <= 0 THEN w
       ELSE LiftToFloors([w EXCEPT ![from] = @ - 1, ![need] = @ + 1], floor, covered)

(* divideWidth: in proportion to the columns' appetites, a column without    *)
(* one counting as the average; the last takes what rounding leaves.         *)
DivideWidth(total, appetite, floor, covered) ==
    LET declared == {c \in covered : appetite[c] > 0}
        average == IF declared = {} THEN 1
                   ELSE AtLeast(Sum(appetite, declared) \div Cardinality(declared), 1)
        want == [c \in DOMAIN appetite |->
                   IF c \notin covered THEN 0 ELSE IF c \in declared THEN appetite[c] ELSE average]
        all == Sum(want, DOMAIN want)
        share == [c \in DOMAIN want |-> (total * want[c]) \div all]
    IN IF covered = {} THEN [c \in DOMAIN appetite |-> 0]
       ELSE LiftToFloors([share EXCEPT ![Max(covered)] = @ + total - Sum(share, DOMAIN share)],
                         floor, covered)

(* bandOf: rows that a tile joins share a band, and so its columns' widths.  *)
Band(tiles, r) ==
    Cardinality({k \in 1..r : \A i \in DOMAIN tiles :
                    ~(tiles[i].row < k /\ tiles[i].row + tiles[i].rs > k)})

(* bandWidths: the widths of row r's columns. *)
Widths(tiles, r, cols, width, appetite) ==
    LET mine == {i \in DOMAIN tiles : Band(tiles, tiles[i].row) = Band(tiles, r)}
        over(c) == {i \in mine : c \in tiles[i].col..(tiles[i].end - 1)}
        span(i) == tiles[i].end - tiles[i].col
        want(i) == LET w == appetite[tiles[i].p.id] IN
                   IF w > 0 THEN CeilDiv(w + ChromeH, span(i)) ELSE 0
    IN DivideWidth(width,
         [c \in 0..(cols - 1) |-> Highest({want(i) : i \in over(c)})],
         [c \in 0..(cols - 1) |-> Highest({CeilDiv(tiles[i].p.minW, span(i)) : i \in over(c)})],
         {c \in 0..(cols - 1) : over(c) # {}})

Between(w, from, to) == Sum(w, from..(to - 1))

-------------------------------------------------------------------------------
(* The rows' shares of the grid's height, by the greatest weight in each.    *)
RowWeights(tiles, rowCount) ==
    [r \in 0..(rowCount - 1) |->
        Max({1} \cup {AtLeast(AtLeast(tiles[i].p.weight, 1) \div tiles[i].rs, 1) :
                        i \in {j \in DOMAIN tiles : r \in tiles[j].row..(tiles[j].row + tiles[j].rs - 1)}})]

RowHeights(weights, gridH) ==
    LET all == Sum(weights, DOMAIN weights)
        share == [r \in DOMAIN weights |-> AtLeast((gridH * weights[r]) \div AtLeast(all, 1), 1)]
        left == gridH - Sum(share, DOMAIN share)
    IN IF weights = <<>> \/ left <= 0 THEN share
       ELSE [share EXCEPT ![Max(DOMAIN weights)] = @ + left]

(* capRowHeights: a row all of whose tiles say what they can fill is cut to  *)
(* it, if there are rows that do not say to take what that frees.            *)
Capped(heights, weights, tiles, content, hosts) ==
    LET ceiling(t) == LET h == content[t.p.id].h IN
                      IF t.p.id \in hosts \/ h = 0 THEN 0 ELSE CeilDiv(h + ChromeV + VPad, t.rs)
        over(r) == {i \in DOMAIN tiles : r \in tiles[i].row..(tiles[i].row + tiles[i].rs - 1)}
        most == [r \in DOMAIN heights |-> Highest({ceiling(tiles[i]) : i \in over(r)})]
        saying == {r \in DOMAIN heights : \A i \in over(r) : ceiling(tiles[i]) > 0}
        free == DOMAIN heights \ saying
        cut == {r \in saying : most[r] > 0 /\ heights[r] > most[r]}
        surplus == Sum(heights, cut) - Sum(most, cut)
        add == [r \in DOMAIN heights |-> (surplus * weights[r]) \div Sum(weights, free)]
    IN IF surplus <= 0 \/ free = {} THEN heights
       ELSE [r \in DOMAIN heights |->
               IF r \in cut THEN most[r] ELSE IF r \in saying THEN heights[r]
               ELSE heights[r] + add[r] + (IF r = Max(free) THEN surplus - Sum(add, free) ELSE 0)]

-------------------------------------------------------------------------------
Tile(ids, x, y, w, h) == [ids |-> ids, x |-> x, y |-> y, w |-> w, h |-> h]

(* The tiles of the fixed rows; the last of several takes what is left. *)
FixedTiles(rows, width, y) ==
    LET at(r, i) == Sum([j \in DOMAIN rows[r].tiles |-> rows[r].tiles[j].w], 1..(i - 1))
        tile(r, i) == LET n == Len(rows[r].tiles)
                          t == rows[r].tiles[i] IN
            Tile(<<t.id>>, at(r, i), y + HeightOf(SubSeq(rows, 1, r - 1)),
                 IF i = n /\ n > 1 THEN width - at(r, i) ELSE IF t.w = 0 THEN width ELSE t.w, rows[r].h)
    IN FlattenSeq([r \in DOMAIN rows |-> [i \in DOMAIN rows[r].tiles |-> tile(r, i)]])

(* The tiles of the grid, of the columns' widths and the rows' heights. *)
Measured(tiles, w, h, y) ==
    [i \in DOMAIN tiles |-> LET t == tiles[i] IN
        Tile(<<t.p.id>>, Between(w[t.row], 0, t.col), y + Between(h, 0, t.row),
             Between(w[t.row], t.col, t.end), Between(h, t.row, t.row + t.rs))]

GridHeights(tiles, weights, gridH, content, hosts) ==
    Capped(RowHeights(weights, gridH), weights, tiles, content, hosts)

GridTiles(tiles, rowCount, cols, width, gridH, y, content, appetite, hosts) ==
    Measured(tiles, [r \in 0..(rowCount - 1) |-> Widths(tiles, r, cols, width, appetite)],
             GridHeights(tiles, RowWeights(tiles, rowCount), gridH, content, hosts), y)

(* A host's tile with as many of those stacked under it as nine tenths hold. *)
Shared(tile, partners) ==
    LET add(st, p) ==
          LET r == AtMost(IF p.ratio \in 1..29 THEN p.ratio ELSE 10, 27 - st.used) IN
          IF st.full \/ r <= 0 THEN [st EXCEPT !.full = TRUE]
          ELSE [used |-> st.used + r, ids |-> Append(st.ids, p.id), full |-> FALSE]
    IN [tile EXCEPT !.ids = FoldLeft(add, [used |-> 0, ids |-> @, full |-> FALSE], partners).ids]

Hosting(tiles, under) ==
    [i \in DOMAIN tiles |-> Shared(tiles[i], SelectSeq(under, LAMBDA p : p.under = tiles[i].ids[1]))]

On(tiles) == UNION {ToSet(tiles[i].ids) : i \in DOMAIN tiles}
Layout(tiles, order) == [tiles |-> tiles, hidden |-> SelectSeq(order, LAMBDA id : id \notin On(tiles))]

(* What the panes of a layout of several columns are: stacked under another, *)
(* lifted above the grid, or in it.                                          *)
Kinds(panes, cols) ==
    LET stacked(p) == cols >= 2 /\ p.under # ""
        lifted(p) == cols >= 2 /\ p.under = "" /\ p.fixedH > 0
    IN [under |-> SelectSeq(panes, stacked),
        fixed |-> SelectSeq(panes, lifted),
        grid |-> SelectSeq(panes, LAMBDA p : ~stacked(p) /\ ~lifted(p))]

PlacedTiles(o, placed, cols, gridH, y, hosts) ==
    GridTiles(InColumns(placed, cols), Highest({placed[i].row + placed[i].rs : i \in DOMAIN placed}),
              cols, o.width, gridH, y, o.content, o.appetite, hosts)

Placed(panes, gridH, cols) ==
    IF gridH = 0 THEN <<>> ELSE InRows(panes, AtLeast(gridH \div MinRowHeight, 1), cols)

(* The fixed rows, and the grid in gridH below them. *)
BodyTiles(o, kinds, cols, rows, y, gridH) ==
    Hosting(FixedTiles(rows, o.width, y)
              \o PlacedTiles(o, Placed(kinds.grid, gridH, cols), cols, gridH, y + HeightOf(rows),
                             {kinds.under[i].under : i \in DOMAIN kinds.under}),
            kinds.under)

GridBody(o, kinds, cols, rows, y, bodyH) ==
    BodyTiles(o, kinds, cols, rows, y, AtLeast(bodyH - HeightOf(rows), 0))

(* The one pane of a zoomed screen, or of one column. *)
Only(o, order) ==
    IF o.zoomed \in ToSet(order) THEN o.zoomed
    ELSE IF o.focused \in ToSet(order) THEN o.focused ELSE Head(order)

(* A grid of fewer panes has no more columns, but two beside other panes. *)
GridColumns(kinds, cols) ==
    IF kinds.grid # <<>> /\ cols > Len(kinds.grid) THEN AtLeast(Len(kinds.grid), 2) ELSE cols

Arranged(o, order, kinds, cols, y, bodyH) ==
    Layout(IF cols = 1 \/ o.zoomed \in ToSet(order)
           THEN <<Tile(<<Only(o, order)>>, 0, y, o.width, bodyH)>>
           ELSE GridBody(o, kinds, cols, Fitting(FixedRows(kinds.fixed, o.width), bodyH), y, bodyH),
           order)

InKinds(o, order, kinds, cols, y) ==
    Arranged(o, order, kinds, GridColumns(kinds, cols), y, AtLeast(o.height - y, 1))

(* Of panes in their order: a zoomed one is in none of the rows or columns. *)
Sought(o, panes, cols) ==
    InKinds(o, [i \in DOMAIN panes |-> panes[i].id],
            Kinds(SelectSeq(panes, LAMBDA p : p.id # o.zoomed), cols), cols, AtMost(o.header, o.height))

(* Compute.  o: width, height, header, panes, focused, override (0: none),   *)
(* zoomed (or ""), appetite and content.                                     *)
Compute(o) ==
    IF o.panes = <<>> THEN Layout(<<>>, <<>>)
    ELSE Sought(o, Sorted(o.panes),
                AtMost(IF o.override > 0 THEN AtMost(o.override, MaxColumns) ELSE ColumnCount(o.width),
                       Len(o.panes)))

===============================================================================
