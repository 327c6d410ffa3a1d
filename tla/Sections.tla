------------------------------- MODULE Sections -------------------------------
(***************************************************************************)
(* What a pane does with the rectangle the grid gives it: a table sizes    *)
(* its columns and, when its rows overflow a wide pane, deals them into    *)
(* groups side by side (pkg/tui/table); a frame of several panes divides   *)
(* its lines between them (pkg/tui/group.go).                              *)
(*                                                                         *)
(* Pure functions: the only step is to look at the same input again.  A    *)
(* column is its header's width, its widest cell's (0: all blank) and      *)
(* whether it stretches; a row is its number, a section its weight.        *)
(***************************************************************************)
EXTENDS Integers, Sequences, FiniteSets, SequencesExt

CONSTANTS Columns,  \* the columns a table may have
          MaxRows, MaxWidth, MaxHeight, MaxWeight

ASSUME SectionsAssumption ==
    /\ Columns \subseteq Seq([header : Nat, cell : Nat, stretch : BOOLEAN])
    /\ {MaxRows, MaxWidth, MaxHeight, MaxWeight} \subseteq Nat

VARIABLE pane   \* [cols, rows, weights, w, h]

MinGap == 2
MinStretch == 12
MaxStretchPad == 16
EdgePadCap == 4
FlowGutter == 4
MinColWidth == 4

Least(a, b) == IF a < b THEN a ELSE b
Most(a, b) == IF a > b THEN a ELSE b
Total(s) ==
    LET upTo[n \in 0 .. Len(s)] == IF n = 0 THEN 0 ELSE upTo[n - 1] + s[n]
    IN upTo[Len(s)]
Gaps(cols) == MinGap * (Len(cols) - 1)

-------------------------------------------------------------------------------
(* A column shows its widest cell, or its header. *)
Natural(c) == Most(c.header, c.cell)
NaturalRow(cols) == Total([i \in DOMAIN cols |-> Natural(cols[i])]) + Gaps(cols)

(* PaneLeftPad: from the headers alone. *)
LeftPad(cols, width) ==
    LET header == Total([i \in DOMAIN cols |-> Most(cols[i].header, 1)]) + Gaps(cols)
        slack == width - header - MaxStretchPad
    IN IF slack <= 0 THEN 0 ELSE Least(slack \div 2, EdgePadCap)

(* shrink: a cell at a time from the widest column, the first of them, until *)
(* that is as narrow as a column may be made.                                *)
Shrunk(widths) ==
    LET widest == CHOOSE i \in DOMAIN widths : \A j \in DOMAIN widths :
                      widths[j] < widths[i] \/ (widths[j] = widths[i] /\ j >= i)
    IN IF widths[widest] <= MinColWidth THEN widths ELSE [widths EXCEPT ![widest] = @ - 1]
Shrink(widths, by) ==
    LET upTo[n \in 0 .. by] == IF n = 0 THEN widths ELSE Shrunk(upTo[n - 1])
    IN upTo[by]

(* The column that takes up slack and gives way first: the first that        *)
(* stretches, if any of its cells has something in it; or 0.                 *)
Stretch(cols) ==
    LET all == {i \in DOMAIN cols : cols[i].stretch}
        first == CHOOSE i \in all : \A j \in all : i <= j
    IN IF all = {} THEN 0 ELSE IF cols[first].cell = 0 THEN 0 ELSE first

(* LayoutInner: the columns' widths. *)
Inner(cols, inner) ==
    LET natural == [i \in DOMAIN cols |-> Natural(cols[i])]
        s == Stretch(cols)
        over == NaturalRow(cols) - inner
        floor == Most(cols[s].header, 1)
        gives == IF s = 0 THEN 0 ELSE Least(Most(natural[s] - floor, 0), over)
        grown == Most(natural[s] + MaxStretchPad, Most(MinStretch, cols[s].header))
    IN IF over > 0
       THEN Shrink(IF s = 0 THEN natural ELSE [natural EXCEPT ![s] = @ - gives], over - gives)
       ELSE IF s = 0 THEN natural
       ELSE [natural EXCEPT ![s] = @ + Least(Most(grown - @, 0), -over)]

(* FlowGroups: as many as the rows need and the width has room for. *)
FlowGroups(cols, rows, width, height) ==
    LET perGroup == height - 1
        byWidth == (width + FlowGutter) \div (NaturalRow(cols) + FlowGutter)
        byRows == (rows + perGroup - 1) \div perGroup
    IN IF height < 2 \/ rows <= perGroup THEN 1 ELSE Most(Least(byWidth, byRows), 1)

(* Faulty variant of Group: the footer's line is not taken from the rows'.   *)
GroupWithoutFooter(from, to, height, extra) ==
    [rows |-> [i \in 1..Least(height - 1, to - from + 1) |-> from + i - 1],
     more |-> IF extra > 0 \/ to - from + 1 > height - 1 THEN extra ELSE 0]

(* renderGroup: the rows drawn of from..to, and how many more the footer     *)
(* speaks of, extra of which are beyond the group.                           *)
Group(from, to, height, extra) ==
    LET n == to - from + 1
        lines == height - 1
        overflows == n > lines \/ extra > 0
        drawn == Least(n, IF overflows THEN Most(lines - 1, 0) ELSE lines)
    IN [rows |-> [i \in 1..drawn |-> from + i - 1],
        more |-> IF lines >= 1 /\ overflows THEN extra + (n - drawn) ELSE 0]

(* Render: one group, or several from left to right, the last of which       *)
(* answers for the rows beyond them all.                                     *)
Rendered(cols, rows, width, height) ==
    LET g == FlowGroups(cols, rows, width, height)
        per == height - 1
        beyond == Most(rows - g * per, 0)
        last == Least(g, (rows + per - 1) \div per)
    IN IF g = 1 THEN <<Group(1, rows, height, 0)>>
       ELSE [k \in 1..last |-> Group((k - 1) * per + 1, Least(k * per, rows), height, IF k = g THEN beyond ELSE 0)]

-------------------------------------------------------------------------------
(* splitAt: where a frame's sections part into two columns, so that the      *)
(* weights of the two are nearest.                                           *)
SplitAt(ws) ==
    LET off(i) == LET d == Total(ws) - 2 * Total(SubSeq(ws, 1, i)) IN IF d < 0 THEN -d ELSE d
    IN CHOOSE i \in 1..(Len(ws) - 1) : \A j \in 1..(Len(ws) - 1) :
           off(i) < off(j) \/ (off(i) = off(j) /\ i <= j)

Share(avail, w, all) == Most((avail * w) \div all, 2)

(* renderStack, of several sections: the lines each gets, its label's among  *)
(* them.  The last takes what is left; one for which nothing is left, and    *)
(* all after it, are dropped.                                                *)
Gap(ws, h) == IF h < Len(ws) * 4 THEN 0 ELSE 1
Stack(ws, h, st, i) ==
    LET gap == Gap(ws, h)
        at == st.used + (IF i = 1 THEN 0 ELSE gap)
        lines == IF i = Len(ws) THEN h - at ELSE Share(h - gap * (Len(ws) - 1), ws[i], Total(ws))
    IN IF st.full \/ lines <= 0 THEN [st EXCEPT !.full = TRUE]
       ELSE [used |-> at + lines, lines |-> Append(st.lines, lines), full |-> FALSE]
Stacked(ws, h) ==
    LET upTo[n \in 0 .. Len(ws)] ==
          IF n = 0 THEN [used |-> 0, lines |-> <<>>, full |-> FALSE] ELSE Stack(ws, h, upTo[n - 1], n)
    IN upTo[Len(ws)].lines

-------------------------------------------------------------------------------
PaneInit ==
    \/ /\ pane \in [cols : Columns, rows : 1..MaxRows, weights : {<<>>}, w : 1..MaxWidth, h : 1..MaxHeight]
    \/ /\ pane \in [cols : {<<>>}, rows : {0}, weights : UNION {[1..n -> 1..MaxWeight] : n \in 2..4},
                    w : {0}, h : 1..(MaxHeight * 2)]

PaneNext == UNCHANGED pane
PaneSpec == PaneInit /\ [][PaneNext]_pane

PaneWidths == Inner(pane.cols, pane.w - LeftPad(pane.cols, pane.w))

(* A table never asks for more than it was given, until every column is as   *)
(* narrow as one may be made: what its stretch column cannot give, the       *)
(* others do (LayoutInner, shrink).                                          *)
ColumnsFit ==
    pane.cols # <<>> =>
        \/ Total(PaneWidths) + Gaps(pane.cols) + LeftPad(pane.cols, pane.w) <= pane.w
        \/ \A i \in DOMAIN PaneWidths : PaneWidths[i] <= Most(MinColWidth, pane.cols[i].header)

(* Every row of a table is drawn once, from the top of the first group down, *)
(* or is one of those its footer says there are more of.                     *)
RowsAccounted ==
    pane.cols # <<>> /\ pane.h >= 2 =>
        LET groups == Rendered(pane.cols, pane.rows, pane.w, pane.h)
            drawn == FlattenSeq([k \in DOMAIN groups |-> groups[k].rows])
            more == Total([k \in DOMAIN groups |-> groups[k].more])
        IN /\ drawn = [i \in DOMAIN drawn |-> i]
           /\ Len(drawn) + more = pane.rows
           /\ \A k \in DOMAIN groups :
                 Len(groups[k].rows) + (IF groups[k].more > 0 THEN 1 ELSE 0) < pane.h

(* A frame of two or more sections fills its height exactly, and only the    *)
(* last section shown may have no line beyond its label.                     *)
SectionsFill ==
    pane.weights # <<>> =>
        LET s == Stacked(pane.weights, pane.h)
            gaps == Gap(pane.weights, pane.h) * (Len(pane.weights) - 1)
        IN /\ pane.h >= 2 * Len(pane.weights) /\ Len(s) = Len(pane.weights) => Total(s) + gaps = pane.h
           /\ \A i \in 1..(Len(s) - 1) : s[i] >= 2
           /\ SplitAt(pane.weights) \in 1..(Len(pane.weights) - 1)

(* What a pane is given it uses, and what does not fit is accounted for      *)
(* (Inner, FlowGroups, Stacked).                                             *)
PanesAreFilled == ColumnsFit /\ RowsAccounted /\ SectionsFill

===============================================================================
