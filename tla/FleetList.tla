------------------------------ MODULE FleetList -------------------------------
(***************************************************************************)
(* The terminal's list of clusters against a server (internal/ui/fleet.go):*)
(* its order, the cursor, the filter and the rows that fit, while updates  *)
(* of the fleet and sizes of the terminal arrive between the keys.  Which  *)
(* screen has the terminal, and what Enter opens, is module Sextant.       *)
(*                                                                         *)
(* The cursor is a place in the list, not a cluster.  A cluster is [at: its*)
(* place in the order of names, name: the sequence of its letters].        *)
(***************************************************************************)
EXTENDS Integers, Sequences, FiniteSets, SequencesExt, FiniteSetsExt

CONSTANTS
    Named,      \* the clusters there may be
    Letters,    \* what is typed
    Heights,    \* of the terminal
    MaxTyped    \* bound on the filter's length

ASSUME ListAssumption ==
    /\ IsFiniteSet(Named)
    /\ \A n \in Named : n.at \in Nat /\ ToSet(n.name) \subseteq Letters
    /\ \A n, m \in Named : n.at = m.at => n = m
    /\ Heights \subseteq Nat

VARIABLES
    rows,       \* what the last update had, sorted: a sequence of [of, status]
    stale,      \* whether that update came with a problem
    cursor,     \* selected, from 0
    typed,      \* the filter
    typing,     \* whether keys go to it
    reversed,
    height

listVars == <<rows, stale, cursor, typed, typing, reversed, height>>

Statuses == 1..2

ListTypeOK ==
    /\ \A i \in DOMAIN rows : rows[i].of \in Named /\ rows[i].status \in Statuses
    /\ stale \in BOOLEAN /\ typing \in BOOLEAN /\ reversed \in BOOLEAN
    /\ cursor \in Nat /\ height \in Heights \cup {0}
    /\ Len(typed) <= MaxTyped

ListInit ==
    /\ rows = <<>> /\ stale = FALSE /\ cursor = 0
    /\ typed = <<>> /\ typing = FALSE /\ reversed = FALSE
    /\ height = 0

-------------------------------------------------------------------------------
Worse(a, b) == a.status > b.status \/ (a.status = b.status /\ a.of.at < b.of.at)

(* sortClusters: the worst first, or last. *)
SortClusters(views, backwards) ==
    LET sorted == [i \in 1 .. Cardinality(views) |->
                      CHOOSE a \in views : Cardinality({b \in views : ~Worse(a, b)}) = i]
    IN IF backwards THEN Reverse(sorted) ELSE sorted

Occurs(name, part) ==
    \E i \in 0 .. Len(name) - Len(part) : SubSeq(name, i + 1, i + Len(part)) = part

(* filteredClusters: those that match, in their order. *)
Filtered(list, filter) ==
    LET kept == {i \in DOMAIN list : Occurs(list[i].of.name, filter)}
        At(k) == CHOOSE i \in kept : Cardinality({j \in kept : j <= i}) = k
    IN [k \in 1 .. Cardinality(kept) |-> list[At(k)]]

(* Faulty variant: the cursor stays where it is. *)
ClampedNever(at, list) == at

(* clampSelected. *)
Clamped(at, list) == IF at >= Len(list) THEN Max({Len(list) - 1, 0}) ELSE at

(* fleetBody: the window of rows, which follows the cursor. *)
Body ==
    LET list == Filtered(rows, typed)
        room == Max({height - 4, 1})
        end == Min({cursor + room, Len(list)})
        start == Max({0, end - room})
    IN [says |-> IF list # <<>> THEN "rows" ELSE IF stale THEN "problem"
                 ELSE IF typed # <<>> THEN "unmatched" ELSE "waiting",
        from |-> start, rows |-> SubSeq(list, start + 1, end),
        lines |-> IF list = <<>> THEN 1 ELSE end - start + 1 + (IF stale THEN 1 ELSE 0)]

(* renderFleet: header, body, the filter while it is typed, footer. *)
Screen == 1 + Body.lines + (IF typing THEN 1 ELSE 0) + 1

-------------------------------------------------------------------------------
(* FleetUpdateMsg. *)
ListUpdate ==
    \E known \in SUBSET Named, problem \in BOOLEAN : \E status \in [known -> Statuses] :
        /\ rows' = SortClusters({[of |-> n, status |-> status[n]] : n \in known}, reversed)
        /\ stale' = problem
        /\ cursor' = Clamped(cursor, Filtered(rows', typed))
        /\ UNCHANGED <<typed, typing, reversed, height>>

ResizeList ==
    /\ height' \in Heights \ {height}
    /\ UNCHANGED <<rows, stale, cursor, typed, typing, reversed>>

Move ==
    /\ ~typing
    /\ \/ cursor > 0 /\ cursor' = cursor - 1
       \/ cursor < Len(Filtered(rows, typed)) - 1 /\ cursor' = cursor + 1
    /\ UNCHANGED <<rows, stale, typed, typing, reversed, height>>

ReverseRows ==
    /\ ~typing
    /\ reversed' = ~reversed
    /\ rows' = SortClusters(ToSet(rows), reversed')
    /\ UNCHANGED <<stale, cursor, typed, typing, height>>

OpenFilter ==
    /\ ~typing
    /\ typing' = TRUE
    /\ UNCHANGED <<rows, stale, cursor, typed, reversed, height>>

SetFilter(filter, open) ==
    /\ typed' = filter
    /\ typing' = open
    /\ cursor' = Clamped(cursor, Filtered(rows, filter))
    /\ UNCHANGED <<rows, stale, reversed, height>>

(* handleFilterKey; quit and the cursor's keys are text while it is open. *)
HandleFilterKey ==
    /\ typing
    /\ \/ SetFilter(<<>>, FALSE)
       \/ SetFilter(typed, FALSE)
       \/ LET shorter == IF typed = <<>> THEN typed ELSE Front(typed)
          IN SetFilter(shorter, shorter # <<>>)
       \/ \E l \in Letters : Len(typed) < MaxTyped /\ SetFilter(Append(typed, l), TRUE)

ListNext ==
    \/ ListUpdate \/ ResizeList \/ Move \/ ReverseRows \/ OpenFilter \/ HandleFilterKey

ListSpec == ListInit /\ [][ListNext]_listVars

-------------------------------------------------------------------------------
(* Whatever updates, sizes and letters come between two keys, the cursor is  *)
(* on a row there is and that row is on the screen, so that Enter opens what *)
(* is marked; an empty list has one of its three reasons beside it; and the  *)
(* screen is no taller than a terminal of five lines or more, unless the     *)
(* stale notice and the filter are both there (Update, handleFilterKey,      *)
(* fleetBody).                                                               *)
CursorIsOnScreen ==
    LET list == Filtered(rows, typed)
    IN /\ list # <<>> =>
             /\ cursor < Len(list)
             /\ Body.from <= cursor /\ cursor < Body.from + Len(Body.rows)
             /\ Body.rows[cursor - Body.from + 1] = list[cursor + 1]
       /\ list = <<>> <=> Body.says # "rows"
       /\ height >= 5 /\ ~(stale /\ typing) => Screen <= height

===============================================================================
