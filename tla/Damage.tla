------------------------------- MODULE Damage -------------------------------
(***************************************************************************)
(* The damage list of ei_application.c: invalidated_rects, filled by      *)
(* ei_app_invalidate_rect (normalise to the root's size, then merge with  *)
(* the last entry or append) and emptied by the redraw at the end of each *)
(* iteration of ei_app_run.  Rectangles are records [x, y, w, h] of       *)
(* integers; the min/max macros of ei_calculations.h and C's truncating   *)
(* division are kept as written.                                          *)
(***************************************************************************)
EXTENDS Integers, Sequences, SequencesExt

CONSTANTS
    Width, Height,  \* ei_app_root_widget()->screen_location.size
    Coords,         \* the x and y a widget's screen_location may have
    Sizes,          \* the widths and heights of a widget's screen_location
    MaxRects        \* bound on the length of invalidated_rects

ASSUME Width \in Nat \ {0} /\ Height \in Nat \ {0} /\ MaxRects \in Nat \ {0}

VARIABLES
    invalidated_rects, \* the list, head first
    damaged,           \* the window pixels invalidated since the last redraw
    req                \* the last rect added, after normalize_rect

vars == <<invalidated_rects, damaged, req>>

\* The macros of ei_calculations.h: min(x, y) (x < y? x : y), max likewise.
min(a, b) == IF a < b THEN a ELSE b
max(a, b) == IF a < b THEN b ELSE a

\* C's int division by 2, which truncates toward zero.
Half(a) == IF a >= 0 THEN a \div 2 ELSE -((-a) \div 2)

NoRect == [x |-> 0, y |-> 0, w |-> 0, h |-> 0]

\* The rects a caller passes: a widget's screen_location, or the
\* extend_rect of it (the placer, ei_widget_configure, destruction).
ScreenRects == [x : Coords, y : Coords, w : Sizes, h : Sizes]

extend_rect(r) == [x |-> r.x - 2, y |-> r.y - 2, w |-> r.w + 4, h |-> r.h + 4]

Requests == ScreenRects \cup {extend_rect(r) : r \in ScreenRects}

\* normalize_rect with a negative corner left as it is.
normalize_rectNoClamp(r) ==
    LET w1 == r.w + min(0, r.x)
        h1 == r.h + min(0, r.y)
    IN  [x |-> r.x, y |-> r.y,
         w |-> IF r.x + w1 >= Width THEN Width - r.x ELSE w1,
         h |-> IF r.y + h1 >= Height THEN Height - r.y ELSE h1]

\* normalize_rect without the fit to the window's right and bottom edges.
normalize_rectNoFit(r) ==
    [x |-> max(0, r.x), y |-> max(0, r.y),
     w |-> r.w + min(0, r.x), h |-> r.h + min(0, r.y)]

\* normalize_rect(rect, window_size), in the order of its statements.
normalize_rect(r) ==
    LET w1 == r.w + min(0, r.x)
        h1 == r.h + min(0, r.y)
        x1 == max(0, r.x)
        y1 == max(0, r.y)
    IN  [x |-> x1, y |-> y1,
         w |-> IF x1 + w1 >= Width THEN Width - x1 ELSE w1,
         h |-> IF y1 + h1 >= Height THEN Height - y1 ELSE h1]

Pixels(r) == (r.x .. r.x + r.w - 1) \X (r.y .. r.y + r.h - 1)

Window == Pixels([x |-> 0, y |-> 0, w |-> Width, h |-> Height])

\* The locality test taking half of the smaller dimension.
MergeableMin(last, r) ==
    /\ last.x - r.x < Half(min(last.w, r.w))
    /\ last.y - r.y < Half(min(last.h, r.h))

\* The locality test of ei_app_invalidate_rect: no abs() on the
\* differences of the corners.
Mergeable(last, r) ==
    /\ last.x - r.x < Half(max(last.w, r.w))
    /\ last.y - r.y < Half(max(last.h, r.h))

\* A union that keeps the larger size instead of the far edge.
RectUnionSizes(last, r) ==
    [x |-> min(last.x, r.x), y |-> min(last.y, r.y),
     w |-> max(last.w, r.w), h |-> max(last.h, r.h)]

\* The "union" written into the last entry.
RectUnion(last, r) ==
    LET nx == min(last.x, r.x)
        ny == min(last.y, r.y)
    IN  [x |-> nx, y |-> ny,
         w |-> max(last.x + last.w, r.x + r.w) - nx,
         h |-> max(last.y + last.h, r.y + r.h) - ny]

\* The list after adding the normalised rect n: the first rect, a merge
\* into the last entry, or an append.
AddRect(l, n) ==
    IF l = <<>> THEN <<n>>
    ELSE IF Mergeable(Last(l), n) THEN [l EXCEPT ![Len(l)] = RectUnion(Last(l), n)]
    ELSE Append(l, n)

\* ei_app_invalidate_rect(rect).
ei_app_invalidate_rect(r) ==
    LET n == normalize_rect(r)
    IN  /\ Len(AddRect(invalidated_rects, n)) <= MaxRects
        /\ invalidated_rects' = AddRect(invalidated_rects, n)
        /\ damaged' = damaged \cup (Pixels(r) \cap Window)
        /\ req' = n

\* The redraw of ei_app_run: every rect is redrawn and flushed, the list
\* freed and set to NULL; an empty list skips it.
Redraw ==
    /\ invalidated_rects # <<>>
    /\ invalidated_rects' = <<>>
    /\ damaged' = {}
    /\ UNCHANGED req

Init ==
    /\ invalidated_rects = <<>>
    /\ damaged = {}
    /\ req = NoRect

Next ==
    \/ \E r \in Requests : ei_app_invalidate_rect(r)
    \/ Redraw

Spec == Init /\ [][Next]_vars

-----------------------------------------------------------------------------
(* Properties. *)

Entries == {invalidated_rects[i] : i \in 1..Len(invalidated_rects)}

\* Every entry of the list has a non-negative corner.
TypeOK ==
    /\ invalidated_rects \in Seq([x : Nat, y : Nat, w : Int, h : Int])
    /\ Len(invalidated_rects) <= MaxRects
    /\ damaged \subseteq Window

\* Nothing invalidated is lost: every window pixel of every rect passed to
\* ei_app_invalidate_rect since the last redraw lies in an entry of the
\* list, through normalize_rect, the merge and the append.
Coverage == damaged \subseteq UNION {Pixels(e) : e \in Entries}

\* Every entry lies inside the root surface, so the redraw and
\* hw_surface_update_rects are never asked for pixels outside it, whatever
\* the merges did.
EntriesInWindow ==
    \A e \in Entries : e.x + e.w <= Width /\ e.y + e.h <= Height

\* Spec section 4.6: two rects merge when their top-left corners differ by
\* less than half the larger dimension in both axes.
SpecNear(last, r) ==
    /\ -Half(max(last.w, r.w)) < last.x - r.x
    /\ last.x - r.x < Half(max(last.w, r.w))
    /\ -Half(max(last.h, r.h)) < last.y - r.y
    /\ last.y - r.y < Half(max(last.h, r.h))

Merged == invalidated_rects # <<>> /\ Len(invalidated_rects') = Len(invalidated_rects)

\* Whenever the spec's locality test holds, ei_app_invalidate_rect merges
\* the rect into the last entry instead of appending it.
MergesWhenNear ==
    [][invalidated_rects # <<>> /\ invalidated_rects' # <<>>
       /\ SpecNear(Last(invalidated_rects), req') => Merged]_vars

\* Spec section 4.6 and the example of section 8: a rect that is not near
\* the last entry and does not even overlap it is appended as a second
\* entry, never merged (an empty rect aside).  ei_app_invalidate_rect
\* merges such a rect when it lies to the right of and below the last one.
MergesOnlyWhenNear ==
    [][invalidated_rects # <<>> /\ invalidated_rects' # <<>> /\ Merged
       /\ Pixels(req') # {}
       => \/ SpecNear(Last(invalidated_rects), req')
          \/ Pixels(Last(invalidated_rects)) \cap Pixels(req') # {}]_vars
=============================================================================
