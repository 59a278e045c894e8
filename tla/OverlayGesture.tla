--------------------------- MODULE OverlayGesture ---------------------------
(***************************************************************************)
(* The page overlay of the Angular client, which every editing mode draws   *)
(* through: pointer gestures and keys become shapes, moves and menu          *)
(* choices, over a raster of the page fetched apart.                         *)
(*                                                                           *)
(* The page is a square of N by N cells; a rectangle narrower than one cell  *)
(* is what the code calls a click.  A mark is a rectangle and a point of the *)
(* drawing in it, which its owner carries along when the rectangle changes.  *)
(***************************************************************************)
EXTENDS Integers, FiniteSets, FiniteSetsExt

CONSTANTS Pages, None,
          N,          \* cells of a page's side
          Step,       \* how far an arrow key moves, in cells
          MaxStroke,  \* points a stroke may have
          MaxPoints   \* vertices and samples of one gesture: a bound of the model

VARIABLES
    page, tool,
    item,      \* the mark: its page, rectangle and inner point
    selected,  \* whether it is selected
    drag,      \* the gesture under the pointer
    pending,   \* vertices clicked so far, and the page they were clicked on
    menu,      \* the context menu is open
    out,       \* the shape emitted in this step
    asked,     \* the page whose raster has been asked for; None: answered
    image,     \* the page of the raster at imageUrl
    drew       \* the page of the raster that decoded

vars == <<page, tool, item, selected, drag, pending, menu, out, asked, image, drew>>

Assumptions == /\ N \in Nat /\ N >= 2 /\ Step \in 1..N /\ None \notin Pages
               /\ MaxStroke \in Nat /\ MaxStroke >= 3 /\ MaxPoints \in Nat \ {0}

Points == (0..N) \X (0..N)
Tools  == {"select", "rect", "line", "polygon", "ink", "text"}
Rect   == [x : 0..N, y : 0..N, w : 0..N, h : 0..N]
NoVertices == [at |-> None, n |-> 0]
Nothing    == [shape |-> "none", at |-> None, from |-> None]

-----------------------------------------------------------------------------
(* Geometry.                                                                *)

Least(a, b) == IF a <= b THEN a ELSE b
Most(a, b)  == IF a <= b THEN b ELSE a
Clamp(v)    == Least(N, Most(0, v))
Abs(v)      == Most(v, -v)

NormalizeRect(a, b) ==
    LET x == Clamp(Least(a[1], b[1]))
        y == Clamp(Least(a[2], b[2]))
    IN  [x |-> x, y |-> y, w |-> Least(N - x, Abs(a[1] - b[1])),
                           h |-> Least(N - y, Abs(a[2] - b[2]))]

\* A move keeps the rectangle's size and stops it at the edge.
Moved(r, dx, dy) == [r EXCEPT !.x = Clamp(Least(@ + dx, N - r.w)),
                              !.y = Clamp(Least(@ + dy, N - r.h))]

\* A handle moves its corner; the corner opposite stays.
Resized(r, handle, dx, dy) ==
    LET left   == r.x       top    == r.y
        right  == r.x + r.w bottom == r.y + r.h
        corner == [nw |-> <<<<right, bottom>>, <<left + dx, top + dy>>>>,
                   ne |-> <<<<left, bottom>>, <<right + dx, top + dy>>>>,
                   sw |-> <<<<right, top>>, <<left + dx, bottom + dy>>>>,
                   se |-> <<<<left, top>>, <<right + dx, bottom + dy>>>>][handle]
    IN  NormalizeRect(corner[1], <<Clamp(corner[2][1]), Clamp(corner[2][2])>>)

NudgeRect(r, dx, dy) == [r EXCEPT !.x = Least(Clamp(@ + dx), Most(0, N - r.w)),
                                  !.y = Least(Clamp(@ + dy), Most(0, N - r.h))]

\* A point goes where the map that takes one rectangle onto the other takes it.
TransformPoint(p, from, to) ==
    <<Clamp(to.x + (IF from.w = 0 THEN p[1] - from.x ELSE ((p[1] - from.x) * to.w) \div from.w)),
      Clamp(to.y + (IF from.h = 0 THEN p[2] - from.y ELSE ((p[2] - from.y) * to.h) \div from.h))>>

\* Two passes of corner cutting each double a stroke's points; what is too long is then
\* thinned, its last point put back in the place of the last one kept.
Smoothed(n) == LET cut  == IF n < 3 THEN n ELSE 4 * n
                   step == (cut + MaxStroke - 1) \div MaxStroke
               IN  IF cut <= MaxStroke THEN cut ELSE (cut + step - 1) \div step

\* One rectangle for each line of a run of words; here a word is a cell.
LineOf(words, y) == LET xs == {p[1] : p \in {q \in words : q[2] = y}}
                    IN  [x |-> Min(xs), y |-> y, w |-> Max(xs) - Min(xs) + 1, h |-> 1]
QuadsFromWords(words) == {LineOf(words, y) : y \in {p[2] : p \in words}}

-----------------------------------------------------------------------------
(* Pointer.                                                                 *)

Gesture(kind, p, handle) == [kind |-> kind, start |-> p, handle |-> handle, from |-> item.rect,
                             samples |-> 1, at |-> page]
ToTheOwner(rect) == item' = [item EXCEPT !.rect = rect,
                                         !.inner = TransformPoint(@, item.rect, rect)]
Contains(r, p) == /\ r.x <= p[1] /\ p[1] <= r.x + r.w
                  /\ r.y <= p[2] /\ p[2] <= r.y + r.h
OnMark(p) == item.page = page /\ Contains(item.rect, p)

\* The primary button on the page: Select clears the selection, a polygon collects
\* vertices, the other tools begin a gesture.  Any of them closes the menu.
PointerDown(p) ==
    /\ drag = None /\ tool # "text"
    /\ menu' = FALSE
    /\ selected' = IF tool = "select" THEN FALSE ELSE selected
    /\ IF tool = "polygon"
       THEN /\ pending.n < MaxPoints
            /\ pending' = [at |-> page, n |-> pending.n + 1]
       ELSE UNCHANGED pending
    /\ drag' = CASE tool = "ink"              -> Gesture("ink", p, None)
                 [] tool \in {"rect", "line"} -> Gesture("draw", p, None)
                 [] OTHER                     -> None
    /\ out' = Nothing /\ UNCHANGED <<page, tool, item, asked, image, drew>>

\* On the mark, with Select: it is selected, and moves with the pointer.
ItemPointerDown(p) ==
    /\ drag = None /\ tool = "select" /\ OnMark(p)
    /\ selected' = TRUE /\ menu' = FALSE
    /\ drag' = Gesture("move", p, None)
    /\ out' = Nothing /\ UNCHANGED <<page, tool, item, pending, asked, image, drew>>

HandlePointerDown(p, handle) ==
    /\ drag = None /\ tool = "select" /\ selected /\ OnMark(p)
    /\ drag' = Gesture("resize", p, handle)
    /\ out' = Nothing /\ UNCHANGED <<page, tool, item, selected, pending, menu, asked, image, drew>>

\* Only a stroke keeps what the pointer passed.
PointerMove ==
    /\ drag # None /\ drag.kind = "ink" /\ drag.samples < MaxPoints
    /\ drag' = [drag EXCEPT !.samples = @ + 1]
    /\ out' = Nothing /\ UNCHANGED <<page, tool, item, selected, pending, menu, asked, image, drew>>

DragRect(p) == LET dx == p[1] - drag.start[1]
                   dy == p[2] - drag.start[2]
               IN  IF drag.kind = "move" THEN Moved(drag.from, dx, dy)
                   ELSE Resized(drag.from, drag.handle, dx, dy)

PointerUp(p) ==
    /\ drag # None
    /\ drag' = None
    /\ LET drawn == NormalizeRect(drag.start, p)
       IN  CASE drag.kind = "ink" ->
                /\ out' = [shape |-> "ink", at |-> page, from |-> drag.at,
                           n |-> Smoothed(drag.samples + 1)]
                /\ UNCHANGED item
             [] drag.kind \in {"move", "resize"} ->
                /\ IF DragRect(p).w > 0 /\ DragRect(p).h > 0 /\ DragRect(p) # drag.from
                   THEN ToTheOwner(DragRect(p)) ELSE UNCHANGED item
                /\ out' = Nothing
             [] OTHER ->
                /\ out' = IF drawn.w = 0 \/ drawn.h = 0 THEN Nothing
                          ELSE [shape |-> IF tool = "line" THEN "line" ELSE "rect",
                                at |-> page, from |-> drag.at, rects |-> {drawn}]
                /\ UNCHANGED item
    /\ UNCHANGED <<page, tool, selected, pending, menu, asked, image, drew>>

\* A run of words, from the one pressed on to the one released on: words lie in reading
\* order.
SelectText(p, q) ==
    /\ tool = "text" /\ drag = None
    /\ LET order(w) == w[2] * N + w[1]
           cells == (0..(N - 1)) \X (0..(N - 1))
           run   == {w \in cells : /\ order(w) >= Least(order(p), order(q))
                                   /\ order(w) <= Most(order(p), order(q))}
       IN  out' = [shape |-> "quads", at |-> page, from |-> page, rects |-> QuadsFromWords(run)]
    /\ UNCHANGED <<page, tool, item, selected, drag, pending, menu, asked, image, drew>>

\* Enter or a double click ends the vertices; the tool now decides what they are.
FinishPending ==
    /\ pending.n > 0 /\ ~menu
    /\ pending' = NoVertices
    /\ out' = IF pending.n < 2 \/ (tool = "polygon" /\ pending.n < 3) THEN Nothing
              ELSE [shape |-> IF tool = "polygon" THEN "polygon" ELSE "polyline",
                    at |-> page, from |-> pending.at, n |-> pending.n]
    /\ UNCHANGED <<page, tool, item, selected, drag, menu, asked, image, drew>>

-----------------------------------------------------------------------------
(* Keys and the menu.  An open menu owns the keyboard.                      *)

Cancel ==
    /\ ~menu
    /\ IF drag # None \/ pending.n > 0
       THEN drag' = None /\ pending' = NoVertices /\ UNCHANGED selected
       ELSE selected' = FALSE /\ UNCHANGED <<drag, pending>>
    /\ out' = Nothing /\ UNCHANGED <<page, tool, item, menu, asked, image, drew>>

Nudge(dx, dy) ==
    /\ ~menu /\ drag = None /\ pending.n = 0 /\ selected /\ item.page = page
    /\ NudgeRect(item.rect, dx, dy) # item.rect
    /\ ToTheOwner(NudgeRect(item.rect, dx, dy))
    /\ out' = Nothing /\ UNCHANGED <<page, tool, selected, drag, pending, menu, asked, image, drew>>

OpenMenu(p) ==
    /\ ~menu
    /\ menu' = TRUE
    /\ selected' = (selected \/ OnMark(p))
    /\ out' = Nothing /\ UNCHANGED <<page, tool, item, drag, pending, asked, image, drew>>

CloseMenu == /\ menu
             /\ menu' = FALSE
             /\ out' = Nothing /\ UNCHANGED <<page, tool, item, selected, drag, pending, asked, image, drew>>

-----------------------------------------------------------------------------
(* What the owner and the server do.                                        *)

SetTool(t) ==
    /\ t # tool
    /\ tool' = t
    /\ out' = Nothing /\ UNCHANGED <<page, item, selected, drag, pending, menu, asked, image, drew>>

\* Another page: the gesture and the menu are abandoned, and its raster is asked for; the
\* request under way is dropped.
TurnPage(p) ==
    /\ p # page
    /\ page' = p
    /\ drag' = None /\ pending' = NoVertices /\ menu' = FALSE
    /\ asked' = p
    /\ out' = Nothing /\ UNCHANGED <<tool, item, selected, image, drew>>

RasterAnswer(ok) ==
    /\ asked # None
    /\ asked' = None /\ image' = IF ok THEN asked ELSE None
    /\ out' = Nothing /\ UNCHANGED <<page, tool, item, selected, drag, pending, menu, drew>>

ImageLoad == /\ image # None /\ drew # image
             /\ drew' = image
             /\ out' = Nothing /\ UNCHANGED <<page, tool, item, selected, drag, pending, menu, asked, image>>

RasterDrawn == drew # None /\ drew = image

-----------------------------------------------------------------------------
Init == /\ page \in Pages /\ tool = "select"
        /\ item = [page |-> page, rect |-> [x |-> 0, y |-> 1, w |-> N - 1, h |-> 1],
                   inner |-> <<1, 1>>]
        /\ selected = FALSE /\ drag = None /\ pending = NoVertices /\ menu = FALSE
        /\ out = Nothing
        /\ asked = page /\ image = None /\ drew = None

Pointer == \/ \E p \in Points : \/ PointerDown(p) \/ ItemPointerDown(p) \/ PointerUp(p)
                                \/ OpenMenu(p)
                                \/ \E h \in {"nw", "ne", "sw", "se"} : HandlePointerDown(p, h)
           \/ \E p, q \in (0..(N - 1)) \X (0..(N - 1)) : SelectText(p, q)
           \/ PointerMove
Keys    == \/ FinishPending \/ Cancel \/ CloseMenu
           \/ \E d \in {-Step, Step} : Nudge(d, 0) \/ Nudge(0, d)
Owner   == (\E t \in Tools : SetTool(t)) \/ \E p \in Pages : TurnPage(p)
Raster  == ImageLoad \/ \E ok \in BOOLEAN : RasterAnswer(ok)

Next == Pointer \/ Keys \/ Owner \/ Raster
Spec == Init /\ [][Next]_vars

\* A person draws on the page they see, and turns it when they like.
Sighted == drag' # drag \/ pending' # pending \/ item' # item \/ menu' # menu
              => page' # page \/ (RasterDrawn /\ drew = page)

-----------------------------------------------------------------------------
TypeOK ==
    /\ page \in Pages /\ tool \in Tools /\ item.rect \in Rect /\ item.inner \in Points
    /\ selected \in BOOLEAN /\ menu \in BOOLEAN
    /\ pending.n \in 0..MaxPoints /\ {asked, image, drew} \subseteq Pages \union {None}
    /\ (drag # None => drag.kind \in {"ink", "draw", "move", "resize"})

\* However it is drawn, dragged by the middle or by a corner, or nudged, and wherever the
\* pointer goes, a rectangle stays on the page with an area, and the drawing in it.
OnThePage(r) == r.x + r.w <= N /\ r.y + r.h <= N /\ r.w > 0 /\ r.h > 0
ShapesStayOnPage ==
    /\ OnThePage(item.rect) /\ Contains(item.rect, item.inner)
    /\ out.shape \in {"rect", "line", "quads"} => \A r \in out.rects : OnThePage(r)

\* What is emitted belongs to the page its gesture began on, and has the points the
\* file's format asks for.
EmittedIsWhole ==
    /\ out.at = out.from
    /\ out.shape = "ink" => out.n \in 2..MaxStroke
    /\ out.shape = "polygon" => out.n >= 3
    /\ out.shape = "polyline" => out.n >= 2
=============================================================================
