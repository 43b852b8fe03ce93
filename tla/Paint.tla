------------------------------- MODULE Paint --------------------------------
(***************************************************************************)
(* The two surfaces ei_app_run keeps, the visible one and the offscreen    *)
(* pick surface, as what each pixel of the root window shows: the redraw   *)
(* of ei_app_run (the root's drawfunc, then ei_draw_widget_children,       *)
(* clipped to each invalidated rect), initialDraw, the class drawfuncs     *)
(* drawframe, drawbutton (drawframebuttonclasses of ei_draw_more.c) and    *)
(* drawtoplevel, and the button handlers that change a relief and          *)
(* invalidate the button, picking the widget under the pointer from the    *)
(* pick surface (ei_widget_pick).  The tree and its geometry are fixed     *)
(* constants: the layout is done and inside the window, so the runfunc     *)
(* ei_draw_widget_children calls changes nothing (module Layout).  A pixel *)
(* of the visible surface holds <<widget, part>>, the part standing for    *)
(* the colour: "body", "text", "title", a toplevel's "frame", or the       *)
(* relief that picks the two border colours.  Polygons are the rects of    *)
(* ei_rounded_frame_* (corner radii are at most one pixel); ei_draw_polygon *)
(* of the course library fills a polygon inside its clipper.               *)
(***************************************************************************)
EXTENDS Integers, Sequences, SequencesExt

CONSTANTS
    Win,        \* the root window's size, [w, h]
    Root,       \* the root frame
    Kids,       \* Kids[w]: children_head, next_sibling, ... in order
    Cls,        \* Cls[w]: "frame", "button" or "toplevel"
    Screen,     \* screen_location
    Content,    \* *content_rect
    DrawRect,   \* a toplevel's *draw_rect (title bar and border included)
    Border,     \* *border_width
    NoClip,     \* a button's no_clipping (the close button of a toplevel)
    Text,       \* the size of the text a frame or button shows, or NoText
    TextAnchor, \* *text_anchor
    TitleSize,  \* the size of a toplevel's title text
    TitleX,     \* the title's offset right of draw_rect's corner, before the border
    Pressable,  \* the buttons the pointer may press (no close or resize role)
    Relief0,    \* *relief as setdefaults and the configure calls left it
    NoText, NIL

Ids == DOMAIN Kids
Px == (0 .. Win.w - 1) \X (0 .. Win.h - 1)

VARIABLES
    vis,          \* the root surface: Px -> <<widget, part>>
    pick,         \* the pick surface: Px -> widget (its pick_color)
    relief,       \* *relief of each button
    pressed,      \* button_pressed
    pressingOver  \* pressing_over

vars == <<vis, pick, relief, pressed, pressingOver>>

min(a, b) == IF a < b THEN a ELSE b
max(a, b) == IF a < b THEN b ELSE a
Half(a) == IF a >= 0 THEN a \div 2 ELSE -((-a) \div 2)

Pixels(r) == ((r.x .. r.x + r.w - 1) \X (r.y .. r.y + r.h - 1)) \cap Px

Parent(w) == CHOOSE p \in Ids : w \in Range(Kids[p])

get_ei_rect_intersection(r1, r2) ==
    LET x == max(r1.x, r2.x)
        y == max(r1.y, r2.y)
    IN  [x |-> x, y |-> y,
         w |-> min(r1.x + r1.w, r2.x + r2.w) - x,
         h |-> min(r1.y + r1.h, r2.y + r2.h) - y]

\* Writing value v into the pixels of a surface f that lie in rect r:
\* ei_fill with a clipper, ei_draw_polygon of a rect, ei_copy_surface.
Put(f, r, v) == [p \in DOMAIN f |-> IF p \in Pixels(r) THEN v ELSE f[p]]

\* The top-left corner of content c where a text of size t is drawn
\* (the text_anchor switch of drawframebuttonclasses), moved by
\* border_width * 0.65 while the button is pressed under the pointer.
TextAt(w, c, t, down) ==
    LET a == TextAnchor[w]
        x0 == CASE a \in {"none", "center", "north", "south"} -> c.x + Half(c.w - t.w)
                [] a \in {"northeast", "east", "southeast"} -> c.x + c.w - t.w
                [] OTHER -> c.x
        y0 == CASE a \in {"none", "center", "east", "west"} -> c.y + Half(c.h - t.h)
                [] a \in {"southeast", "south", "southwest"} -> c.y + c.h - t.h
                [] OTHER -> c.y
        shift(v) == IF ~down THEN v
                    ELSE LET n == 100 * v + 65 * Border[w]
                         IN  IF n >= 0 THEN n \div 100 ELSE -((-n) \div 100)
    IN  [x |-> shift(x0), y |-> shift(y0), w |-> t.w, h |-> t.h]

\* border_clipper: its grandparent's content_rect for a no_clipping button
\* (a toplevel's close button), else the damaged rect.
border_clipper(w, clipper) ==
    IF NoClip[w] THEN Content[Parent(Parent(w))] ELSE clipper

\* What drawframebuttonclasses(widget, surface, pick_surface, clipper)
\* draws into the visible surface: the border (two polygons in the
\* relief's colours) and the body, or the body alone without a border,
\* then the text clipped by final_clipper, which is screen_location
\* itself when there is no border.
DrawnFrameButton(v, w, clipper, st) ==
    LET bclip == border_clipper(w, clipper)
        bordered == Border[w] # 0
        final == IF bordered THEN get_ei_rect_intersection(clipper, Content[w])
                 ELSE Screen[w]
        v1 == IF bordered
              THEN Put(Put(v, get_ei_rect_intersection(Screen[w], bclip),
                           <<w, st.relief[w]>>), final, <<w, "body">>)
              ELSE Put(v, get_ei_rect_intersection(Screen[w], bclip), <<w, "body">>)
        down == st.pressed = w /\ st.pressingOver
    IN  IF Text[w] = NoText THEN v1
        ELSE Put(v1, get_ei_rect_intersection(
                        TextAt(w, Content[w], Text[w], down), final),
                 <<w, "text">>)

\* The pick colour clipped by the damaged rect even for a no_clipping
\* button, whose border is still drawn with border_clipper.
drawframebuttonclassesPickClipped(s, w, clipper, st) ==
    [vis |-> DrawnFrameButton(s.vis, w, clipper, st),
     pick |-> Put(s.pick, get_ei_rect_intersection(Screen[w], clipper), w)]

\* drawframebuttonclasses: the visible surface as above, and the pick
\* colour over screen_location (ei_rounded_frame_all) within border_clipper.
drawframebuttonclasses(s, w, clipper, st) ==
    [vis |-> DrawnFrameButton(s.vis, w, clipper, st),
     pick |-> Put(s.pick, get_ei_rect_intersection(Screen[w],
                                                   border_clipper(w, clipper)), w)]

\* drawtoplevel: the frame colour over draw_rect and the background over
\* content_rect, both within the clipper, the pick colour over draw_rect,
\* the title TitleX (25) + border_width pixels right of draw_rect's corner.
drawtoplevel(s, w, clipper) ==
    LET all == get_ei_rect_intersection(clipper, DrawRect[w])
        cont == get_ei_rect_intersection(clipper, Content[w])
        title == [x |-> DrawRect[w].x + TitleX + Border[w], y |-> DrawRect[w].y,
                  w |-> TitleSize.w, h |-> TitleSize.h]
    IN  [vis |-> Put(Put(Put(s.vis, all, <<w, "frame">>), cont, <<w, "body">>),
                     get_ei_rect_intersection(title, all), <<w, "title">>),
         pick |-> Put(s.pick, all, w)]

\* wclass->drawfunc
drawfunc(s, w, clipper, st) ==
    IF Cls[w] = "toplevel" THEN drawtoplevel(s, w, clipper)
    ELSE drawframebuttonclasses(s, w, clipper, st)

\* ei_draw_widget_children(widget, parent_clipper): nothing for a clipper
\* of negative size; else each child in turn is drawn with the clipper,
\* then its own children with the clipper cut to its content_rect.
RECURSIVE ei_draw_widget_children(_, _, _, _), DrawKids(_, _, _, _)
ei_draw_widget_children(s, w, clipper, st) ==
    IF clipper.w < 0 \/ clipper.h < 0 THEN s
    ELSE DrawKids(s, Kids[w], clipper, st)

DrawKids(s, ks, clipper, st) ==
    IF ks = <<>> THEN s
    ELSE LET c == Head(ks)
             s1 == ei_draw_widget_children(drawfunc(s, c, clipper, st), c,
                       get_ei_rect_intersection(clipper, Content[c]), st)
         IN  DrawKids(s1, Tail(ks), clipper, st)

\* The tree drawn within rect r: the root's drawfunc, then its children.
DrawTree(s, r, st) == ei_draw_widget_children(drawfunc(s, Root, r, st), Root, r, st)

\* normalize_rect(rect, window_size) of ei_calculations.c.
normalize_rect(r) ==
    LET w1 == r.w + min(0, r.x)
        h1 == r.h + min(0, r.y)
        x1 == max(0, r.x)
        y1 == max(0, r.y)
    IN  [x |-> x1, y |-> y1,
         w |-> IF x1 + w1 >= Win.w THEN Win.w - x1 ELSE w1,
         h |-> IF y1 + h1 >= Win.h THEN Win.h - y1 ELSE h1]

\* The handlers invalidate &screen_location, which normalize_rect would
\* clip in place: the buttons lie inside the window, so it stays as it is.
ASSUME \A b \in Pressable : normalize_rect(Screen[b]) = Screen[b]

Blank == [vis |-> [p \in Px |-> <<NIL, "none">>], pick |-> [p \in Px |-> NIL]]

State(rl, pr, po) == [relief |-> rl, pressed |-> pr, pressingOver |-> po]

\* initialDraw: the root's drawfunc and ei_draw_widget_children, both with
\* the root's content_rect, on surfaces with whatever they held.
initialDraw(s, st) ==
    ei_draw_widget_children(drawfunc(s, Root, Content[Root], st), Root,
                            Content[Root], st)

\* The end of an iteration of ei_app_run after a handler that set the
\* relief, button_pressed and pressing_over and invalidated the button b's
\* screen_location: the list holds that one rect, which is redrawn.
Redrawn(b, rl, pr, po) ==
    /\ relief' = rl /\ pressed' = pr /\ pressingOver' = po
    /\ LET s == DrawTree([vis |-> vis, pick |-> pick], normalize_rect(Screen[b]),
                         State(rl, pr, po))
       IN  vis' = s.vis /\ pick' = s.pick

\* A left button press at p: bound to the tag "button", so it runs when the
\* widget whose pick colour is at p is a button.
ei_handle_button_down(p) ==
    /\ pick[p] \in Pressable
    /\ Redrawn(pick[p], [relief EXCEPT ![pick[p]] = "sunken"], pick[p], TRUE)

\* A release that raises the button but does not invalidate it.
ei_handle_button_upNoInval(p) ==
    IF pick[p] # pressed
    THEN /\ pressed' = NIL
         /\ UNCHANGED <<vis, pick, relief, pressingOver>>
    ELSE /\ relief' = [relief EXCEPT ![pick[p]] = "raised"]
         /\ pressed' = NIL /\ pressingOver' = FALSE
         /\ UNCHANGED <<vis, pick>>

\* A left button release at p: button_pressed is cleared; the button under
\* the pointer is raised and redrawn when it is the pressed one.
ei_handle_button_up(p) ==
    IF pick[p] # pressed
    THEN /\ pressed' = NIL
         /\ UNCHANGED <<vis, pick, relief, pressingOver>>
    ELSE Redrawn(pick[p], [relief EXCEPT ![pick[p]] = "raised"], NIL, FALSE)

\* A move to p while a button is pressed: it is raised when the pointer
\* left it and sunken again when the pointer comes back.
ei_handle_button_move(p) ==
    /\ pressed # NIL
    /\ \/ /\ pick[p] # pressed /\ relief[pressed] = "sunken"
          /\ Redrawn(pressed, [relief EXCEPT ![pressed] = "raised"], pressed, FALSE)
       \/ /\ pick[p] = pressed /\ relief[pressed] = "raised"
          /\ Redrawn(pressed, [relief EXCEPT ![pressed] = "sunken"], pressed, TRUE)

Init ==
    /\ relief = Relief0
    /\ pressed = NIL /\ pressingOver = FALSE
    /\ LET s == initialDraw(Blank, State(relief, pressed, pressingOver))
       IN  vis = s.vis /\ pick = s.pick

Next ==
    \E p \in Px :
        \/ ei_handle_button_down(p)
        \/ ei_handle_button_up(p)
        \/ ei_handle_button_move(p)

Spec == Init /\ [][Next]_vars
-----------------------------------------------------------------------------
(* Properties. *)

\* Spec section 4.6: each invalidated rect is redrawn by drawing the whole
\* tree clipped to it, and the pick surface makes picking exact; so between
\* events both surfaces show what a full redraw of the tree in its current
\* state shows, and the widget picked at a pixel is the one drawn on top
\* there.  The close button of a toplevel is drawn (no_clipping) with its
\* grandparent's content_rect as clipper instead of the damaged rect, and
\* the text of a widget without border with its own screen_location.
DrawnAsFullRedraw ==
    [vis |-> vis, pick |-> pick]
        = initialDraw(Blank, State(relief, pressed, pressingOver))

\* ei_widget_pick answers for a pixel with the widget whose pick colour the
\* last redraw left there; so that a click acts on what the user sees,
\* every pixel of the pick surface names the widget the visible surface
\* shows there, after any sequence of press, move and release redraws.
\* Each drawfunc writes the two surfaces with its own clippers:
\* border_clipper for the border and the pick colour, final_clipper for
\* the body and the text, draw_rect for a toplevel.
PickMatchesVisible == \A p \in Px : pick[p] = vis[p][1]

\* Every handler that changes a relief invalidates the button, and the
\* redraw at the end of the event repaints it: between events, a button's
\* border shows the relief the button now has, whatever the press, move
\* and release sequence was.
DrawnReliefCurrent ==
    \A p \in Px : vis[p][2] \in {"none", "raised", "sunken"}
                   => vis[p][2] = relief[vis[p][1]]
=============================================================================
