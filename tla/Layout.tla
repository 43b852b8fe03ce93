------------------------------- MODULE Layout -------------------------------
(***************************************************************************)
(* Geometry management of a tree of widgets below the root: ei_place      *)
(* (ei_geometrymanager.c) stores the placement parameters of a widget and *)
(* calls runplacer (ei_placermanager.c), which computes screen_location    *)
(* from them, from the parent's content_rect and from the widget's        *)
(* requested_size; when the location changed it invalidates the old one   *)
(* and calls the class's geomnotify: geomnotifyframe (ei_frameclass.c)     *)
(* and geomnotifybutton recompute the content_rect of a bordered widget,  *)
(* geomnotifytoplevel its content_rect and draw_rect; each re-runs         *)
(* runplacer on every child that has parameters, in sibling order, and    *)
(* invalidates a rect, which normalize_rect clips in place for the frame  *)
(* and the button.                                                         *)
(* ei_geometrymanager_unmap drops the parameters; ei_frame_configure       *)
(* (ei_widget.c) sets requested_size and border_width and re-runs the      *)
(* placer.                                                                 *)
(*                                                                         *)
(* content_rect is either an alias of screen_location (alias[w]) or a      *)
(* rect of its own (content[w]).  The float fractions rel_* are multiples  *)
(* of 1/Den, exact in a float; the float-to-int conversion truncates       *)
(* toward zero.  Colour, relief, fonts, text storage and images do not     *)
(* change any geometry and are left out.                                   *)
(***************************************************************************)
EXTENDS Integers, Sequences

CONSTANTS
    W,            \* the frames below the root
    Root,         \* the root widget, whose content_rect is root
    Kids,         \* Kids[p]: the children of p (p in W \cup {Root}), in sibling order
    Den,          \* rel_x = RelNum / Den
    WinSize,      \* ei_app_root_widget()->screen_location.size, [w, h]
    Args,         \* Args[w]: the calls ei_place(w, ...) may get, records of fields or NoArg
    ConfArgs,     \* the calls ei_frame_configure may get (requested_size, border_width, text)
    TextSize,     \* hw_text_compute_size of the text a configure call may give
    Border0,      \* border_width of each frame when the model starts
    Req0,         \* requested_size of each frame when the model starts
    NoArg,        \* a NULL argument pointer
    Cls,          \* Cls[w]: the class of w, "frame", "button" or "toplevel"
    TitleH,       \* default_topbar_height of ei_toplevelclass.h
    TopReq        \* the requested_size ei_toplevel_configure sets by default (320x240)

ASSUME Den \in Nat \ {0}

VARIABLES
    params,    \* params[w]: geom_params, or None
    screen,    \* screen_location
    alias,     \* content_rect = &screen_location
    content,   \* *content_rect when it is not an alias
    border,    \* *border_width
    req,       \* requested_size
    drawr,     \* a toplevel's *draw_rect (ZeroRect until first notified)
    inval,     \* the rects handed to ei_app_invalidate_rect by the last call
    call       \* the last API call, for the action properties

vars == <<params, screen, alias, content, border, req, drawr, inval, call>>

None == [manager |-> "none"]

Anchors == {"center", "north", "northeast", "east", "southeast", "south",
            "southwest", "west", "northwest"}

ZeroRect == [x |-> 0, y |-> 0, w |-> 0, h |-> 0]

\* The parent of each widget: the one whose children list holds it.
Parents == [w \in W |-> CHOOSE p \in W \cup {Root} : \E i \in DOMAIN Kids[p] : Kids[p][i] = w]

Par(w) == Parents[w]

\* calloc'd ei_placer_param_t: every field zero.
CallocParams ==
    [manager |-> "placer", anchor |-> "none", x |-> 0, y |-> 0,
     width |-> 0, height |-> 0, rel_x |-> 0, rel_y |-> 0,
     rel_width |-> 0, rel_height |-> 0]

\* Conversion of num / Den to int: truncation toward zero.
Trunc(num) == IF num >= 0 THEN num \div Den ELSE -((-num) \div Den)

\* C's int division by 2.
Half(a) == IF a >= 0 THEN a \div 2 ELSE -((-a) \div 2)

extend_rect(r) == [x |-> r.x - 2, y |-> r.y - 2, w |-> r.w + 4, h |-> r.h + 4]

\* The macros min and max of ei_calculations.h.
min(a, b) == IF a < b THEN a ELSE b
max(a, b) == IF a < b THEN b ELSE a

\* normalize_rect(rect, window_size) of ei_calculations.c, statement by
\* statement: the size loses the part left of or above the window, the
\* corner is clamped to 0, the size is cut at the right and bottom edges.
normalize_rect(r) ==
    LET w1 == r.w + min(0, r.x)
        h1 == r.h + min(0, r.y)
        x1 == max(0, r.x)
        y1 == max(0, r.y)
    IN  [x |-> x1, y |-> y1,
         w |-> IF x1 + w1 >= WinSize.w THEN WinSize.w - x1 ELSE w1,
         h |-> IF y1 + h1 >= WinSize.h THEN WinSize.h - y1 ELSE h1]

\* The anchor shift of runplacer's switch; anchor none falls to the
\* default, north-west.
AnchorShift(anc, x0, y0, width, height) ==
    [x |-> CASE anc \in {"center", "north", "south"} -> x0 - Half(width)
             [] anc \in {"northeast", "east", "southeast"} -> x0 - width
             [] OTHER -> x0,
     y |-> CASE anc \in {"center", "east", "west"} -> y0 - Half(height)
             [] anc \in {"southeast", "south", "southwest"} -> y0 - height
             [] OTHER -> y0,
     w |-> width, h |-> height]

\* runplacer with the anchor switch taking north-east for south-west.
runplacerSwapped(p, ps, rq) ==
    LET width == IF Trunc(ps.w * p.rel_width + Den * p.width) = 0 THEN rq.w
                 ELSE Trunc(ps.w * p.rel_width + Den * p.width)
        height == IF Trunc(ps.h * p.rel_height + Den * p.height) = 0 THEN rq.h
                  ELSE Trunc(ps.h * p.rel_height + Den * p.height)
        anc == CASE p.anchor = "southwest" -> "northeast"
                 [] p.anchor = "northeast" -> "southwest"
                 [] OTHER -> p.anchor
    IN  AnchorShift(anc, Trunc(ps.w * p.rel_x + Den * (p.x + ps.x)),
                    Trunc(ps.h * p.rel_y + Den * (p.y + ps.y)), width, height)

\* The screen_location runplacer computes from the parameters p, the
\* parent's content_rect ps and the requested size rq: the north-west
\* corner, the size (a zero size takes the requested one), the anchor.
runplacer(p, ps, rq) ==
    LET h0 == Trunc(ps.h * p.rel_height + Den * p.height)
        w0 == Trunc(ps.w * p.rel_width + Den * p.width)
        height == IF h0 = 0 THEN rq.h ELSE h0
        width == IF w0 = 0 THEN rq.w ELSE w0
    IN  AnchorShift(p.anchor, Trunc(ps.w * p.rel_x + Den * (p.x + ps.x)),
                    Trunc(ps.h * p.rel_y + Den * (p.y + ps.y)), width, height)

\* The change test of runplacer comparing the corner only.
ChangedCorner(r, old) == r.x # old.x \/ r.y # old.y

\* The change test of runplacer: any of the four fields differs.
Changed(r, old) == r # old

\* The root's content_rect: the alias of its screen_location, the window
\* (ei_app_create).
RootRect == [x |-> 0, y |-> 0, w |-> WinSize.w, h |-> WinSize.h]

\* r shrunk by b on every side.
Inset(r, b) == [x |-> r.x + b, y |-> r.y + b, w |-> r.w - 2 * b, h |-> r.h - 2 * b]

\* *p->content_rect in the layout state st.
ContentOf(p, st) ==
    IF p = Root THEN RootRect
    ELSE IF st.alias[p] THEN st.screen[p] ELSE st.content[p]

\* runplacer(w), geomnotifyframe(w) and the loop of geomnotifyframe over
\* the children ks, each a function from a layout state (a record with a
\* field per variable) to the state it leaves.
RECURSIVE RunPlacer(_, _), Geomnotify(_, _), geomnotifyframe(_, _),
          geomnotifybutton(_, _), geomnotifytoplevel(_, _), RunKids(_, _)

\* geomnotifyframe with the braces of its malloc test misplaced: the
\* content_rect is computed only when it is still the alias.
geomnotifyframeFirstOnly(w, st) ==
    LET b == st.border[w]
        st1 == IF b # 0 /\ st.alias[w]
               THEN [st EXCEPT !.alias[w] = FALSE,
                               !.content[w] = [x |-> st.screen[w].x + b,
                                               y |-> st.screen[w].y + b,
                                               w |-> st.screen[w].w - 2 * b,
                                               h |-> st.screen[w].h - 2 * b]]
               ELSE st
        st2 == RunKids(Kids[w], st1)
    IN  [st2 EXCEPT !.inval = @ \cup {st2.screen[w]},
                    !.screen[w] = normalize_rect(@)]

\* runplacer: nothing without parameters; else screen_location takes the
\* computed rect and, when it changed, extend_rect of the old one is
\* invalidated and geomnotify is called.
RunPlacer(w, st) ==
    IF st.params[w] = None THEN st
    ELSE LET old == st.screen[w]
             r == runplacer(st.params[w], ContentOf(Par(w), st), st.req[w])
             st1 == [st EXCEPT !.screen[w] = r]
         IN  IF Changed(r, old)
             THEN Geomnotify(w, [st1 EXCEPT !.inval = @ \cup {extend_rect(old)}])
             ELSE st1

\* geomnotifyframe: a frame with a non-zero border gets a content_rect of
\* its own (malloc'd when it was the alias) set to screen_location inset
\* by the border; the children are re-run; ei_app_invalidate_rect(
\* &screen_location) clips screen_location in place.
geomnotifyframe(w, st) ==
    LET b == st.border[w]
        st1 == IF b # 0
               THEN [st EXCEPT !.alias[w] = FALSE,
                               !.content[w] = [x |-> st.screen[w].x + b,
                                               y |-> st.screen[w].y + b,
                                               w |-> st.screen[w].w - 2 * b,
                                               h |-> st.screen[w].h - 2 * b]]
               ELSE st
        st2 == RunKids(Kids[w], st1)
    IN  [st2 EXCEPT !.inval = @ \cup {st2.screen[w]},
                    !.screen[w] = normalize_rect(@)]

\* geomnotifybutton: a button with a non-zero border gets a content_rect
\* of its own set to screen_location inset by the border, a borderless one
\* the alias again; the children are re-run; ei_app_invalidate_rect(
\* content_rect) clips the content_rect, or the aliased screen_location,
\* in place.
geomnotifybutton(w, st) ==
    LET b == st.border[w]
        st1 == IF b # 0
               THEN [st EXCEPT !.alias[w] = FALSE,
                               !.content[w] = Inset(st.screen[w], b)]
               ELSE [st EXCEPT !.alias[w] = TRUE]
        st2 == RunKids(Kids[w], st1)
    IN  IF st2.alias[w]
        THEN [st2 EXCEPT !.inval = @ \cup {st2.screen[w]},
                         !.screen[w] = normalize_rect(@)]
        ELSE [st2 EXCEPT !.inval = @ \cup {st2.content[w]},
                         !.content[w] = normalize_rect(@)]

\* geomnotifytoplevel: the content_rect (malloc'd when it was the alias)
\* is screen_location moved right by the border and down by the title
\* bar, the same size; draw_rect is screen_location grown by two borders
\* across and by a border and the title bar down; the children are
\* re-run; extend_rect of a copy of draw_rect is invalidated.
geomnotifytoplevel(w, st) ==
    LET b == st.border[w]
        s == st.screen[w]
        st1 == [st EXCEPT !.alias[w] = FALSE,
                          !.content[w] = [x |-> s.x + b, y |-> s.y + TitleH,
                                          w |-> s.w, h |-> s.h],
                          !.drawr[w] = [x |-> s.x, y |-> s.y, w |-> s.w + 2 * b,
                                        h |-> s.h + b + TitleH]]
        st2 == RunKids(Kids[w], st1)
    IN  [st2 EXCEPT !.inval = @ \cup {extend_rect(st2.drawr[w])}]

\* widget->wclass->geomnotifyfunc(widget): the class's callback.
Geomnotify(w, st) ==
    CASE Cls[w] = "toplevel" -> geomnotifytoplevel(w, st)
      [] Cls[w] = "button" -> geomnotifybutton(w, st)
      [] OTHER -> geomnotifyframe(w, st)

RunKids(ks, st) ==
    IF ks = <<>> THEN st ELSE RunKids(Tail(ks), RunPlacer(Head(ks), st))

\* The layout state and its commit, which ends a call.
St == [params |-> params, screen |-> screen, alias |-> alias,
       content |-> content, border |-> border, req |-> req,
       drawr |-> drawr, inval |-> {}]

Commit(st, c) ==
    /\ params' = st.params
    /\ screen' = st.screen
    /\ alias' = st.alias
    /\ content' = st.content
    /\ border' = st.border
    /\ req' = st.req
    /\ drawr' = st.drawr
    /\ inval' = st.inval
    /\ call' = c

\* One field of ei_place: the argument when given, else the default on
\* first use, else the stored value.
Field(arg, first, default, old) ==
    IF arg # NoArg THEN arg ELSE IF first THEN default ELSE old

\* The parameters after ei_place(a) on the stored p (first: no geom_params)
\* for a widget whose requested_size is rq.
PlaceParams(p, a, first, rq) ==
    [manager |-> "placer",
     anchor |-> Field(a.anchor, first, "northwest", p.anchor),
     x |-> Field(a.x, first, 0, p.x),
     y |-> Field(a.y, first, 0, p.y),
     width |-> Field(a.width, first,
                     IF a.rel_width # NoArg THEN 0 ELSE rq.w, p.width),
     height |-> Field(a.height, first,
                      IF a.rel_height # NoArg THEN 0 ELSE rq.h, p.height),
     rel_x |-> Field(a.rel_x, first, 0, p.rel_x),
     rel_y |-> Field(a.rel_y, first, 0, p.rel_y),
     rel_width |-> Field(a.rel_width, first, 0, p.rel_width),
     rel_height |-> Field(a.rel_height, first, 0, p.rel_height)]

\* ei_place whose unmap test forgets the manager's name.
UnmapsOtherUnnamed(p) == p # None

\* ei_place unmaps parameters of another geometry manager first.
UnmapsOther(p) == p # None /\ p.manager # "placer"

\* ei_geometrymanager_unmap on the state st: nothing without parameters;
\* else free them, invalidate screen_location and zero it.
Unmap(w, st) ==
    IF st.params[w] = None THEN st
    ELSE [st EXCEPT !.params[w] = None, !.inval = @ \cup {st.screen[w]},
                    !.screen[w] = ZeroRect]

\* ei_place(w, a): unmap another manager's parameters, calloc on first
\* use, set the fields, run the placer.
ei_place(w, a) ==
    LET st == IF UnmapsOther(params[w]) THEN Unmap(w, St) ELSE St
        first == st.params[w] = None
        p == PlaceParams(IF first THEN CallocParams ELSE st.params[w], a,
                         first, req[w])
    IN  Commit(RunPlacer(w, [st EXCEPT !.params[w] = p]), <<"place", w>>)

ei_geometrymanager_unmap(w) ==
    /\ params[w] # None
    /\ Commit(Unmap(w, St), <<"unmap", w>>)

\* requested_size after ei_frame_configure(a): the argument, else the
\* text's size plus the border argument (0 when NULL) on each side, else
\* 0x0.
ConfiguredSize(a) ==
    LET b == IF a.border_width # NoArg THEN a.border_width ELSE 0
    IN  CASE a.requested_size # NoArg -> a.requested_size
          [] a.text # NoArg -> [w |-> TextSize.w + 2 * b, h |-> TextSize.h + 2 * b]
          [] OTHER -> [w |-> 0, h |-> 0]

\* The border_width part of ei_frame_configure: a given border is stored,
\* and a content_rect that is not the alias is replaced by a calloc'd one.
ConfigureBorder(w, a, st) ==
    IF a.border_width = NoArg THEN st
    ELSE [st EXCEPT !.border[w] = a.border_width,
                    !.content[w] = IF st.alias[w] THEN @ ELSE ZeroRect]

\* ei_frame_configure(w, a): requested_size, then border_width; a placed
\* frame is re-run by its geometry manager and extend_rect of its
\* screen_location invalidated.
ei_frame_configure(w, a) ==
    LET st1 == ConfigureBorder(w, a, [St EXCEPT !.req[w] = ConfiguredSize(a)])
        st2 == RunPlacer(w, st1)
    IN  Commit(IF params[w] = None THEN st1
               ELSE [st2 EXCEPT !.inval = @ \cup {extend_rect(st2.screen[w])}],
               <<"configure", w>>)

\* ei_button_configure(w, a): its geometry is that of ei_frame_configure,
\* statement for statement (requested_size from the size, the text or 0x0;
\* the same inverted calloc test on border_width; the re-run and
\* extend_rect invalidation of a placed button).  Its other fields
\* (corner radius, colour, relief, text, image, callback, and the
\* no_clipping, is_quit_button and is_resize_button flags it resets)
\* change no geometry.
ei_button_configure(w, a) == ei_frame_configure(w, a)

\* ei_toplevel_configure(w, a) with closable and resizable NULL (removing
\* a handle is modelled in Toolkit): requested_size is the argument, else
\* 320x240; a given border_width is stored and the content_rect left as it
\* is; a placed toplevel is re-run and extend_rect of its location
\* invalidated.  The title, colour and min_size change no geometry.
ei_toplevel_configure(w, a) ==
    LET st1 == [St EXCEPT !.req[w] = IF a.requested_size # NoArg
                                     THEN a.requested_size ELSE TopReq,
                          !.border[w] = IF a.border_width # NoArg
                                        THEN a.border_width ELSE @]
        st2 == RunPlacer(w, st1)
    IN  Commit(IF params[w] = None THEN st1
               ELSE [st2 EXCEPT !.inval = @ \cup {extend_rect(st2.screen[w])}],
               <<"configure", w>>)

\* The configure function a client calls for the class of w.
Configure(w, a) ==
    CASE Cls[w] = "frame" -> ei_frame_configure(w, a)
      [] Cls[w] = "button" -> ei_button_configure(w, a)
      [] OTHER -> ei_toplevel_configure(w, a)

\* Each widget as ei_widget_create (setdefaults of its class) and a first
\* configure call leave it before it is placed: content_rect the alias.
Init ==
    /\ params = [w \in W |-> None]
    /\ screen = [w \in W |-> ZeroRect]
    /\ alias = [w \in W |-> TRUE]
    /\ content = [w \in W |-> ZeroRect]
    /\ border = Border0
    /\ req = Req0
    /\ drawr = [w \in W |-> ZeroRect]
    /\ inval = {}
    /\ call = <<"init", Root>>

Next ==
    \/ \E w \in W : \E a \in Args[w] : ei_place(w, a)
    \/ \E w \in W : ei_geometrymanager_unmap(w)
    \/ \E w \in W, a \in ConfArgs : Configure(w, a)

Spec == Init /\ [][Next]_vars
-----------------------------------------------------------------------------
(* Properties. *)

Pixels(r) == (r.x .. r.x + r.w - 1) \X (r.y .. r.y + r.h - 1)

\* The anchor point of each anchor, in halves of the width and height
\* from the north-west corner (spec section 3: nine positions).
AnchorFrac ==
    [center |-> <<1, 1>>, north |-> <<1, 0>>, northeast |-> <<2, 0>>,
     east |-> <<2, 1>>, southeast |-> <<2, 2>>, south |-> <<1, 2>>,
     southwest |-> <<0, 2>>, west |-> <<0, 1>>, northwest |-> <<0, 0>>,
     none |-> <<0, 0>>]

\* Reference placement (spec section 4.3): the size is the absolute size
\* plus the relative fraction of the parent's content, the requested size
\* rq when that is zero; the anchor point lies at the parent's corner plus
\* the relative and absolute offsets, and the rect is shifted so that its
\* anchor sits on it.
RefPlace(p, ps, rq) ==
    LET size(rel, abs, len, dflt) ==
            LET s == Trunc(len * rel + Den * abs) IN IF s = 0 THEN dflt ELSE s
        w == size(p.rel_width, p.width, ps.w, rq.w)
        h == size(p.rel_height, p.height, ps.h, rq.h)
        f == AnchorFrac[p.anchor]
    IN  [x |-> Trunc(ps.w * p.rel_x + Den * (p.x + ps.x)) - (f[1] * w) \div 2,
         y |-> Trunc(ps.h * p.rel_y + Den * (p.y + ps.y)) - (f[2] * h) \div 2,
         w |-> w, h |-> h]

\* w and all its ancestors below the root have placement parameters.
RECURSIVE Placed(_)
Placed(w) == params[w] # None /\ (Par(w) = Root \/ Placed(Par(w)))

\* Where the reference puts a placed widget, and the content rect it gives
\* it (spec section 3: the screen rect minus the border insets).
RECURSIVE RefScreen(_), RefContent(_)
RefScreen(w) == RefPlace(params[w], RefContent(Par(w)), req[w])
RefContent(p) ==
    CASE p = Root -> RootRect
      [] Cls[p] = "toplevel" ->
             LET s == RefScreen(p)
             IN  [x |-> s.x + border[p], y |-> s.y + TitleH, w |-> s.w, h |-> s.h]
      [] OTHER -> Inset(RefScreen(p), border[p])

\* Spec section 4.3: a placed widget's screen_location is where the placer
\* puts it, for its stored parameters, its requested size and its
\* parent's content_rect.  geomnotifyframe breaks this for a widget that
\* sticks out of the root window: invalidating &screen_location clips it
\* in place.
PlacedAsReference == \A w \in W : Placed(w) => screen[w] = RefScreen(w)

\* What the code keeps instead, whatever sequence of ei_place, unmap and
\* ei_frame_configure calls on the frame and its children led here: every
\* placed widget's screen_location is the reference placement, inside the
\* reference content rect of its parent, as normalize_rect clips it.  A
\* child is laid out inside its parent's content_rect as geomnotifyframe
\* last computed it, so this fails when that rect is stale.
PlacedAsClippedReference ==
    \A w \in W : Placed(w) =>
        screen[w] = IF Cls[w] = "toplevel" THEN RefScreen(w)
                    ELSE normalize_rect(RefScreen(w))

\* Spec section 3: the content rect of a placed frame or button with a
\* border is its screen rect minus the border on every side, after any
\* sequence of placements and ei_frame_configure calls.
ContentInset ==
    \A w \in W : Placed(w) /\ border[w] # 0 /\ Cls[w] # "toplevel" =>
        ContentOf(w, St) = Inset(RefScreen(w), border[w])

\* The pixels a managed widget draws on: a toplevel's draw_rect (border
\* and title bar included), any other widget's screen_location.
DrawnPixels(w) ==
    IF params[w] = None THEN {}
    ELSE Pixels(IF Cls[w] = "toplevel" THEN drawr[w] ELSE screen[w])

\* Spec section 4.3: when a call moves, resizes, places or unmaps a
\* widget, the widget itself or a child re-run by its geomnotify, both
\* the area it drew on and the area it now draws on are invalidated, so
\* the redraw repaints them and no trail of the old drawing is left in
\* the window.
MoveInvalidated ==
    [][\A w \in W : DrawnPixels(w)' # DrawnPixels(w) =>
         (DrawnPixels(w) \cup DrawnPixels(w)') \cap Pixels(RootRect)
             \subseteq UNION {Pixels(r) : r \in inval'}]_vars

InWindow(r) == r.x >= 0 /\ r.y >= 0 /\ r.x + r.w <= WinSize.w /\ r.y + r.h <= WinSize.h

\* Spec section 8, idempotence: ei_place on a placed widget with its
\* stored values leaves every screen_location unchanged and enqueues no
\* damage, for a widget placed inside the window (one sticking out is
\* invalidated again each time, its clipped location differing from the
\* computed one).
PlaceIdempotent ==
    [][\A w \in W :
         call' = <<"place", w>> /\ params'[w] = params[w]
         /\ Placed(w) /\ InWindow(RefScreen(w))
         => screen' = screen /\ inval' = {}]_vars
====
