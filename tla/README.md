# TLA+ models of the `ei` widget library

This directory holds TLA+ models of the C widget library in `src/`
(`src/src/*.c`, headers in `src/include`, example program `src/tests/frame.c`).
They are checked with TLC. Every module is translated from the C source.
`PROJECT.json` maps each definition to the lines it models and lists the runs,
mutants, findings and hazards.

## The system

The library is single threaded. `ei_app_run` loops over hardware events and,
for each one, walks a list of *bindings* (event type, target widget or tag,
callback). It calls every matching callback until one returns true, then
redraws the rectangles that were invalidated meanwhile. Its parts and how
they interact:

| part | source | state | operations |
|---|---|---|---|
| binding registry | `ei_event.c` | `top_event_bind`, a malloc'd singly linked list | `ei_bind` (append), `ei_unbind` (remove first exact match), `destroy_event_binded_to_widget` |
| dispatch loop | `ei_application.c` `ei_app_run` | current event, `current_bind`, `processed` | wait, walk bindings, redraw |
| picking | `ei_application.c`, `ei_widget.c` `ei_widget_pick` | offscreen pick surface: each widget drawn in a colour packed from its `pick_id` | `is_under_mouse`, `find_picked_tagged_widget`, `ei_widget_pick` |
| widget tree | `ei_widget.c` | `parent`, `children_head`, `children_tail`, `next_sibling`, global `wid_id` | `ei_widget_create` (insertion before a toplevel's resize button), `ei_widget_destroy` (+`_recurs`), `ei_*_configure` |
| toplevel class | `ei_toplevelclass.c`, `ei_widget.c` | `closable`, `resizable`, the resize and close buttons, statics `moving_toplevel`, `resizing_toplevel`, `offsetptr` | `setdefaultstoplevel`, `ei_toplevel_configure`, `beg_move`/`move`/`end_move`, `beg_resize`/`resize`/`end_resize`, `quit_toplevel_event` |
| button class | `ei_buttonclass.c` | globals `button_pressed`, `pressing_over`, each button's `relief` | `ei_handle_button_down/up/move` |
| damage list | `ei_application.c` `ei_app_invalidate_rect`, `ei_calculations.c` | `invalidated_rects` | merge with last rect or append, normalise, extend |
| placer | `ei_placermanager.c`, `ei_geometrymanager.c` | `geom_params` per widget | `ei_place`, `runplacer`, `ei_geometrymanager_unmap` |
| registries | `ei_widgetclass.c`, `ei_geometrymanager.c` | class and manager lists | register, from_name |
| drawing | `ei_draw.c`, `ei_draw_more.c`, the classes' `drawfunc` | the root surface and the pick surface | `ei_fill`, `ei_draw_polygon`, `ei_draw_text` under a clipper; `drawframe`, `drawbutton`, `drawtoplevel`; `ei_draw_widget_children` |

`ei_app_create` creates the root frame, whose pick id is 0. It then binds
seven built-in handlers, in this order:
1. button-down on tag "button" → `ei_handle_button_down`;
2. up on "all" → `ei_handle_button_up`;
3. move on "all" → `ei_handle_button_move`;
4. up → `end_resize`;
5. move → `resize`;
6. up → `end_move`;
7. move → `move`.

Creating a toplevel (`setdefaultstoplevel`) creates a resize button R and
binds `beg_resize` to it. It binds `beg_move` to the toplevel. Last, it
creates a close button Q and binds `quit_toplevel_event` to it. The
insertion rule of `ei_widget_create` puts Q in front of R, so the children
are `[Q, R]`.

Interactions that make the code hard:
- callbacks run inside the binding walk, and the walk reads `next` after the
  callback, which may have destroyed widgets and freed binding nodes;
- the module-level pointers `button_pressed`, `moving_toplevel` and
  `resizing_toplevel` persist across events and across destructions;
- the pick surface is refreshed only where something was invalidated;
- the tree and binding lists are hand-linked, with several unlink paths.

## Modules

- **`AbstractBindings`**: what the registry promises. It is a sequence of
  bindings with append, remove-first-equal, and drop every binding of a
  widget.
- **`Bindings`**: the registry at heap level. `Nodes` are addresses;
  `top`, `next` and `bnode` are the fields, and `alloc` is the set of
  allocated nodes. `free` removes a node from `alloc` but leaves its fields
  (freed memory keeps its contents). `malloc` may return any node not in
  `alloc`.
  - Its operations are written as pure operators on a record (`BindInto`,
    `UnbindFrom`, `DestroyWalk`), so that one handler can chain several calls
    in one step.
  - `DestroyWalk` keeps the code's `last_bind = curr_bind` after `free`.
  - `Abs == INSTANCE AbstractBindings WITH bindings <- BindContents` is the
    refinement mapping: the list read from `top`.
- **`MCBindings`**: the client discipline "at most one binding per widget".
  It is the discipline the library's own bindings keep.
- **`Toolkit`**: the runtime core.
  - **Tree:** the pointer fields as functions over widget ids (`Ids` =
    `0..MaxWidgets-1`), with `live` for the widgets not yet freed and
    `mapped` for those with `geom_params`.
  - **Bindings:** an instance `B` of `Bindings`.
  - **Handlers:** the button animation and drag globals.
  - **Dispatch loop:** `pc`, `ev`, `cursor`, `processed`.
  - **Pointer:** the pick colour under the pointer, `pixel`, as a widget id.
  - **Crash:** a NULL dereference sets `crashed` and stops the process.
  - **Actions:**
    - `WaitEvent` is `hw_event_wait_next`. The variable `held` (the buttons
      down) makes the hardware report a button down only while it is up, and
      up only while it is down; only `WaitEvent` changes it.
    - `SkipBinding` and `Fire` are one turn of the inner loop. `Fire` runs the
      callback's whole body: `Handler` selects `ButtonDown`, …, `Quit`.
    - `EndDispatch` is the redraw.
    - `ClientCall` is one iteration in which an application callback makes
      one library call: create a toplevel (with `setdefaultstoplevel` and
      its three bindings), create and place a button, destroy an
      application widget, `ei_toplevel_configure` with closable FALSE or
      resizable none/both, or `ei_bind`.
- **`MCToolkit`**: bounds and the sets of application calls each run allows.
- **`Damage`**: `invalidated_rects` as a sequence of integer rects.
  - `ei_app_invalidate_rect` applies `normalize_rect`, then the merge test
    and union with the last entry, or an append. `Redraw` is the end of an
    `ei_app_run` iteration: the list is flushed and freed.
  - The `min`/`max` macros and C's truncating `/2` are kept as written.
  - The ghost `damaged` holds the window pixels asked for since the last
    redraw. The ghost `req` holds the last normalised rect.
  - Inputs are widget rects, and `extend_rect` of them, with corners up to
    one pixel off every edge.
- **`MCDamage`**: a 3x2 window, sizes 1 and 2, at most two pending rects.
- **`Registries`**: the class list (`widclss_top`) and the manager list
  (`geommanager_top`) on one heap.
  - `Register` frees the record when `from_name` finds its name, and
    otherwise pushes it.
  - `RegisterClass` and `RegisterManager` are the calloc-and-register
    functions. The application may call them again at any time.
- **`AbstractRegistry`**: the contract of spec section 3, where a known name
  is a no-op and a new name goes in front. `Registries` maps each list to
  the sequence of its names.
- **`MCRegistries`**: the three classes, the placer and one spare record.
- **`Layout`**: geometry management of a widget `F` in the root window
  holding a widget `C`, each of a class given by `Cls`, as the
  `setdefaults` of its class and a first configure call leave them (`border`, `req`, and `alias`: whether
  content_rect is still `&screen_location`).
  - `ei_place(w, a)` covers the first-use defaults (`PlaceParams`, `Field`)
    and keeps the fields whose argument is NULL.
  - `RunPlacer` is runplacer: the corner, the size (with the fallback to
    requested_size when it is 0), the anchor switch (`AnchorShift`) and
    the change test (`Changed`). When the placement changed it invalidates
    `extend_rect` of the old rect and calls `Geomnotify`, the class's
    callback (`Cls[w]`).
  - `geomnotifyframe` gives a bordered frame a content_rect of its own (the
    screen rect inset by the border), re-runs every child with parameters
    in sibling order (`RunKids`), and invalidates `&screen_location`.
    `ei_app_invalidate_rect` runs `normalize_rect` on the rect it is given,
    in place, so the widget keeps its placement clipped to the window.
  - `geomnotifybutton` does the same with two differences. A borderless
    button's content_rect becomes the alias again. The rect invalidated,
    and so clipped in place, is the content_rect, not `screen_location`.
  - `geomnotifytoplevel` sets the content_rect to `screen_location` moved
    right by the border and down by the title bar (`TitleH`), with the
    same size. It sets `draw_rect` (`drawr`) to `screen_location` grown by
    two borders across and by a border and the title bar down. It re-runs
    the children and invalidates `extend_rect` of a copy of `draw_rect`,
    so nothing is clipped in place.
  - These callbacks, `RunPlacer` and `RunKids` are mutually `RECURSIVE` functions from a layout state (a
    record with a field per variable) to the state they leave; `Commit`
    ends the call.
  - `ei_frame_configure(w, a)` sets requested_size (`ConfiguredSize`: the
    argument, else the text size plus twice the border argument, else
    0x0), then the border (`ConfigureBorder`: a content_rect of its own is
    replaced by a calloc'd one), then re-runs a placed frame and
    invalidates `extend_rect` of its location.
  - `ei_button_configure` does the same to the geometry, statement for
    statement, including the inverted calloc test. The flags it resets
    (`no_clipping`, `is_quit_button`, `is_resize_button`) and its other
    fields change no geometry.
  - `ei_toplevel_configure` with closable and resizable NULL sets
    requested_size to the argument or 320x240 (`TopReq`), stores a given
    border and leaves the content_rect alone, then re-runs the placer of a
    placed toplevel. Removing a handle is modelled in `Toolkit`.
  - `Configure(w, a)` is the call a client makes for the class of `w`.
  - `ei_geometrymanager_unmap(w)` drops the parameters, invalidates and
    zeroes the location; the children keep theirs.
  - The root's content_rect is the window (`RootRect`): nothing places or
    resizes the root.
  - `call` names the last call, for `PlaceIdempotent`; `inval` holds the
    rects the call invalidated, before normalisation.
  - Fractions are multiples of 1/4, which a float holds exactly. The
    float-to-int conversion truncates.
- **`MCLayout`**: an 8x4 window. `F` starts with border 1 and requested
  size 3x2, `C` with no border and 1x1. A configure call gives a size
  of 3x2 or a 4x3 text. `MCFArgsInWindow` places `F` inside the window
  (x 0 or 1, 6 wide or as requested, as high as the window or as
  requested); `MCFArgsOut` may centre it on the window's left edge. `C`
  may take anchor north-east or south-west (the cases the anchor switch
  treats apart), width 2, rel_x 1/2, rel_width 1. `F`'s class is a
  constant of the cfg (`FCls`), and so is `C`'s (`CCls`): a borderless
  button in `layout_ok`, a frame in `layout_trail`. The title bar is 3 pixels
  high. Like the code's 30 pixels, it is higher than the 2-pixel margin of
  `extend_rect`; the border of 1 is scaled from 4 like the other lengths.
  `MCFArgsTrail` places `F` one pixel high and then 3 pixels to the
  right. `TopReq` is 4x2.
- **`Paint`**: the redraw itself, for a fixed tree whose layout is done.
  - `vis` and `pick` are the two surfaces, as functions from pixels to
    what each holds: `<<widget, part>>` and a widget id (its pick colour).
  - `drawframebuttonclasses` and `drawtoplevel` write rects into them.
    - The border is one value, the relief, over `screen_location`, cut by
      `border_clipper`. That clipper is the grandparent's content_rect for a
      `no_clipping` button, else the damaged rect.
    - The body goes over `final_clipper`.
    - The text goes at the anchor switch's corner, shifted by
      `border_width*0.65` while the button is pressed.
    - `final_clipper` is `screen_location` itself when the widget has no
      border.
  - `ei_draw_widget_children` and `DrawKids` are mutually `RECURSIVE`.
    They walk the children in order (painter's order), each with the
    parent's clipper cut to its content_rect.
  - The actions are the three button handlers. Each ends with the
    redraw of its one invalidated rect (`Redrawn`: the root's
    `drawfunc`, then `ei_draw_widget_children`, clipped to that rect).
    The widget the handler acts on is the one the pick surface holds
    under the pointer, as in `ei_widget_pick`.
  - `ei_draw_polygon` belongs to the course's hw library, not to `src/`.
    It is modelled by its contract: it fills the polygon inside the
    clipper. `ei_rounded_frame_*` polygons are rects, since corner radii
    are at most a pixel here.
- **`MCPaint`**: a 10x6 window with two toplevels, 1 then 4 (4 in front).
  - Each toplevel has its close button (2, 5) in its title bar.
  - Toplevel 1 holds buttons 3 (with a one-pixel text) and 6, away from
    toplevel 4. Toplevel 4 holds buttons 7 and 8.
  - Button 9 is a child of the root, drawn between the toplevels and
    partly covered by toplevel 4.
  - Close button 2 lies under toplevel 4's title bar.
  - Lengths are scaled to one pixel: the title bar (30 in the code), the
    borders of toplevels and buttons (4), and the title's offset (25,
    the constant `TitleX`). At that scale the pressed text shift
    `border_width*0.65` truncates to 0.
  - The content and draw rects follow `geomnotifytoplevel` and
    `geomnotifybutton`.

Geometry is abstracted:
- `moved` records that a handler changed the layout;
- a pointer move may bring any drawn widget under the pointer;
- after a redraw that follows a layout change, any drawn widget may be
  under the unmoved pointer.

A destroyed toplevel's title bar is not invalidated (`ei_widget_destroy`
invalidates `screen_location`, not `draw_rect`). So after the application
destroys a toplevel, its colour may stay under the pointer (`StalePick`).

## Runs

| run | expect | what it shows |
|---|---|---|
| `bindings_ok` | pass | Under one binding per widget, the heap list stays sound (`BindListSound`). Every step refines `AbstractBindings` (`BindingsRefineAbstract`). |
| `bindings_consecutive` | violation | Two consecutive bindings of a destroyed widget leave `top_event_bind` on a freed node (finding). |
| `toolkit_tree` | pass | Creation, application destroys, closable/resizable reconfiguration and clicks through every built-in handler keep the tree sound (`TreeSound`) and R last (`ResizeHandleLast`). The process may stop on a NULL dereference, so deadlock is not checked. |
| `toolkit_dispatch` | pass | With an application binding on a button and both mouse buttons, the press animation stays consistent between events (`PressedLooksPressed`). Every release, left or right, ends any move or resize (`UpEndsDrag`). 2382692 states, about 30 s alone. |
| `toolkit_quit_bindings` | violation | Closing a toplevel leaves the bindings of its freed handles in the list. |
| `toolkit_stale_pick` | violation | After the application destroys a toplevel being dragged, the release does not end the move. |
| `damage_ok` | pass | The list keeps every invalidated window pixel (`Coverage`) and stays inside the window (`EntriesInWindow`). The code merges whenever the spec's locality test holds (`MergesWhenNear`). |
| `registries_ok` | pass | Duplicate registrations free only the new record. Both lists stay sound and hold every allocated record (`RegistriesSound`), and each registration refines `AbstractRegistry`, where a repeated name changes nothing. |
| `layout_ok` | pass | Over every sequence of `ei_place`, unmap and configure calls on the frame `F` (inside the window) and the borderless button `C`: each placed widget is where the reference placement puts it, relative to its parent's reference content rect (the parent's placement inset by its border), clipped to the window (`PlacedAsClippedReference`); `C` is re-laid out whenever `F` moves or changes size. `F`'s content rect is its placement inset by its border (`ContentInset`). Every move, placement or unmap, of `F` or of `C` re-run by `F`'s geomnotify, invalidates the area the widget drew on and the one it now draws on (`MoveInvalidated`). Re-placing a widget inside the window with its stored values enqueues no damage (spec section 8, `PlaceIdempotent`). 210011 states, about 90 s alone. |
| `layout_trail` | violation | Spec section 4.3: whatever a call moves, places or unmaps, the area the widget drew on and the area it now draws on are invalidated (`MoveInvalidated`). Here `F` is a toplevel. `ei_place(F)` puts it at (0,0,3,2), with `draw_rect` (0,0,5,6). `ei_geometrymanager_unmap(F)`, which `ei_widget_destroy` calls, invalidates only `screen_location` (0,0,3,2), so the rest of its `draw_rect` in the window stays on screen: columns 3 and 4 and rows 2 and 3, its border and title-bar area (finding). |
| `paint_pick` | pass | Over every press, move and release on the five pressable buttons of `MCPaint`, the pick surface names the widget the visible surface shows at every pixel (`PickMatchesVisible`): a click acts on what is shown, even where the `no_clipping` bug shows the wrong widget. Every button's border shows its current relief (`DrawnReliefCurrent`): each handler that changes a relief invalidates the button. 236 states. |
| `paint_noclip` | violation | Between events both surfaces should show a full redraw of the tree (`DrawnAsFullRedraw`). One press on button 3 damages only its rect, (1,1,3,3). The redraw paints close button 2 of the back toplevel 1 with its grandparent's content_rect as clipper, over toplevel 4's title bar at pixel (4,0), in the visible surface and in the pick surface. A click there then runs `quit_toplevel_event` on the hidden toplevel (finding). |

### Disagreements found without a run of their own

These are traces from the same modules. They are listed as hazards in
`PROJECT.json`.
- **`button_pressed` after quit** (`PressedButtonLive == pressed \in live \cup {NIL}`):
  1. create a toplevel;
  2. press the left button on its close button (`ei_handle_button_down`
     sets `button_pressed`, then `quit_toplevel_event` frees it);
  3. move the pointer: `ei_handle_button_move` reads the freed button's
     relief.
- **Two drags** (with `Buttons = {left, right}`):
  1. press left on a resize button (`beg_resize`);
  2. press right on the title bar: `beg_move` checks no button, so
     `moving_toplevel` and `resizing_toplevel` are both set, against spec
     section 5 (one drag at a time). TLC finds it in `toolkit_dispatch`'s
     model with the invariant `moving = NIL \/ resizing = NIL`.
- **Resizable again:**
  1. `ei_toplevel_configure` with resizable none, then both;
  2. create two buttons in the toplevel: `ei_widget_create` looks for a
     resize button that is gone and walks off the list
     (`ei_widget.c:565`; needs `MaxWidgets = 6`).
- **Re-placement:**
  1. `ei_place(w)` with every argument NULL stores width = requested width;
  2. `ei_place(w, rel_width = 1.0)` keeps it, so the width becomes the
     parent's plus the requested one.

  Spec section 3 says the block is replaced wholesale.
- **Unclosable** (`NoCrash`, the model's `crashed` stays FALSE):
  `ei_toplevel_configure` with closable FALSE on a default toplevel unlinks
  the close button from the head of the children. It then calls
  `ei_widget_destroy`, which searches the list again, does not find the
  button and writes through a NULL `curr_child` (`ei_widget.c:655`). TLC
  reaches it in two client calls (create a toplevel, configure it). A cfg
  with `INVARIANT NoCrash` and `ClientCalls = {"toplevel", "unclosable"}`
  shows it.
- **Border on a placed frame** (`ContentInset`, `MCLayout_ok.cfg` with
  `MCBorderArgs = {NULL, 2}`): `ei_place(F)` gives `F` a content rect of
  its own; `ei_frame_configure(F, border_width 2)` then replaces it with a
  calloc'd (0,0,0,0) (`ei_widget.c:78`: the test `content_rect !=
  &screen_location` is inverted) and re-runs the placer, which sees no
  change. Children are laid out in the zero rect until `F` moves.
- **Zero-size frame** (`ContentInset`, with a configure call that gives
  neither size nor text): `ei_frame_configure(F)` resets requested_size to
  0x0; `ei_place(F)` computes (0,0,0,0), the location `F` already has, so
  `geomnotifyframe` never runs and the bordered `F` keeps the alias as its
  content rect.
- **Borderless parent outside the window** (`PlacedAsClippedReference`,
  with border 0 for `F` and `MCFArgsOut`): `F` is placed at (-1,0,3,2),
  clipped to (0,0,2,2), its content the alias. `ei_place(C)` reads the
  clipped alias and puts `C` at (0,0); had `F` been placed after `C`, its
  geomnotify would have run `C` against (-1,0,3,2). Where the child lands
  depends on the order of the calls.
- **Frame clipped in place** (`ContentInset`; `MCLayout_trail.cfg` with
  `FCls = "frame"`, `MCFArgsOut` and `INVARIANT ContentInset`):
  1. `ei_place(F, anchor north)` computes (-1,0,3,2);
  2. `geomnotifyframe` sets the content to (0,1,1,0), and its invalidation
     clips `screen_location` in place to (0,0,2,2);
  3. `ei_place(F, anchor northwest, width 2)` computes (0,0,2,2), and
     runplacer sees no change.

  The content stays (0,1,1,0) instead of (1,1,0,0), and any child stays
  laid out in the old rect.
- **Toplevel moved** (`MoveInvalidated` restricted to `ei_place` steps,
  with `MCLayout_trail.cfg`):
  1. `ei_place(F)` puts the toplevel at (0,0,3,1), with `draw_rect`
     (0,0,5,5);
  2. `ei_place(F, x 3)` moves it to (3,0,3,1). runplacer invalidates
     `extend_rect` of the old `screen_location`, (-2,-2,7,5);
     `geomnotifytoplevel` invalidates (1,-2,9,9).

  Pixel (0,3), in the old title-bar area, is in neither rect. `move()`
  (`ei_toplevelclass.c:120`) does this on every pointer motion of more
  than 2 pixels while a toplevel is dragged. At the code's sizes, a move
  right leaves a strip 2 borders wide and 32 pixels high at the old
  bottom left.
- **Bordered button placed** (`MoveInvalidated` restricted to `ei_place`
  steps, `FCls = "button"`): `geomnotifybutton` invalidates the new
  content_rect, (1,1,1,0), and runplacer `extend_rect` of the old
  location. The new border ring of a button placed or moved on its own is
  not repainted.
- **Button taller than the window** (`ContentInset`, `MCLayout_ok.cfg`
  with `FCls = "button"`):
  1. `ei_place(F)` stores height 2, the requested height;
  2. `ei_place(F, rel_height 1)` keeps it, so `F` is 6 high, (0,0,3,6).

  The content rect is (1,1,1,4), and invalidating it clips it in place to
  (1,1,1,3). A button wholly left of the window (anchor north-east at x 1)
  likewise gets content (0,1,-1,0).
- **Border of a placed toplevel** (`PlacedAsClippedReference`,
  `MCLayout_trail.cfg` with `MCBorderArgs = {NULL, 2}`):
  1. `ei_place(F)` and `ei_place(C)`;
  2. `ei_toplevel_configure(F, border_width 2)`: runplacer computes the
     same `screen_location`, so `geomnotifytoplevel` does not run.

  `F`'s content rect and `draw_rect` keep the old border, and `C` stays at
  x 1 instead of x 2. A bordered button configured the same way gets the
  calloc'd zero content rect, as a frame does (`ei_widget.c:213`).
- **Far merge** (`MergesOnlyWhenNear` in `Damage`): the locality test has
  no `abs()`. So a rect to the right of or below the last entry is merged
  even when it is far away, e.g. (2,0,1,1) after (0,0,2,2). Spec sections
  4.6 and 8 say it is appended. `MergesWhenNear` (run `damage_ok`) checks
  the other direction.

Each property of a passing run has a mutant in `PROJECT.json`: a plausible
slip in the code that TLC then catches. Examples are `pick_id = ++wid_id`, a
tail not moved on unlink, a node not freed, `next` not set to NULL, an
insertion ignoring the resize button, `end_move` not clearing, and the tag
match without "all". In the new modules they include:
- a union keeping sizes, a merge test on the smaller size, and a
  `normalize_rect` without the clamp or without the fit;
- a register without the link, or one that frees the
  found record;
- an anchor switch with two cases swapped, a change test on the corner only,
  an `ei_place` that unmaps its own parameters, and a `geomnotifyframe`
  that computes the content rect only on its first call;
- a pick colour clipped by the damaged rect while the border of a
  `no_clipping` button is not (a half fix of the `paint_noclip` finding),
  and a release that raises the button without invalidating it.

## Bounds and why they are enough

- `MaxWidgets = 5`. Ids are never reused, since `wid_id` only grows. Five ids
  cover the root, one toplevel with both handles, and one more button. The
  button can go in the root (before or after the toplevel) or in the
  toplevel. This reaches every insertion case: empty list, single child,
  before the resize button, at the tail. It also reaches every unlink case
  of `ei_widget_destroy`. The "resizable again" crash needs 6 (a second
  extra child).
- `MaxBindNodes = 11`: the 7 built-in bindings, the toplevel's 3, and 1 of
  the application. Freed nodes are reused, lowest address first.
- Buttons: left and right in `toolkit_dispatch`, so `beg_move` on either button and releases of either are tried; left only in the other Toolkit runs, whose handlers act on the left button alone.
- `Bindings` runs use 3 nodes, 2 widgets and 2 event types. That is enough
  for consecutive bindings and for reusing a freed node.
- `Damage`:
  - a 3x2 window with corners from -1 to 3, sizes 1 and 2, and their
    `extend_rect`;
  - this reaches rects that are clipped on every side, rects wholly outside
    (zero or negative sizes), merges in both directions, and appends;
  - two pending rects are enough for "merge into the last entry" to differ
    from "merge into the only one".
- `Registries`: five records for four names, so each name can be registered
  again when all are in.
- `Layout`: one frame holding one frame is the smallest tree where
  geomnotify re-runs a child; `C` has no children, so its own geomnotify
  only insets and invalidates. `F`'s sizes (3 to 6 wide, 2 to 4 high, a
  border of 1) give content rects from 1x0 to 4x2, so a relative size
  of `C` truncates to 0 and falls back to the requested one, and `C`'s
  anchors put it outside `F` and outside the window. Requested sizes stay
  at least twice the border, so no content rect gets a negative size (the
  code does not guard against that either). `layout_ok` keeps `F` inside
  the window and configure's border NULL, as the two bugs above would
  otherwise break its properties.
- `Paint`: a small scene where painter's order matters.
  - Two overlapping toplevels, each with its close button, and a root
    child between them.
  - Five pressable buttons. A release away from the pressed button leaves
    it sunken, so their reliefs reach every combination.
  - Every pixel is enumerated and the three handlers run at every pixel,
    so every press, move and release position is tried.
  - Pressing the close buttons is left out (see Not modelled).

## Fairness

No run checks a liveness property, and no specification is fair. Events
come from the user, who may stop at any time, so neither `WaitEvent` nor
`ClientCall` may be fair. The walk of the bindings always ends in the
model: the only callback that changes the list during a walk is
`quit_toplevel_event`, and it returns `EI_TRUE`. A property saying so
would hold whatever the code does. The case where it could fail, an
application callback that unbinds and re-binds itself during the walk, is
application code and is not modelled.

## Not modelled (yet)

- **Colours and the pixel arithmetic of the hw layer:** `Paint` keeps which
  widget and which part of it a pixel shows, not its colour. Arc points of
  rounded corners, images and alpha blending are not modelled. `Toolkit`
  abstracts the surfaces to `pixel`.
- **`ei_fill` with a clipper reaching outside the surface** writes past the
  row or the buffer. The clippers of the redraw are normalised damage rects
  and the root content, so it is out of the scenes checked.
- **Pressing a close or resize button in `Paint`:** their handlers destroy or
  resize toplevels, which `Paint`'s fixed tree does not allow. `Toolkit`
  covers those handlers over the tree.
- **Attribute parts of `ei_*_configure`:** colours, text, images, borders.
- **Keyboard events and non-pickable bindings.**
- **Application tag bindings in a run:** `ClientCall` models `ei_bind` on a
  tag (`"bindtag"`), but no run enables it. Added to `toolkit_tree` or
  `toolkit_dispatch`, it takes TLC past the time budget. The tag match it
  would exercise (`Fires`, with "all") is checked by `toolkit_dispatch`
  through the built-in "all" bindings, whose mutant without "all" TLC
  catches.
- **Toplevels and bordered buttons in `layout_ok`:** `Layout` models their
  geomnotify and configure functions, but in `layout_ok` `F` is a frame and
  `C` a borderless button. With a toplevel or a bordered button, `MoveInvalidated` fails (the traces above), and one
  slot for a violation run is spent on the toplevel. `Paint` takes the
  content rects of buttons and toplevels as constants computed as their
  geomnotify does. Grandchildren are not in `MCLayout`'s tree.
- **The coupling of the modules:** `Toolkit` abstracts geometry to the pick
  colour under the pointer, so it does not use `Damage` or `Layout`. `Layout` records the rects it
  invalidates but does not feed them to `Damage`'s list.
- **`normalize_rect` applied in place:** modelled in `Layout`, where it
  clips the widget's own `screen_location`. `Damage` copies its inputs.

## Plan

Most important first:
1. Done:
   - `Bindings` with its refinement;
   - `Toolkit` with its dispatch, handlers, tree and handles;
   - `Damage`;
   - `Registries` with its refinement;
   - `Layout`: placement of a widget and its child, the geometry of the
     configure function and the geomnotify of all three classes, checked
     against a reference;
   - `Paint`, the redraw of the surfaces and the button handlers;
2. Next: `Layout` with a second child and a grandchild, and its damage
   fed to `Damage`, to check that every moved widget's area is in the
   list at the redraw.
3. Next: the drag handlers (`move`, `resize`) driving `Layout`'s
   `ei_place`.
4. Next: `Paint` with the close button's handler and the text of widgets
   without border (`final_clipper`), and `Paint` driven by `Damage`'s merged
   rects instead of one rect per handler.
5. Then: stuck-sunken relief, once geometry is precise enough to rule out
   layouts the placer cannot produce.
