------------------------------ MODULE MCLayout ------------------------------
(* Bounds for Layout: a widget F in an 8x4 root window holding a widget C. *)
(* Fractions are in quarters.  ei_place may give any anchor and leave any  *)
(* of width, rel_x, rel_width, rel_height NULL, so that F is large, small  *)
(* enough for a half of its content to truncate to zero, or partly        *)
(* outside the window, and C lands anywhere in it.  F starts with a       *)
(* border of 1 (its content_rect still the alias until its first           *)
(* geomnotify), C with none.  A configure call gives a requested size,     *)
(* or a text of 4x3, and a border width from MCBorderArgs.                 *)
EXTENDS Layout, TLC

CONSTANTS NULL, F, C, MCBorderArgs, MCFArgs, FCls, CCls

MCW == {F, C}
MCKids == Root :> <<F>> @@ F :> <<C>> @@ C :> <<>>
\* The classes of F and C come from the configuration.  The title bar
\* is scaled to 3 pixels: like default_topbar_height (30), it is higher
\* than the 2-pixel margin of extend_rect.
MCCls == F :> FCls @@ C :> CCls
MCTopReq == [w |-> 4, h |-> 2]
MCTitleH == 3
MCWinSize == [w |-> 8, h |-> 4]
MCTextSize == [w |-> 4, h |-> 3]
MCBorder0 == F :> 1 @@ C :> 0
MCReq0 == F :> [w |-> 3, h |-> 2] @@ C :> [w |-> 1, h |-> 1]
\* Calls placing F inside the window: north-west, at x 0 or 1, 6 wide or
\* as wide as requested, as high as the window or as requested.
MCFArgsInWindow ==
    [anchor : {NULL}, x : {NULL, 1}, y : {NULL}, width : {NULL, 6},
     height : {NULL}, rel_x : {NULL}, rel_y : {NULL}, rel_width : {NULL},
     rel_height : {NULL, 4}]
\* Calls that may also centre F on the window's left edge (half outside)
\* and then place it north-west, 2 wide.
MCFArgsOut ==
    [anchor : {NULL, "northwest", "north"}, x : {NULL}, y : {NULL},
     width : {NULL, 2}, height : {NULL}, rel_x : {NULL}, rel_y : {NULL},
     rel_width : {NULL}, rel_height : {NULL}]
\* Calls that place F one pixel high, then move it 3 pixels right.
MCFArgsTrail ==
    [anchor : {NULL}, x : {NULL, 3}, y : {NULL}, width : {NULL},
     height : {NULL, 1}, rel_x : {NULL}, rel_y : {NULL}, rel_width : {NULL},
     rel_height : {NULL}]
\* C may take the anchors runplacer's switch treats apart.
MCCArgs == [anchor : {NULL, "northeast", "southwest"}, x : {NULL},
            y : {NULL}, width : {NULL, 2}, height : {NULL}, rel_x : {NULL, 2},
            rel_y : {NULL}, rel_width : {NULL, 4}, rel_height : {NULL}]
MCArgs == F :> MCFArgs @@ C :> MCCArgs
MCConfArgs ==
    [requested_size : {[w |-> 3, h |-> 2]}, border_width : MCBorderArgs,
     text : {NULL}]
    \cup [requested_size : {NULL}, border_width : MCBorderArgs, text : {"text"}]
=============================================================================
