------------------------------- MODULE MCPaint -------------------------------
(***************************************************************************)
(* A 10x6 root window (frame 0) holding two toplevels, 1 then 4, each     *)
(* with its close button (2 and 5) in its title bar.  Toplevel 1 holds    *)
(* button 3, with a one-pixel text, and button 6, both away from          *)
(* toplevel 4; toplevel 4 holds buttons 7 and 8; button 9, a child of the *)
(* root drawn between the toplevels, lies partly under toplevel 4.  Close *)
(* button 2 lies under toplevel 4's title bar.                            *)
(*                                                                         *)
(* Lengths are scaled to one pixel: the title bar (30), the toplevel and  *)
(* button borders (4) and the title's offset (25).  geomnotifytoplevel:   *)
(* content_rect is screen_location moved right by the border and down by  *)
(* the title bar, draw_rect is screen_location grown by two borders       *)
(* across and by a border and the bar down.  geomnotifybutton:            *)
(* content_rect is screen_location shrunk by the border on every side.    *)
(***************************************************************************)
EXTENDS Paint, TLC

R(x, y, w, h) == [x |-> x, y |-> y, w |-> w, h |-> h]
Tops == {1, 4}
Buttons == {2, 3, 5, 6, 7, 8, 9}
W == 0 .. 9

MCWin == [w |-> 10, h |-> 6]
MCKids == 0 :> <<1, 9, 4>> @@ 1 :> <<2, 3, 6>> @@ 4 :> <<5, 7, 8>>
          @@ [w \in Buttons |-> <<>>]
MCCls == [w \in W |-> CASE w \in Tops -> "toplevel"
                        [] w \in Buttons -> "button"
                        [] OTHER -> "frame"]
MCScreen == 0 :> R(0, 0, 10, 6) @@ 1 :> R(0, 0, 5, 4) @@ 4 :> R(4, 0, 4, 2)
            @@ 2 :> R(4, 0, 1, 1) @@ 3 :> R(1, 1, 3, 3) @@ 6 :> R(2, 4, 3, 1)
            @@ 5 :> R(8, 0, 1, 1) @@ 7 :> R(6, 1, 2, 2) @@ 8 :> R(8, 1, 1, 2)
            @@ 9 :> R(7, 3, 3, 2)
MCBorder == [w \in W |-> IF w = 0 THEN 0 ELSE 1]
MCContent == [w \in W |->
                LET s == MCScreen[w]  b == MCBorder[w]
                IN  CASE w \in Tops -> R(s.x + b, s.y + 1, s.w, s.h)
                      [] w \in Buttons -> R(s.x + b, s.y + b, s.w - 2 * b, s.h - 2 * b)
                      [] OTHER -> s]
MCDrawRect == [w \in W |->
                 LET s == MCScreen[w]  b == MCBorder[w]
                 IN  IF w \in Tops THEN R(s.x, s.y, s.w + 2 * b, s.h + b + 1) ELSE s]
MCNoClip == [w \in W |-> w \in {2, 5}]
MCText == [w \in W |-> IF w = 3 THEN [w |-> 1, h |-> 1] ELSE NoText]
MCTextAnchor == [w \in W |-> "center"]
MCTitleSize == [w |-> 2, h |-> 1]
MCRelief0 == [w \in W |-> IF w \in Buttons THEN "raised" ELSE "none"]
=============================================================================
