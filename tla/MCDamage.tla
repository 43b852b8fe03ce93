------------------------------ MODULE MCDamage ------------------------------
(* Bounds for Damage: a 3x2 root window, widgets of size 1 or 2 whose      *)
(* corner may lie one pixel off every edge, and at most two pending rects. *)
EXTENDS Damage

MCCoords == -1 .. 3
MCSizes == {1, 2}
=============================================================================
