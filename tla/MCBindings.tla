----------------------------- MODULE MCBindings -----------------------------
(***************************************************************************)
(* Model-checking harness for Bindings.  The client either binds freely    *)
(* (BSpec) or keeps the discipline the toolkit's own bindings keep,    *)
(* at most one binding per widget (MCNextOnePerWidget: beg_move on a       *)
(* toplevel, beg_resize on its resize button, quit_toplevel_event on its   *)
(* close button).                                                          *)
(***************************************************************************)
EXTENDS Bindings

OnePerWidget(b) ==
    b.widget = NIL \/ \A i \in 1 .. Len(BindContents) : BindContents[i].widget # b.widget

MCNextOnePerWidget ==
    \/ \E b \in Binding : (Bind(b) /\ OnePerWidget(b)) \/ Unbind(b)
    \/ \E w \in Widgets : DestroyBindingsOf(w)

MCSpecOnePerWidget == BInit /\ [][MCNextOnePerWidget]_bvars
=============================================================================
