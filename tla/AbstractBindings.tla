-------------------------- MODULE AbstractBindings --------------------------
(***************************************************************************)
(* What the binding registry promises (spec section 4.5): an ordered list  *)
(* of (event type, target, callback) bindings.  bind appends, unbind       *)
(* removes the first binding equal in every field, and destroying a widget *)
(* removes every binding that targets it.  Nothing else changes the list.  *)
(***************************************************************************)
EXTENDS Sequences, SequencesExt

CONSTANTS Events, Widgets, Tags, Callbacks, NIL

Binding == [ev : Events, widget : Widgets \cup {NIL},
            tag : Tags \cup {NIL}, cb : Callbacks]

VARIABLE bindings

ABind(b) == bindings' = Append(bindings, b)

AUnbind(b) == bindings' = RemoveFirst(bindings, b)

ADestroyOf(w) == bindings' = SelectSeq(bindings, LAMBDA b : b.widget # w)

AInit == bindings = <<>>

ANext ==
    \/ \E b \in Binding : ABind(b) \/ AUnbind(b)
    \/ \E w \in Widgets : ADestroyOf(w)

ASpec == AInit /\ [][ANext]_bindings
=============================================================================
