-------------------------- MODULE AbstractRegistry --------------------------
(***************************************************************************)
(* What a registry of widget classes or geometry managers promises (spec   *)
(* section 3): registering a name already present is a no-op, any other   *)
(* name is put in front, and a lookup returns the entry of that name.      *)
(***************************************************************************)
EXTENDS Sequences, SequencesExt

CONSTANT Names

VARIABLE registry   \* the registered names, most recent first

ARegister(nm) ==
    registry' = IF nm \in Range(registry) THEN registry ELSE <<nm>> \o registry

AInit == registry = <<>>

ASpec == AInit /\ [][\E nm \in Names : ARegister(nm)]_registry
=============================================================================
