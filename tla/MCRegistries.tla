---------------------------- MODULE MCRegistries ----------------------------
(* Bounds for Registries: the three classes and the placer that           *)
(* ei_app_create registers, and one spare record, so that every name can  *)
(* be registered again after all four are in.                             *)
EXTENDS Registries

CONSTANTS n1, n2, n3, n4, n5, frame, button, toplevel, placer

MCNodes == {n1, n2, n3, n4, n5}
MCClassNames == {frame, button, toplevel}
MCManagerNames == {placer}
=============================================================================
