----------------------------- MODULE MCAutosave -----------------------------
(* Autosave on small instances. *)
EXTENDS Autosave, TLC

CONSTANTS a, b
=============================================================================
