----------------------------- MODULE MCVadEngine -----------------------------
(***************************************************************************)
(* VadEngine with its callers as model values.  Three of them: one reloads, *)
(* one runs the new model, and one is still on its way out of the old one.  *)
(***************************************************************************)
EXTENDS VadEngine

CONSTANTS c1, c2, c3
MCCallers == {c1, c2, c3}
============================================================================
