------------------------- MODULE MCSessionLifecycle -------------------------
(***************************************************************************)
(* SessionLifecycle with ids as model values and connections numbered in   *)
(* the order they open; no symmetry, because liveness is checked.          *)
(***************************************************************************)
EXTENDS SessionLifecycle
============================================================================
