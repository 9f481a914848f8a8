---------------------------- MODULE MCFinalQueue ----------------------------
(***************************************************************************)
(* FinalQueue with jobs as model values: a queue shorter than the load, so *)
(* that it overflows, batches that hold all of it, one place in the engine.*)
(***************************************************************************)
EXTENDS FinalQueue

CONSTANTS j1, j2, j3

MCArrivals == <<j1, j2, j3>>
============================================================================
