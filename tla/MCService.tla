----------------------------- MODULE MCService -----------------------------
(***************************************************************************)
(* The instances of Service that TLC checks: probes wired as the tests of  *)
(* the controller wire them, and as the engines declare them.  Of the two  *)
(* waits, which both move with the chunks, one stands for both; the other  *)
(* probe moves with the finals.                                            *)
(***************************************************************************)
EXTENDS Service

MCProbes == {"streaming_wait_ms", "final_fallback_rate"}
Methods == [p \in MCProbes |-> "method"]
Properties == [p \in MCProbes |-> "property"]
============================================================================
