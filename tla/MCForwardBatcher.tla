-------------------------- MODULE MCForwardBatcher --------------------------
(***************************************************************************)
(* ForwardBatcher with its streams as model values.                        *)
(***************************************************************************)
EXTENDS ForwardBatcher

CONSTANTS s1, s2
MCStreams == {s1, s2}
MCMaxRequests == [st \in MCStreams |-> IF st = s1 THEN 2 ELSE 1]
============================================================================
