------------------------- MODULE MCSessionPipeline -------------------------
(***************************************************************************)
(* The instance of SessionPipeline that TLC checks: a few audio units,     *)
(* with every window short enough to expire and every limit low enough to  *)
(* be reached.                                                             *)
(***************************************************************************)
EXTENDS SessionPipeline

MCChunkLengths == {1, 2}
MCGaps == {1}
MCResults == {"text"}
============================================================================
